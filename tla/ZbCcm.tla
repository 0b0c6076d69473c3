------------------------------- MODULE ZbCcm --------------------------------
(***************************************************************************)
(* Encryption and authentication of frames (secur/): CCM* as the simulator *)
(* build computes it (secur_ccm.c), as the CC25xx build lets its           *)
(* coprocessor compute it (zb_TI_cc25xx_secur_ccm.c) and as the UZ24xx     *)
(* transceiver does (external, the standard itself), and the functions of  *)
(* the MAC, NWK and APS layers that call it.  A byte is the set of the     *)
(* atoms whose XOR it is; AES maps a block to atoms of its own, so that    *)
(* two computations give the same bytes if and only if they do for every   *)
(* cipher.  One frame goes from a device to another, perhaps more than     *)
(* once, and one byte of it may be hit by noise.                           *)
(***************************************************************************)
EXTENDS Naturals, Sequences

CONSTANTS
  BlockSize,   \* bytes of an AES block, 16 in the code
  MicLen,      \* ZB_CCM_M
  HeaderLens,  \* lengths of what is authenticated, the security control included
  PayloadLens, \* lengths of what is encrypted
  MaxSends     \* bound: transmissions of the frame

CcmAssumption ==
  /\ BlockSize \in Nat \ {0, 1, 2} /\ MicLen \in 1 .. BlockSize
  /\ HeaderLens \subseteq Nat \ {0} /\ PayloadLens \subseteq Nat /\ MaxSends \in Nat

VARIABLES
  tx, rx,      \* builds of the two devices: "sw", "cc" or "uz"
  layer,       \* that secures the frame: "mac", "nwk" or "aps"
  hlen,        \* length of the header
  src,         \* the payload in the buffer of the sender
  label, ctr,  \* the key sequence number and the counter in its auxiliary header
  active, out, \* the sender's active key and its next outgoing frame counter
  sends,       \* transmissions so far
  sky,         \* the frame on the air
  got          \* what the receiver made of it

vars == <<tx, rx, layer, hlen, src, label, ctr, active, out, sends, sky, got>>

Builds == {"sw", "cc", "uz"}
Nothing == [state |-> "none"]

-----------------------------------------------------------------------------
(* Bytes, blocks and the cipher. *)

Zeros(n) == [i \in 1 .. n |-> {}]
Named(tag, n) == [i \in 1 .. n |-> {<<tag, i, <<>>>>}]
XorByte(x, y) == (x \ y) \cup (y \ x)

\* xor16, of the bytes both have
Xor(u, v) == [i \in 1 .. (IF Len(u) < Len(v) THEN Len(u) ELSE Len(v)) |-> XorByte(u[i], v[i])]

Ceil(n) == (n + BlockSize - 1) \div BlockSize
Block(s, i) == SubSeq(s, BlockSize * (i - 1) + 1, BlockSize * i)
Chunk(s, i) == SubSeq(s, BlockSize * (i - 1) + 1,
                      IF BlockSize * i < Len(s) THEN BlockSize * i ELSE Len(s))
Padded(s) == s \o Zeros(BlockSize * Ceil(Len(s)) - Len(s))

\* aes128; the key comes before everything else in an atom.
Aes(key, block) == [j \in 1 .. BlockSize |-> {<<key, j, block>>}]

\* Flags, nonce and a number, in one block: B0 of a message length, A of an index.
Formatted(tag, nonce, n) == <<{<<tag, 100 * nonce + n, <<>>>>}>> \o Zeros(BlockSize - 1)
B0(nonce, mlen) == Formatted("B0", nonce, mlen)
A(nonce, i) == Formatted("A", nonce, i)

\* What op makes of x with the blocks 1 .. n, one after the other.
OverBlocks(op(_, _), x, n) ==
  LET f[i \in 0 .. n] == IF i = 0 THEN x ELSE op(f[i - 1], i) IN f[n]

\* L(a), the length of the header in two bytes.
L(alen) == <<{}, {<<"L", alen, <<>>>>}>>

-----------------------------------------------------------------------------
(* secur_ccm.c *)

\* Mutant of Absorb: what does not fill a block is forgotten.
Absorb_WholeOnly(key, t, s) ==
  OverBlocks(LAMBDA x, i : Aes(key, Xor(x, Block(s, i))), t, Len(s) \div BlockSize)

\* The loop over whole blocks, then the rest with padding.
Absorb(key, t, s) ==
  OverBlocks(LAMBDA x, i : Aes(key, Xor(x, Padded(Chunk(s, i)))), t, Ceil(Len(s)))

\* auth_trans: B0, the first block with L(a), the rest of a, then m.
auth_trans(key, nonce, a, m) ==
  LET begun == Aes(key, B0(nonce, Len(m)))
      start == IF Len(a) <= BlockSize - 2
               THEN Aes(key, Xor(begun, Padded(L(Len(a)) \o a)))
               ELSE Aes(key, Xor(begun, L(Len(a)) \o SubSeq(a, 1, BlockSize - 2)))
  IN  SubSeq(Absorb(key, Absorb(key, start, SubSeq(a, BlockSize - 1, Len(a))), m), 1, MicLen)

\* The key stream from A1 on, and what it does to m.
Streamed(key, nonce, m) ==
  OverBlocks(LAMBDA s, i : s \o Xor(Aes(key, A(nonce, i)), Chunk(m, i)), <<>>, Ceil(Len(m)))

\* encrypt_trans: the text, and the tag behind it.
encrypt_trans(key, nonce, m, t) == Streamed(key, nonce, m) \o Xor(Aes(key, A(nonce, 0)), t)

\* zb_ccm_encrypt_n_auth
EncryptSw(key, nonce, a, m) ==
  a \o encrypt_trans(key, nonce, m, auth_trans(key, nonce, a, m))

\* zb_ccm_decrypt_n_auth: the text that comes out, its tag compared with the one computed
\* from it.  A text that is refused is overwritten.
DecryptSw(key, nonce, a, c) ==
  LET m  == SubSeq(c, 1, Len(c) - MicLen)
      pt == encrypt_trans(key, nonce, m, SubSeq(c, Len(c) - MicLen + 1, Len(c)))
      text == SubSeq(pt, 1, Len(m))
      ok == SubSeq(pt, Len(m) + 1, Len(pt)) = auth_trans(key, nonce, a, text)
  IN  [ok |-> ok, text |-> IF ok THEN text ELSE [i \in DOMAIN text |-> {<<"0xeb", 0, <<>>>>}]]

-----------------------------------------------------------------------------
(* zb_TI_cc25xx_secur_ccm.c *)

\* The padding behind s: a whole block if s ends with one.
Appendix(n) == Zeros(BlockSize - (n % BlockSize))

\* The coprocessor in CBC-MAC mode over n blocks of s; what s has no bytes for is what
\* the buffer had before.
CbcMac(key, s, n, who) ==
  LET all == s \o Named(who, BlockSize * n)
  IN  OverBlocks(LAMBDA x, i : Aes(key, Xor(x, Block(all, i))), Zeros(BlockSize), n)

\* auth_trans: B0, L(a), a and m in one buffer.  The length counts a padding for m even if
\* m is empty and gets none.
auth_trans_cc(key, nonce, a, m, who) ==
  LET msg == B0(nonce, Len(m)) \o L(Len(a)) \o a \o Appendix(Len(a) + 2)
             \o m \o (IF m = <<>> THEN <<>> ELSE Appendix(Len(m)))
      msg_len == 3 * BlockSize + (Len(m) - (Len(m) % BlockSize))
                 + (Len(a) + 2 - ((Len(a) + 2) % BlockSize))
  IN  SubSeq(CbcMac(key, msg, msg_len \div BlockSize, who), 1, MicLen)

\* encrypt_trans encrypts the text where it stands, and the tag in OFB mode.
encrypt_trans_cc(key, nonce, m, t) ==
  [text |-> Streamed(key, nonce, m), tag |-> Xor(Aes(key, A(nonce, 0)), t)]

\* zb_ccm_encrypt
EncryptCc(key, nonce, a, m) ==
  LET e == encrypt_trans_cc(key, nonce, m, auth_trans_cc(key, nonce, a, m, "old"))
  IN  a \o e.text \o e.tag

\* decrypt_trans, auth_check, zb_ccm_decrypt: a text that is refused stays.
DecryptCc(key, nonce, a, c) ==
  LET m == SubSeq(c, 1, Len(c) - MicLen)
      d == encrypt_trans_cc(key, nonce, m, SubSeq(c, Len(c) - MicLen + 1, Len(c)))
  IN  [ok |-> d.tag = auth_trans_cc(key, nonce, a, d.text, "stale"), text |-> d.text]

-----------------------------------------------------------------------------
(* CCM* as the standard has it, which the transceiver of UZ24xx implements. *)

Standard(key, nonce, a, m) ==
  LET msg == B0(nonce, Len(m)) \o Padded(L(Len(a)) \o a) \o Padded(m)
      tag == SubSeq(CbcMac(key, msg, Len(msg) \div BlockSize, "old"), 1, MicLen)
      key_stream == [i \in 0 .. Ceil(Len(m)) |-> Aes(key, A(nonce, i))]
      at(k) == key_stream[1 + (k - 1) \div BlockSize][1 + ((k - 1) % BlockSize)]
  IN  a \o [k \in DOMAIN m |-> XorByte(m[k], at(k))] \o Xor(tag, key_stream[0])

StandardDecrypt(key, nonce, a, c) ==
  LET m == SubSeq(c, 1, Len(c) - MicLen)
      all == Standard(key, nonce, a, m)
      text == SubSeq(all, Len(a) + 1, Len(a) + Len(m))
  IN  [ok |-> Standard(key, nonce, a, text) = a \o c, text |-> text]

-----------------------------------------------------------------------------
(* The layers. *)

\* The security control of the auxiliary header, with its level or with zero in its place,
\* then the other bytes of the header.
Header(control) == <<IF control = "level" THEN {<<"level", 5, <<>>>>} ELSE {}>>
                   \o Named("a", hlen - 1)

\* The key a frame is secured with, by its sequence number: the MAC layer has one.
KeyOf(seq) == CASE layer = "mac" -> "mac" [] seq = 1 -> "key1" [] OTHER -> "key2"

\* zb_nwk_secure_frame and zb_mac_secure_frame take key and counter when the frame is
\* sent; zb_secur_aps_aux_hdr_fill did when the command was made, but zb_aps_secure_frame
\* takes the key that is active now.
KeyNow == IF layer = "aps" THEN KeyOf(active) ELSE KeyOf(label')

\* The layers of this build encrypt with the level in the header, and send it zeroed, which
\* the receiver undoes; the MAC layer leaves it.
InAir == IF layer = "mac" THEN "level" ELSE "zeroed"

Init ==
  /\ tx \in Builds /\ rx \in Builds /\ layer \in {"mac", "nwk", "aps"}
  /\ hlen \in HeaderLens /\ src \in {Named("m", n) : n \in PayloadLens}
  /\ label = 1 /\ ctr = 0 /\ active = 1 /\ out = 1
  /\ sends = 0 /\ sky = Nothing /\ got = Nothing

Encrypt(key, nonce, a, m) ==
  CASE tx = "sw" -> EncryptSw(key, nonce, a, m)
    [] tx = "cc" -> EncryptCc(key, nonce, a, m)
    [] OTHER     -> Standard(key, nonce, a, m)

Decrypt(key, nonce, a, c) ==
  CASE rx = "sw" -> DecryptSw(key, nonce, a, c)
    [] rx = "cc" -> DecryptCc(key, nonce, a, c)
    [] OTHER     -> StandardDecrypt(key, nonce, a, c)

\* The trust center's switch of the key reaches the sender.
Switch ==
  /\ active = 1 /\ sky = Nothing /\ active' = 2
  /\ UNCHANGED <<tx, rx, layer, hlen, src, label, ctr, out, sends, sky, got>>

\* zb_mac_check_security for a frame that is sent for the first time or, as the layers
\* above retransmit from the same buffer, again.  An APS command is sent once.
Secure ==
  /\ sky = Nothing /\ sends < (IF layer = "aps" THEN 1 ELSE MaxSends) /\ sends' = sends + 1
  /\ IF layer = "aps" THEN UNCHANGED <<label, ctr, out>>
     ELSE label' = active /\ ctr' = out /\ out' = out + 1
  /\ LET sealed == Encrypt(KeyNow, ctr', Header("level"), src)
         body == SubSeq(sealed, hlen + 1, Len(sealed))
     IN  /\ sky' = [state |-> "sent", head |-> Header(InAir), seq |-> label', ctr |-> ctr',
                    body |-> body]
         /\ src' = IF tx = "cc" THEN SubSeq(body, 1, Len(src)) ELSE src
  /\ UNCHANGED <<tx, rx, layer, hlen, active, got>>

\* Noise hits one byte.
Noise ==
  /\ sky.state = "sent"
  /\ \E i \in 2 .. hlen + Len(sky.body) :
       LET hit(b) == XorByte(b, {<<"noise", 0, <<>>>>})
       IN  sky' = IF i <= hlen THEN [sky EXCEPT !.state = "hit", !.head[i] = hit(@)]
                               ELSE [sky EXCEPT !.state = "hit", !.body[i - hlen] = hit(@)]
  /\ UNCHANGED <<tx, rx, layer, hlen, src, label, ctr, active, out, sends, got>>

\* zb_nwk_unsecure_frame, zb_mac_unsecure_frame and zb_aps_unsecure_frame after their
\* checks of the counter.
Unsecure ==
  /\ sky # Nothing /\ sky' = Nothing
  /\ LET head == <<Header("level")[1]>> \o Tail(sky.head)
     IN  got' = [state |-> sky.state, is |-> Decrypt(KeyOf(sky.seq), sky.ctr, head, sky.body)]
  /\ UNCHANGED <<tx, rx, layer, hlen, src, label, ctr, active, out, sends>>

Next == Switch \/ Secure \/ Noise \/ Unsecure

Spec == Init /\ [][Next]_vars

-----------------------------------------------------------------------------

\* The coprocessor's padding is the standard's only if nothing ends at the end of a block.
CcPads(n) == (hlen + 2) % BlockSize # 0 /\ n % BlockSize # 0

\* Whether two builds compute the same: a text of length zero is authenticated with what
\* lay in the coprocessor's buffer.
Agree(n) == \/ "cc" \notin {tx, rx}
            \/ tx = rx /\ n # 0
            \/ CcPads(n)

\* An APS command is labelled with the key that was active when it was made.
Mislabelled == layer = "aps" /\ active # label

\* What was received intact is accepted, and is what was sent, whatever builds the two
\* devices have, and however often the frame was sent before; what was hit is refused.
\* It needs builds that agree on the padding, and a sender that keeps its text: the
\* coprocessor's build encrypts it where the layers above keep it for a retransmission.
CodecsRight ==
  LET n == Len(src)
  IN  got # Nothing =>
      /\ got.state = "hit" => ~got.is.ok
      /\ got.state = "sent" /\ Agree(n) /\ ~Mislabelled => got.is.ok
      /\ got.is.ok => got.is.text = Named("m", n) \/ (tx = "cc" /\ sends > 1)
=============================================================================
