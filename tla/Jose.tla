-------------------------------- MODULE Jose --------------------------------
(***************************************************************************)
(* The encodings of the N32-f messages: base64url and AES-128-GCM          *)
(* (sepp_JOSE.cpp in src/src/sepp_app), and the choice between the two     *)
(* that the SEPP makes when it wraps and unwraps a body                    *)
(* (sepp_n32f_forward.cpp, sepp_app.cpp).                                  *)
(*                                                                         *)
(* Base64url is modelled over bytes and characters.  AES-GCM is external:  *)
(* a ciphertext is what it was made from, and a tag is the only one that   *)
(* fits its key, IV, additional data and ciphertext.                       *)
(***************************************************************************)
EXTENDS Naturals, Sequences, FiniteSets

\* Characters are numbered: the 64 of base64 with "+" and "/" last, the "="
\* that fills up the last group, and the two of the URL-safe alphabet.
Plus == 62
Slash == 63
Fill == 64
Minus == 65
Underscore == 66

Byte == 0 .. 255
Char == 0 .. Underscore

At(s, i) == IF i \in DOMAIN s THEN s[i] ELSE 0
Groups(n, size) == (n + size - 1) \div size

\* What each of three bytes, and each of four characters, counts in the 24 bits
\* of their group.
ByteWeight == <<65536, 256, 1>>
CharWeight == <<262144, 4096, 64, 1>>

OfBytes(b, g) ==
  At(b, 3 * g + 1) * 65536 + At(b, 3 * g + 2) * 256 + At(b, 3 * g + 3)
OfChars(s, g) ==
  LET Bits(i) == At(s, 4 * g + i) % Fill
  IN  Bits(1) * 262144 + Bits(2) * 4096 + Bits(3) * 64 + Bits(4)

\* External, OpenSSL's BIO_f_base64 without line breaks.
BioEncode(b) ==
  [k \in 1 .. 4 * Groups(Len(b), 3) |->
     IF 6 * (k - 1) < 8 * Len(b)
     THEN (OfBytes(b, (k - 1) \div 4) \div CharWeight[((k - 1) % 4) + 1]) % 64
     ELSE Fill]

\* It reads whole groups, and the "=" at the end tell how many bytes the last
\* one has; a character it does not know ends in an error.
BioDecode(s) ==
  LET fills == Cardinality({i \in DOMAIN s : s[i] = Fill}) IN
  IF \E i \in DOMAIN s : s[i] > Fill
  THEN [ok |-> FALSE, bytes |-> <<>>]
  ELSE LET n == 3 * (Len(s) \div 4) - fills IN
       [ok |-> TRUE,
        bytes |-> [i \in 1 .. n |->
          (OfChars(s, (i - 1) \div 3) \div ByteWeight[((i - 1) % 3) + 1])
            % 256]]

\* The characters that are not "=", in their order.
WithoutFill(s) ==
  LET kept == {i \in DOMAIN s : s[i] # Fill}
      Nth(k) ==
        CHOOSE i \in kept : Cardinality({j \in kept : j <= i}) = k
  IN  [k \in 1 .. Cardinality(kept) |-> s[Nth(k)]]

\* Variant: "/" stays as it is.
Base64urlEncodeWithSlash(b) ==
  LET Url(c) == IF c = Plus THEN Minus ELSE c
      kept == WithoutFill(BioEncode(b))
  IN  [k \in DOMAIN kept |-> Url(kept[k])]

\* base64url_encode
Base64urlEncode(b) ==
  LET Url(c) == CASE c = Plus -> Minus [] c = Slash -> Underscore
                  [] OTHER -> c
      kept == WithoutFill(BioEncode(b))
  IN  [k \in DOMAIN kept |-> Url(kept[k])]

\* Variant: the last group is not filled up.
FilledNot(s) == s

\* The loop of base64url_decode that fills up the last group.
Filled(s) ==
  s \o [i \in 1 .. 4 * Groups(Len(s), 4) - Len(s) |-> Fill]

\* base64url_decode: an error gives the empty string.
Base64urlDecode(s) ==
  LET Std(c) == CASE c = Minus -> Plus [] c = Underscore -> Slash
                  [] OTHER -> c
      read == BioDecode(Filled([k \in DOMAIN s |-> Std(s[k])]))
  IN  IF read.ok THEN read.bytes ELSE <<>>
-----------------------------------------------------------------------------
\* Byte strings the SEPP does not look into: what they are, and their size.
Opaque(of, size) == [of |-> of, size |-> size]
Absent == Opaque("empty", 0)
Empty(x) == x.size = 0

KeySize == 16
IvSize == 12
TagSize == 16

\* External, AES-128-GCM.
GcmCiphertext(key, iv, text) ==
  Opaque([key |-> key, iv |-> iv, text |-> text], text.size)
GcmTag(key, iv, aad, ciphertext) ==
  Opaque([key |-> key, iv |-> iv, aad |-> aad, of |-> ciphertext], TagSize)

Failed == [ok |-> FALSE, iv |-> Absent, ciphertext |-> Absent, tag |-> Absent]

\* apply_jwe_encryption with the random IV it draws.  The strings it returns
\* are coded with base64url, which loses nothing (DecodesBack).
ApplyJweEncryption(plaintext, aad, key, iv) ==
  IF key.size # KeySize
  THEN Failed
  ELSE LET c == GcmCiphertext(key, iv, plaintext) IN
       [ok |-> TRUE, iv |-> iv, ciphertext |-> c,
        tag |-> GcmTag(key, iv, aad, c)]

Refused == [ok |-> FALSE, text |-> Absent]

\* Variant: the additional data are not given to the cipher.
DecryptJwePayloadOnly(m, aad, key) ==
  IF /\ key.size = KeySize /\ m.iv.size = IvSize /\ m.tag.size = TagSize
     /\ m.tag = GcmTag(key, m.iv, m.tag.of.aad, m.ciphertext)
  THEN [ok |-> TRUE, text |-> m.ciphertext.of.text]
  ELSE Refused

\* decrypt_jwe_payload: the text is there before the tag is compared, and is
\* handed over only when it fits.
DecryptJwePayload(m, aad, key) ==
  IF /\ key.size = KeySize /\ m.iv.size = IvSize /\ m.tag.size = TagSize
     /\ m.tag = GcmTag(key, m.iv, aad, m.ciphertext)
  THEN [ok |-> TRUE, text |-> m.ciphertext.of.text]
  ELSE Refused

Bare(ciphertext) == [Failed EXCEPT !.ok = TRUE, !.ciphertext = ciphertext]

\* build_reformatted_data: a body is encrypted when there is a content key and
\* only encoded when there is none; an empty one is left out.
Wrap(body, aad, key, iv) ==
  IF ~Empty(body) /\ ~Empty(key)
  THEN ApplyJweEncryption(body, aad, key, iv)
  ELSE Bare(body)

\* handle_n32f_process_post and handle_nf_service_request_prins: the receiver
\* decrypts when it has a key and the message an IV and a tag.
Unwrap(m, aad, key) ==
  IF Empty(m.ciphertext) \/ Empty(key) \/ Empty(m.iv) \/ Empty(m.tag)
  THEN [ok |-> TRUE, text |-> m.ciphertext]
  ELSE DecryptJwePayload(m, aad, key)
=============================================================================
