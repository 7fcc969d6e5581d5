------------------------------- MODULE Captured -------------------------------
(***************************************************************************)
(* CapturedBytes of src/event/string.rs: bytes the kernel captured, what   *)
(* they may be and how they are displayed.  Text is a sequence of code     *)
(* points.                                                                 *)
(***************************************************************************)
EXTENDS Naturals, Sequences

CONSTANT Invalid  \* an error of a constructor, or DecodeError

\* ALLOWS_NUL, MAXIMUM_LEN, whether OMISSION_POLICY is FullCapacity, and
\* DISPLAY_PREFIX ("@" or nothing).
Origin ==
  [Pathname |-> [allows_nul |-> FALSE, maximum_len |-> 256, omission |-> TRUE, prefix |-> <<>>],
   Command |-> [allows_nul |-> FALSE, maximum_len |-> 15, omission |-> FALSE, prefix |-> <<>>],
   AbstractUnixSocketName |->
     [allows_nul |-> TRUE, maximum_len |-> 107, omission |-> FALSE, prefix |-> <<64>>]]

\* CapturedBytes::new
CapturedBytes(bytes, bytes_omitted, origin) ==
  IF /\ origin.allows_nul \/ \A i \in DOMAIN bytes : bytes[i] # 0
     /\ Len(bytes) <= origin.maximum_len
     /\ bytes_omitted => origin.omission /\ Len(bytes) = origin.maximum_len
  THEN [bytes |-> bytes, bytes_omitted |-> bytes_omitted]
  ELSE Invalid

-----------------------------------------------------------------------------
(* Numbers and characters.                                                  *)

BACKSLASH == 92
ELLIPSIS == 8230

HexDigit(d) == IF d < 10 THEN 48 + d ELSE 87 + d

\* What is written piece by piece.
Written(pieces) ==
  LET join[lo \in 1 .. Len(pieces) + 1, hi \in 0 .. Len(pieces)] ==
        IF lo > hi THEN <<>>
        ELSE IF lo = hi THEN pieces[lo]
        ELSE LET middle == (lo + hi) \div 2
             IN join[lo, middle] \o join[middle + 1, hi]
  IN join[1, Len(pieces)]

\* {:x}
Hex(number) ==
  LET digits[n \in Nat] ==
        IF n < 16 THEN <<HexDigit(n)>> ELSE Append(digits[n \div 16], HexDigit(n % 16))
  IN digits[number]

\* \x{:02x}
EscapedByte(byte) == <<BACKSLASH, 120, HexDigit(byte \div 16), HexDigit(byte % 16)>>

\* The length of the UTF-8 character that starts at byte i, or 0 if none does.
Utf8Length(bytes, i) ==
  LET byte == bytes[i]
      continued(n) ==
        i + n <= Len(bytes) /\ \A k \in 1 .. n : bytes[i + k] \in 128 .. 191
  IN IF byte < 128 THEN 1
     ELSE IF byte \in 194 .. 223 /\ continued(1) THEN 2
     ELSE IF byte \in 224 .. 239 /\ continued(2)
             /\ (byte = 224 => bytes[i + 1] >= 160) /\ (byte = 237 => bytes[i + 1] < 160) THEN 3
     ELSE IF byte \in 240 .. 244 /\ continued(3)
             /\ (byte = 240 => bytes[i + 1] >= 144) /\ (byte = 244 => bytes[i + 1] < 144) THEN 4
     ELSE 0

\* The code point of the character of n bytes at byte i.
CodePoint(bytes, i, n) ==
  LET bits[k \in 0 .. n - 1] ==
        IF k = 0 THEN IF n = 1 THEN bytes[i] ELSE bytes[i] % 2^(7 - n)
        ELSE 64 * bits[k - 1] + (bytes[i + k] % 64)
  IN bits[n - 1]

\* get_general_category: Control, SpaceSeparator, LineSeparator,
\* ParagraphSeparator and the Format characters below U+10000.
unsafe_category(character) ==
  character \in (0 .. 32) \cup (127 .. 160) \cup (8192 .. 8207) \cup (8232 .. 8239)
                  \cup (8287 .. 8292) \cup (8294 .. 8303) \cup (1536 .. 1541) \cup (2192 .. 2193)
                  \cup (65529 .. 65531)
                  \cup {173, 1564, 1757, 1807, 2274, 5760, 6158, 12288, 65279}

-----------------------------------------------------------------------------
(* Display.                                                                 *)

write_valid_RawBackslash(character) ==
  IF character # 32 /\ unsafe_category(character)
  THEN <<BACKSLASH, 117, 123>> \o Hex(character) \o <<125>>
  ELSE <<character>>

\* One character of a valid chunk: \\, \u{...} or itself.
write_valid(character) ==
  IF character = BACKSLASH THEN <<BACKSLASH, BACKSLASH>>
  ELSE IF character # 32 /\ unsafe_category(character)
  THEN <<BACKSLASH, 117, 123>> \o Hex(character) \o <<125>>
  ELSE <<character>>

\* Valid characters, the bytes that are none and, if asked, the omission.
write_escaped(value, omission) ==
  LET bytes == value.bytes
      within(i) == \E k \in 1 .. 3 : k < i /\ Utf8Length(bytes, i - k) > k
      piece(i) ==
        LET n == Utf8Length(bytes, i)
        IN IF within(i) THEN <<>>
           ELSE IF n = 0 THEN EscapedByte(bytes[i])
           ELSE write_valid(CodePoint(bytes, i, n))
  IN Written([i \in DOMAIN bytes |-> piece(i)])
       \o IF omission /\ value.bytes_omitted THEN <<ELLIPSIS>> ELSE <<>>

Display(value, origin) == origin.prefix \o write_escaped(value, TRUE)

\* The field `escaped` of Debug: Display without its last character if that
\* is the omission, which has a field of its own.
DebugEscaped(value, origin) ==
  LET escaped == Display(value, origin)
  IN IF value.bytes_omitted THEN SubSeq(escaped, 1, Len(escaped) - 1) ELSE escaped
=============================================================================
