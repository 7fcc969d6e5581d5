------------------------------ MODULE LabelFacts ------------------------------
(***************************************************************************)
(* A reader of what lltop shows: from an escaped string back to its bytes, *)
(* and from a label and a target back to the fields of the denial.         *)
(***************************************************************************)
EXTENDS Labels, WireFacts

Unhex(digit) == IF digit < 58 THEN digit - 48 ELSE digit - 87

Number(digits) ==
  LET value[n \in 0 .. Len(digits)] ==
        IF n = 0 THEN 0 ELSE 16 * value[n - 1] + Unhex(digits[n])
  IN value[Len(digits)]

Utf8(code) ==
  IF code < 128 THEN <<code>>
  ELSE IF code < 2048 THEN <<192 + (code \div 64), 128 + (code % 64)>>
  ELSE IF code < 65536
  THEN <<224 + (code \div 4096), 128 + ((code \div 64) % 64), 128 + (code % 64)>>
  ELSE <<240 + (code \div 262144), 128 + ((code \div 4096) % 64), 128 + ((code \div 64) % 64),
         128 + (code % 64)>>

\* The bytes a text with \\, \xNN and \u{N} stands for.  A backslash starts an
\* escape unless it ends one, that is after an odd number of others.
Unescaped(text) ==
  LET at(i) == IF i <= Len(text) THEN text[i] ELSE 0
      before(i) == CHOOSE n \in 0 .. i - 1 :
                     /\ \A k \in 1 .. n : text[i - k] = BACKSLASH
                     /\ n = i - 1 \/ text[i - n - 1] # BACKSLASH
      escapes(i) == text[i] = BACKSLASH /\ before(i) % 2 = 0
      braces(i) == {n \in 1 .. 11 : at(i + n - 1) = 125}
      length(i) ==
        IF ~escapes(i) THEN 1
        ELSE IF at(i + 1) = 120 THEN 4
        ELSE IF at(i + 1) = 117 /\ braces(i) # {}
        THEN CHOOSE n \in braces(i) : \A k \in braces(i) : n <= k
        ELSE 2
      within(i) == \E k \in 1 .. 10 : k < i /\ escapes(i - k) /\ length(i - k) > k
      piece(i) ==
        IF within(i) THEN <<>>
        ELSE IF ~escapes(i) THEN Utf8(text[i])
        ELSE IF at(i + 1) = 120 THEN <<Number(<<at(i + 2), at(i + 3)>>)>>
        ELSE IF length(i) > 4 THEN Utf8(Number(SubSeq(text, i + 3, i + length(i) - 2)))
        ELSE <<BACKSLASH>>
  IN Written([i \in DOMAIN text |-> piece(i)])

\* More bytes than can be captured: the last character is the omission mark.
ReadDisplay(text, origin) ==
  LET body == SubSeq(text, Len(origin.prefix) + 1, Len(text))
      marked == Len(Unescaped(body)) > origin.maximum_len
  IN [bytes |-> Unescaped(IF marked THEN SubSeq(body, 1, Len(body) - 1) ELSE body),
      bytes_omitted |-> marked]

ReadToken(token) ==
  LET marked == token # <<>> /\ token[Len(token)] = ELLIPSIS
  IN [bytes |-> Unescaped(IF marked THEN SubSeq(token, 1, Len(token) - 1) ELSE token),
      bytes_omitted |-> marked]

\* The captured strings of an event with their origins.
Strings(event) ==
  LET origin == [pathname |-> "Pathname", creator_comm |-> "Command", tracee_comm |-> "Command",
                 target_comm |-> "Command", abstract_name |-> "AbstractUnixSocketName"]
      of(record) == {[value |-> record[f], origin |-> Origin[origin[f]]] :
                       f \in DOMAIN record \cap DOMAIN origin}
  IN of(event) \cup IF IsDenial(event) THEN of(event.context.hierarchy) ELSE {}

\* The mask whose names and other bits a label lists.
MaskRead(label, table) ==
  LET listed(i) == \E k \in DOMAIN label.names : label.names[k] = table[i]
      sum[i \in 0 .. Len(table)] ==
        IF i = 0 THEN 0 ELSE sum[i - 1] + IF listed(i) THEN 2^(i - 1) ELSE 0
  IN sum[Len(table)] + IF label.numbers = <<>> THEN 0 ELSE label.numbers[1][2]

BlockersRead(label, own_type, table) ==
  LET value(key, default) ==
        IF \E k \in DOMAIN label.numbers : label.numbers[k][1] = key
        THEN label.numbers[CHOOSE k \in DOMAIN label.numbers : label.numbers[k][1] = key][2]
        ELSE default
  IN IF label.names = <<"change_topology">>
     THEN <<BlockerType.FS_CHANGE_TOPOLOGY, value("access", 0)>>
     ELSE IF value("request_type", None) # None
     THEN <<value("request_type", None), value("access", None)>>
     ELSE <<own_type, MaskRead(label, table)>>

\* A port that is not shown is zero.
PortsRead(target) ==
  <<IF "sport" \in DOMAIN target THEN target.sport ELSE 0,
    IF "dport" \in DOMAIN target THEN target.dport ELSE 0>>

-----------------------------------------------------------------------------

Decoded == last.step = "taken" /\ last.outcome # Invalid

\* "All captured strings are escaped before display", and on a line every
\* other byte is encoded "so records cannot be split" (lltop/README.md): from
\* the Display and Debug of captured bytes and from the token on a batch line
\* a reader gets back exactly the bytes, even those that are no UTF-8 or were
\* cut within a character, and whether any were omitted, even when the bytes
\* end with the mark itself; no text has a separator or control but a space,
\* and a token not even that.
TextExact ==
  Decoded =>
    \A s \in Strings(last.outcome) :
      LET shown == Display(s.value, s.origin)
          debug == DebugEscaped(s.value, s.origin)
          token == escape(s.value)
      IN /\ ReadDisplay(shown, s.origin) = s.value
         /\ Unescaped(debug) = s.origin.prefix \o s.value.bytes
         /\ ReadToken(token) = s.value
         /\ \A i \in DOMAIN shown : shown[i] = 32 \/ ~unsafe_category(shown[i])
         /\ \A i \in DOMAIN token : token[i] \in Literal \cup {BACKSLASH, ELLIPSIS}

\* What a DENIAL line and a row say of a denial is all of it: the type of the
\* blockers and every bit of their access can be read back, named or not, and
\* a port left out because the access is for the other side is one the BPF
\* program did not report (denial_fields and target_event against
\* project_checked_port).
DenialShown ==
  Decoded /\ IsDenial(last.outcome) =>
    LET event == last.outcome
        line == denial_fields(event)
        shown == {[blockers |-> line.blockers, target |-> line.target],
                  [blockers |-> blockers_event(event), target |-> target_event(event)]}
    IN \A s \in shown :
         /\ event.variant = "DenyAccessFs" =>
              BlockersRead(s.blockers, BlockerType.FS_ACCESS, FILESYSTEM_ACCESS_NAMES)
                = <<event.blockers_type, event.blockers_access>>
         /\ event.variant = "DenyAccessNet" =>
              /\ BlockersRead(s.blockers, BlockerType.NET_ACCESS, NETWORK_ACCESS_NAMES)
                   = <<event.blockers_type, event.blockers_access>>
              /\ PortsRead(s.target) = <<event.source_port, event.destination_port>>
=============================================================================
