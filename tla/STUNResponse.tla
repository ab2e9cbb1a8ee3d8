----------------------------- MODULE STUNResponse -----------------------------
(***************************************************************************)
(* Reading the answer of a STUN server: parseSTUNResponse and              *)
(* parseSTUNAddress of internal/engine/diagnostics.go.                     *)
(*                                                                         *)
(* The answer is "length" bytes from the network, of which nothing is      *)
(* known.  What a field contains is chosen when it is read; positions and  *)
(* lengths are kept in bytes, because they decide which bytes are touched. *)
(* It is proved about for all lengths (DiagnosticsProofs) and has no       *)
(* instance for TLC.                                                       *)
(***************************************************************************)
EXTENDS Integers, Sequences, SequencesExt

\* A datagram, or a message read from a TCP connection, has any length; the length
\* fields of the message and of an attribute have 16 bits.
Lengths == Nat
BodyLengths == 0..65535
AttLengths == 0..65535

VARIABLES
    length,  \* len(response)
    state,   \* header, attributes, ok, mismatch or error
    body,    \* bodyLength
    offset,  \* offset
    mapped,  \* result.Mapped: the position of the attribute it is from, or 0
    xor,     \* whether that attribute is an XOR-MAPPED-ADDRESS
    reads,   \* history: attributes read
    touched, \* history: the end of the last byte read
    plain,   \* history: positions of the MAPPED-ADDRESS attributes read
    xored    \* history: positions of the XOR-MAPPED-ADDRESS attributes read

parserVars == <<length, state, body, offset, mapped, xor, reads, touched, plain, xored>>

ParserTypeOK ==
    /\ length \in Lengths
    /\ state \in {"header", "attributes", "ok", "mismatch", "error"}
    /\ body \in BodyLengths \cup {0}
    /\ offset \in Nat
    /\ mapped \in Nat
    /\ xor \in BOOLEAN
    /\ reads \in Nat
    /\ touched \in Nat
    /\ plain \in Seq(Nat)
    /\ xored \in Seq(Nat)
    /\ state = "ok" => mapped # 0

ParserInit ==
    /\ length \in Lengths
    /\ state = "header"
    /\ body = 0
    /\ offset = 20
    /\ mapped = 0
    /\ xor = FALSE
    /\ reads = 0
    /\ touched = 0
    /\ plain = <<>>
    /\ xored = <<>>

-------------------------------------------------------------------------------

Larger(m, n) == IF m < n THEN n ELSE m

\* The padding after a value of n bytes.
Padding(n) == (4 - (n % 4)) % 4

End(result) ==
    /\ state' = result
    /\ UNCHANGED <<length, body, offset, mapped, xor, reads, plain, xored>>

\* Less than a header, or another magic cookie.
NotSTUN == state = "header" /\ End("error") /\ touched' = IF length < 20 THEN touched ELSE 8

OtherTransaction == state = "header" /\ length >= 20 /\ End("mismatch") /\ touched' = 20

\* An answer to this request that is not a success.
ErrorResponse == state = "header" /\ length >= 20 /\ End("error") /\ touched' = 20

ReadHeader(b) ==
    /\ state = "header"
    /\ length >= 20
    /\ touched' = 20
    /\ body' = b
    /\ state' = IF 20 + b > length THEN "error" ELSE "attributes"
    /\ UNCHANGED <<length, offset, mapped, xor, reads, plain, xored>>

MoreAttributes == offset + 4 <= 20 + body

\* The value of the attribute lies within the response.
Fits(n) == offset + 4 + n <= length

Following(n) == offset + 4 + n + Padding(n)

\* An attribute of another kind, and one whose value would lie past the end.
SkipAttribute(n) ==
    /\ state = "attributes"
    /\ MoreAttributes
    /\ reads' = reads + 1
    /\ touched' = Larger(touched, offset + 4)
    /\ IF Fits(n) THEN state' = state /\ offset' = Following(n)
       ELSE state' = "error" /\ UNCHANGED offset
    /\ UNCHANGED <<length, body, mapped, xor, plain, xored>>

\* An XOR-MAPPED-ADDRESS replaces what there is, a MAPPED-ADDRESS does not.
Preferred(isXor) == mapped = 0 \/ isXor

\* parseSTUNAddress, of a value of n bytes; size is the length of an address of its
\* family: 4, 16 or, for an unknown family, 0.
AddressSizes == {0, 4, 16}

ValidAddress(n, size) == n >= 8 /\ size # 0 /\ n >= 4 + size

AddressBytes(n, size) ==
    IF ValidAddress(n, size) THEN 4 + size ELSE IF n < 8 THEN 0 ELSE 4

\* An attribute whose value is an address.
AddressAttribute(n, size) ==
    /\ state = "attributes"
    /\ MoreAttributes
    /\ Fits(n)
    /\ reads' = reads + 1
    /\ touched' = Larger(touched, offset + 4 + AddressBytes(n, size))
    /\ IF ValidAddress(n, size) THEN state' = state /\ offset' = Following(n)
       ELSE state' = "error" /\ UNCHANGED offset
    /\ UNCHANGED <<length, body>>

\* MAPPED-ADDRESS and XOR-MAPPED-ADDRESS.
ReadAddress(n, isXor, size) ==
    /\ AddressAttribute(n, size)
    /\ IF ValidAddress(n, size)
       THEN /\ plain' = IF isXor THEN plain ELSE Append(plain, offset)
            /\ xored' = IF isXor THEN Append(xored, offset) ELSE xored
            /\ IF Preferred(isXor) THEN mapped' = offset /\ xor' = isXor
               ELSE UNCHANGED <<mapped, xor>>
       ELSE UNCHANGED <<plain, xored, mapped, xor>>

\* OTHER-ADDRESS: an error as well if it cannot be read.  Where it points to is
\* NATDiscovery's subject.
ReadOther(n, size) ==
    /\ AddressAttribute(n, size)
    /\ UNCHANGED <<plain, xored, mapped, xor>>

Finish ==
    /\ state = "attributes"
    /\ ~MoreAttributes
    /\ End(IF mapped = 0 THEN "error" ELSE "ok")
    /\ UNCHANGED touched

ParserNext ==
    \/ NotSTUN
    \/ OtherTransaction
    \/ ErrorResponse
    \/ \E b \in BodyLengths : ReadHeader(b)
    \/ \E n \in AttLengths : SkipAttribute(n)
    \/ \E n \in AttLengths, isXor \in BOOLEAN, size \in AddressSizes :
          ReadAddress(n, isXor, size)
    \/ \E n \in AttLengths, size \in AddressSizes : ReadOther(n, size)
    \/ Finish

ParserSpec == ParserInit /\ [][ParserNext]_parserVars

-------------------------------------------------------------------------------
(* Properties *)

\* No byte after the end of the response is read, whatever its fields say: reading
\* one would be an index out of range, and end the program.
InRange == touched <= length

\* The address reported is the last XOR-MAPPED-ADDRESS, and without one the first
\* MAPPED-ADDRESS, in whatever order the server sends them.
XorPreferred ==
    state = "ok" => mapped = IF xored # <<>> THEN Last(xored) ELSE Head(plain)

\* The loop ends: it reads at most as many attributes as their headers fit into
\* the response, though an attribute may be empty.
ReadsBounded == 4 * reads <= length
===============================================================================
