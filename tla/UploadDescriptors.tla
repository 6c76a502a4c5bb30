------------------------- MODULE UploadDescriptors -------------------------
(***************************************************************************)
(* The upload descriptors that methods 66 and 132 hand to a console        *)
(* (smm2_objects.go:24-118): measured bodies in which the server swaps the *)
(* bucket's host, the size of the asset and the PID of the account.  The   *)
(* bodies are nested structures that carry their lengths, and every swap   *)
(* has to keep them right.                                                 *)
(*                                                                         *)
(* A body is a sequence of tokens, each with a width in bytes; a           *)
(* descriptor is a body and the length the structure around it declares.   *)
(* No measured body is part of this tree (init_replay.go:17-27): which     *)
(* ones a build has is a constant.                                         *)
(***************************************************************************)
EXTENDS Naturals, SequencesExt

CONSTANTS
  PIDs,                  \* PIDs of the accounts
  ReferencePID,          \* the account the bodies were measured on
  PIDTokenSet,           \* is SMM2_RELATION_PID_TOKEN set (to ReferencePID)?
  HostWidth,             \* len(s3UploadHost); 48 in the code
  BaseWidth,             \* len(storageHostPort) + 1
  capturedRelationSize,  \* the sizes in the measured bodies, by type
  KeyText,               \* KeyText[kind]: the two texts a key of that kind begins with
  Bodies,                \* the kinds there is a measured body for
  captured132            \* the type of the body for all others, or NoBody

ASSUME DescriptorAssumption ==
  /\ PIDTokenSet \in BOOLEAN
  /\ HostWidth \in Nat \ {0}
  /\ BaseWidth \in Nat \ {0}
  /\ \A type \in DOMAIN capturedRelationSize : capturedRelationSize[type] \in Nat
  /\ ReferencePID \notin PIDs

Types == DOMAIN capturedRelationSize
Level == "level"   \* what method 66 is for; any other kind is a type of
                   \* 132, known by its name in m132TypeName
Kinds == Types \union {Level}

NoBody == "no body"

ASSUME BodiesAssumption ==
  /\ Bodies \subseteq Kinds
  /\ captured132 \in Types \union {NoBody}
  /\ NoBody \notin Kinds

-----------------------------------------------------------------------------
(* Tokens.                                                                 *)

Host(h) == [host |-> h]
Text(t) == [text |-> t]
Size(n) == [size |-> n]   \* "_%x_"
PID(p)  == [pid |-> p]    \* "%016x"

HexDigits(n) == CHOOSE k \in 1 .. 8 : n < 16 ^ k /\ (k = 1 \/ n >= 16 ^ (k - 1))

\* A token with another one put before each of its bytes.
TornApart(token, between) == [torn |-> token, between |-> between]

WholeWidth(token) ==
  CASE "host" \in DOMAIN token -> HostWidth
    [] "size" \in DOMAIN token -> HexDigits(token.size) + 2
    [] "pid"  \in DOMAIN token -> 16
    [] "text" \in DOMAIN token -> 1

Width(token) ==
  IF "torn" \in DOMAIN token
  THEN WholeWidth(token.torn) * (1 + WholeWidth(token.between))
  ELSE WholeWidth(token)

TotalWidth(body) == FoldLeft(LAMBDA sum, token : sum + Width(token), 0, body)

\* The measured bodies.  The key of a level names no account; that of a
\* relation asset has its size and its account.
Measured(kind) ==
  <<Host("s3"), Text(KeyText[kind][1]), Text(KeyText[kind][2])>> \o
  IF kind = Level THEN <<Text("object")>>
                  ELSE <<Size(capturedRelationSize[kind]), PID(ReferencePID)>>

-----------------------------------------------------------------------------
(* The rewriting.                                                          *)

\* Mutant: a host that just fits is cut.
ourUploadHostShort == IF BaseWidth >= HostWidth THEN Host("cut") ELSE Host("ours")

\* Our host, padded to the width of the one it replaces, or cut to it.
ourUploadHost == IF BaseWidth > HostWidth THEN Host("cut") ELSE Host("ours")

rewriteUploadHost(body) == ReplaceAll(body, Host("s3"), ourUploadHost)

\* bytes.ReplaceAll with an empty text to look for: the new one is put
\* before every byte and after the last one.  Every token is torn, the host
\* too, which rewriteUploadHost then does not find.
Scatter(body, token) == [i \in DOMAIN body |-> TornApart(body[i], token)] \o <<token>>

ReplacePID(body, pid) ==
  IF PIDTokenSet THEN ReplaceAll(body, PID(ReferencePID), PID(pid))
                 ELSE Scatter(body, PID(pid))

ReplaceSize(body, type, size) == ReplaceAll(body, Size(capturedRelationSize[type]), Size(size))

\* Mutant: a size is swapped whatever its width.
rewriteAnyWidth(body, type, size, pid) ==
  rewriteUploadHost(ReplacePID(ReplaceSize(body, type, size), pid))

\* A size is swapped only for one with as many digits.
rewriteRelationDescriptor(body, type, size, pid) ==
  LET fits  == size # 0 /\ HexDigits(size) = HexDigits(capturedRelationSize[type])
      sized == IF fits THEN ReplaceSize(body, type, size) ELSE body
  IN rewriteUploadHost(ReplacePID(sized, pid))

\* The measured body for a kind: m132ByType, or any body of method 132.
Template(kind) ==
  IF kind \in Bodies THEN kind ELSE IF kind = Level THEN NoBody ELSE captured132

\* 66: the same descriptor for everybody.  132: the one of the type.  The
\* length the structure declares is the measured one in either case.
Descriptor(kind, size, pid) ==
  LET measured == Measured(Template(kind))
  IN [length |-> TotalWidth(measured),
      body   |-> IF kind = Level
                 THEN rewriteUploadHost(measured)
                 ELSE rewriteRelationDescriptor(measured, kind, size, pid)]

-----------------------------------------------------------------------------
(* What the console makes of a descriptor.                                 *)

Framed(d) == d.length = TotalWidth(d.body)

\* It POSTs to our host only what it has asked for: "the console rejects a
\* descriptor whose size doesn't match the asset", or with a foreign PID
\* (smm2_objects.go:43-55).
Accepts(d, kind, size, pid) ==
  /\ Framed(d)
  /\ d.body[1] = Host("ours")
  /\ kind # Level => Size(size) \in Range(d.body) /\ PID(pid) \in Range(d.body)

\* The key of the object, as the form carries it.
Key(d) == Tail(d.body)
=============================================================================
