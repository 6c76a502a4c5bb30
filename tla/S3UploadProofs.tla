--------------------------- MODULE S3UploadProofs ---------------------------
(***************************************************************************)
(* Theorems about UploadDescriptors and S3Upload, for any measured bodies, *)
(* accounts, sizes and number of POSTs.                                    *)
(***************************************************************************)
EXTENDS S3Upload, SequenceTheorems, WellFoundedInduction, TLAPS

-----------------------------------------------------------------------------
(* Tokens and their widths.                                                *)

LEMMA TokenWidths ==
  /\ \A h : Width(Host(h)) = HostWidth
  /\ \A n : Width(Size(n)) = HexDigits(n) + 2
  /\ \A p : Width(PID(p)) = 16
  /\ \A t : Width(Text(t)) = 1
BY DEF Width, WholeWidth, Host, Size, PID, Text

\* Tokens of different sorts differ, and tokens of one sort by what they hold.
LEMMA TokensDiffer ==
  /\ \A h, n : Host(h) # Size(n)
  /\ \A h, p : Host(h) # PID(p)
  /\ \A h, t : Host(h) # Text(t)
  /\ \A n, p : Size(n) # PID(p)
  /\ \A n, t : Size(n) # Text(t)
  /\ \A p, t : PID(p) # Text(t)
  /\ \A p, q : PID(p) = PID(q) => p = q
  /\ \A s, t : Text(s) = Text(t) => s = t
BY DEF Host, Size, PID, Text

LEMMA MaxIn ==
  ASSUME NEW n \in Nat, NEW s \in SUBSET (1 .. n), s # {}
  PROVE  Max(s) \in s
<1> DEFINE T == {n - x : x \in s}
<1>1. T \subseteq Nat /\ T # {}
  <2>1. \A x \in s : x \in 1 .. n /\ n - x \in Nat
    OBVIOUS
  <2>2. \A m \in T : m \in Nat
    BY <2>1
  <2>3. PICK x \in s : TRUE
    OBVIOUS
  <2>4. n - x \in T
    OBVIOUS
  <2> QED
    BY <2>2, <2>4
<1>2. PICK m \in T : \A k \in T : ~ (<<k, m>> \in OpToRel(<, Nat))
  BY <1>1, NatLessThanWellFounded, WFMin
<1>3. \A k \in T : ~(k < m)
  BY <1>1, <1>2 DEF OpToRel
<1>4. PICK x \in s : m = n - x
  OBVIOUS
<1>5. \A y \in s : x >= y
  <2> TAKE y \in s
  <2>1. n - y \in T /\ x \in Nat /\ y \in Nat
    OBVIOUS
  <2> QED
    BY <1>3, <1>4, <2>1, ~(n - y < n - x)
<1> QED
  BY <1>5 DEF Max

\* Bodies whose tokens have the same widths have the same total.
LEMMA SameWidths ==
  ASSUME NEW a, NEW b, NEW n \in Nat, DOMAIN a = 1 .. n, DOMAIN b = 1 .. n,
         \A i \in 1 .. n : Width(a[i]) = Width(b[i])
  PROVE  TotalWidth(a) = TotalWidth(b)
<1> DEFINE D == 1 .. n
           Total(c, it) ==
             it = [s \in SUBSET D |-> IF s = {} THEN 0
                                      ELSE it[s \ {Max(s)}] + Width(c[Max(s)])]
<1>1. TotalWidth(a) = (CHOOSE it : Total(a, it))[D]
  BY DEF TotalWidth, FoldLeft, MapThenFoldSet
<1>2. TotalWidth(b) = (CHOOSE it : Total(b, it))[D]
  BY DEF TotalWidth, FoldLeft, MapThenFoldSet
<1>3. ASSUME NEW it PROVE Total(a, it) <=> Total(b, it)
  <2>1. \A s \in SUBSET D : s # {} => Width(a[Max(s)]) = Width(b[Max(s)])
    BY MaxIn
  <2> QED
    BY <2>1
<1> HIDE DEF Total
<1> QED
  BY <1>1, <1>2, <1>3

-----------------------------------------------------------------------------
(* Descriptors.                                                            *)

\* The host, the kind and what names the object.
LEMMA MeasuredShape ==
  ASSUME NEW kind
  PROVE  LET m == Measured(kind)
         IN /\ m[1] = Host("s3")
            /\ m[2] = Text(KeyText[kind][1]) /\ m[3] = Text(KeyText[kind][2])
            /\ kind = Level => Len(m) = 4 /\ DOMAIN m = 1 .. 4 /\ m[4] = Text("object")
            /\ kind # Level =>
                 /\ Len(m) = 5 /\ DOMAIN m = 1 .. 5
                 /\ m[4] = Size(capturedRelationSize[kind]) /\ m[5] = PID(ReferencePID)
<1> DEFINE c == capturedRelationSize[kind]
           one == KeyText[kind][1]
           two == KeyText[kind][2]
           E == {Host("s3"), Text(one), Text(two), Text("object"), Size(c), PID(ReferencePID)}
           front == <<Host("s3"), Text(one), Text(two)>>
           back  == IF kind = Level THEN <<Text("object")>> ELSE <<Size(c), PID(ReferencePID)>>
<1>1. front \in Seq(E) /\ Len(front) = 3
      /\ front[1] = Host("s3") /\ front[2] = Text(one) /\ front[3] = Text(two)
  OBVIOUS
<1>2. /\ back \in Seq(E)
      /\ kind = Level => Len(back) = 1 /\ back[1] = Text("object")
      /\ kind # Level => Len(back) = 2 /\ back[1] = Size(c) /\ back[2] = PID(ReferencePID)
  <2>1. Text("object") \in E /\ Size(c) \in E /\ PID(ReferencePID) \in E
    OBVIOUS
  <2> HIDE DEF E
  <2>2. CASE kind = Level
    BY <2>1, <2>2
  <2>3. CASE kind # Level
    BY <2>1, <2>3
  <2> QED
    BY <2>2, <2>3
<1>3. Measured(kind) = front \o back
  BY DEF Measured
<1> HIDE DEF E, front, back, c
<1>4. /\ front \o back \in Seq(E) /\ Len(front \o back) = Len(front) + Len(back)
      /\ \A i \in 1 .. Len(front) + Len(back) : (front \o back)[i] =
           IF i <= Len(front) THEN front[i] ELSE back[i - Len(front)]
  BY <1>1, <1>2, ConcatProperties
<1>5. DOMAIN (front \o back) = 1 .. Len(front \o back)
  BY <1>4, LenProperties
<1> QED
  BY <1>1, <1>2, <1>3, <1>4, <1>5 DEF c

\* A body is a sequence of its tokens.
IsBody(body) == body \in Seq({body[i] : i \in 1 .. Len(body)})

LEMMA ReplaceAllShape ==
  ASSUME NEW body, NEW n \in Nat, Len(body) = n, NEW old, NEW new
  PROVE  LET swapped == ReplaceAll(body, old, new)
         IN /\ DOMAIN swapped = 1 .. n /\ Len(swapped) = n
            /\ IsBody(swapped)
            /\ \A i \in 1 .. n : swapped[i] = IF body[i] = old THEN new ELSE body[i]
<1> DEFINE swapped == ReplaceAll(body, old, new)
<1>1. swapped = [i \in 1 .. n |-> IF body[i] = old THEN new ELSE body[i]]
  BY DEF ReplaceAll
<1>2. swapped \in Seq({body[i] : i \in 1 .. n} \union {new})
  BY <1>1
<1>3. DOMAIN swapped = 1 .. n
  BY <1>1
<1>4. Len(swapped) \in Nat /\ DOMAIN swapped = 1 .. Len(swapped)
  BY <1>2, LenProperties
<1>5. Len(swapped) = n
  BY <1>3, <1>4
<1>6. IsBody(swapped)
  BY <1>1, <1>3, <1>5 DEF IsBody
<1> QED
  BY <1>1, <1>3, <1>5, <1>6

\* The swaps of a descriptor: what a body is rewritten to, token by token.
LEMMA DescriptorShape ==
  ASSUME PIDTokenSet, NEW kind, NEW size, NEW pid
  PROVE  LET m == Measured(Template(kind))
             d == Descriptor(kind, size, pid)
             c == capturedRelationSize[kind]
             sized(t) == IF t = Size(c) /\ kind # Level /\ size # 0
                            /\ HexDigits(size) = HexDigits(c)
                         THEN Size(size) ELSE t
             owned(t) == IF t = PID(ReferencePID) /\ kind # Level THEN PID(pid) ELSE t
             ours(t)  == IF t = Host("s3") THEN ourUploadHost ELSE t
         IN /\ d.length = TotalWidth(m)
            /\ Len(d.body) = Len(m) /\ DOMAIN d.body = 1 .. Len(m)
            /\ IsBody(d.body)
            /\ \A i \in 1 .. Len(m) : d.body[i] = ours(owned(sized(m[i])))
<1> DEFINE m == Measured(Template(kind))
           d == Descriptor(kind, size, pid)
           n == Len(m)
           c == capturedRelationSize[kind]
           fits == size # 0 /\ HexDigits(size) = HexDigits(c)
           one == IF fits THEN ReplaceAll(m, Size(c), Size(size)) ELSE m
           two == ReplaceAll(one, PID(ReferencePID), PID(pid))
<1>1. n \in Nat /\ DOMAIN m = 1 .. n
  BY MeasuredShape
<1>2. /\ d.length = TotalWidth(m)
      /\ d.body = IF kind = Level THEN rewriteUploadHost(m)
                                   ELSE rewriteRelationDescriptor(m, kind, size, pid)
  BY DEF Descriptor
<1> HIDE DEF m, d
<1>3. CASE kind = Level
  <2>1. d.body = ReplaceAll(m, Host("s3"), ourUploadHost)
    BY <1>2, <1>3 DEF rewriteUploadHost
  <2>2. /\ DOMAIN d.body = 1 .. n /\ Len(d.body) = n
        /\ IsBody(d.body)
        /\ \A i \in 1 .. n : d.body[i] = IF m[i] = Host("s3") THEN ourUploadHost ELSE m[i]
    BY <1>1, <2>1, ReplaceAllShape
  <2> QED
    BY <1>2, <1>3, <2>2 DEF m, d
<1>4. CASE kind # Level
  <2>1. d.body = ReplaceAll(two, Host("s3"), ourUploadHost)
    BY <1>2, <1>4 DEF rewriteRelationDescriptor, rewriteUploadHost, ReplacePID, ReplaceSize
  <2>2. /\ Len(one) = n
        /\ \A i \in 1 .. n : one[i] = IF m[i] = Size(c) /\ fits THEN Size(size) ELSE m[i]
    <3>1. CASE fits
      BY <1>1, <3>1, ReplaceAllShape
    <3>2. CASE ~fits
      BY <1>1, <3>2
    <3> QED
      BY <3>1, <3>2
  <2> HIDE DEF one
  <2>3. /\ Len(two) = n
        /\ \A i \in 1 .. n : two[i] = IF one[i] = PID(ReferencePID) THEN PID(pid) ELSE one[i]
    BY <1>1, <2>2, ReplaceAllShape
  <2> HIDE DEF two
  <2>4. /\ DOMAIN d.body = 1 .. n /\ Len(d.body) = n
        /\ IsBody(d.body)
        /\ \A i \in 1 .. n : d.body[i] = IF two[i] = Host("s3") THEN ourUploadHost ELSE two[i]
    BY <1>1, <2>1, <2>3, ReplaceAllShape
  <2> QED
    BY <1>2, <1>4, <2>2, <2>3, <2>4 DEF m, d
<1> QED
  BY <1>3, <1>4

\* With the variable set every descriptor declares the length it has: the
\* swaps keep every width.
LEMMA DescriptorFramed ==
  ASSUME PIDTokenSet, NEW kind, NEW size, NEW pid
  PROVE  Framed(Descriptor(kind, size, pid))
<1> DEFINE m == Measured(Template(kind))
           b == Descriptor(kind, size, pid).body
<1>1. /\ Descriptor(kind, size, pid).length = TotalWidth(m)
      /\ DOMAIN b = 1 .. Len(m)
      /\ \A i \in 1 .. Len(m) : Width(b[i]) = Width(m[i])
  BY DescriptorShape, TokenWidths DEF ourUploadHost
<1>2. Len(m) \in Nat /\ DOMAIN m = 1 .. Len(m)
  BY MeasuredShape
<1> HIDE DEF m, b
<1>3. TotalWidth(m) = TotalWidth(b)
  BY <1>1, <1>2, SameWidths
<1> QED
  BY <1>1, <1>3 DEF Framed, b

\* A descriptor made of the body that was measured for its kind.
LEMMA OwnShape ==
  ASSUME PIDTokenSet, NEW kind \in Bodies, NEW size, NEW pid
  PROVE  LET b == Descriptor(kind, size, pid).body
             c == capturedRelationSize[kind]
         IN /\ b[1] = ourUploadHost
            /\ b[2] = Text(KeyText[kind][1]) /\ b[3] = Text(KeyText[kind][2])
            /\ DOMAIN b = 1 .. Len(b) /\ IsBody(b)
            /\ kind = Level => Len(b) = 4
            /\ kind # Level =>
                 /\ Len(b) = 5 /\ b[5] = PID(pid)
                 /\ size # 0 /\ HexDigits(size) = HexDigits(c) => b[4] = Size(size)
<1> DEFINE m == Measured(kind)
           b == Descriptor(kind, size, pid).body
           c == capturedRelationSize[kind]
           sized(t) == IF t = Size(c) /\ kind # Level /\ size # 0
                          /\ HexDigits(size) = HexDigits(c)
                       THEN Size(size) ELSE t
           owned(t) == IF t = PID(ReferencePID) /\ kind # Level THEN PID(pid) ELSE t
           ours(t)  == IF t = Host("s3") THEN ourUploadHost ELSE t
<1>1. Template(kind) = kind
  BY DEF Template
<1>2. /\ Len(b) = Len(m) /\ DOMAIN b = 1 .. Len(m)
      /\ IsBody(b)
      /\ \A i \in 1 .. Len(m) : b[i] = ours(owned(sized(m[i])))
  BY <1>1, DescriptorShape
<1>3. /\ m[1] = Host("s3")
      /\ m[2] = Text(KeyText[kind][1]) /\ m[3] = Text(KeyText[kind][2])
      /\ kind = Level => Len(m) = 4
      /\ kind # Level => Len(m) = 5 /\ m[4] = Size(c) /\ m[5] = PID(ReferencePID)
  BY MeasuredShape
<1> HIDE DEF m, b, c
<1>4. ours(owned(sized(Host("s3")))) = ourUploadHost
  BY TokensDiffer
<1>5. \A t : ours(owned(sized(Text(t)))) = Text(t)
  BY TokensDiffer
<1>6. kind # Level => ours(owned(sized(PID(ReferencePID)))) = PID(pid)
  BY TokensDiffer
<1>7. kind # Level /\ size # 0 /\ HexDigits(size) = HexDigits(c) =>
        ours(owned(sized(Size(c)))) = Size(size)
  BY TokensDiffer
<1> HIDE DEF sized, owned, ours
<1>8. 1 \in 1 .. Len(m) /\ 2 \in 1 .. Len(m) /\ 3 \in 1 .. Len(m)
      /\ (kind # Level => 4 \in 1 .. Len(m) /\ 5 \in 1 .. Len(m))
  BY <1>3
<1> QED
  BY <1>2, <1>3, <1>4, <1>5, <1>6, <1>7, <1>8 DEF b, c

\* Whoever asks for a kind with a body of its own can use what he gets.
LEMMA OwnAccepted ==
  ASSUME PIDTokenSet, BaseWidth <= HostWidth, NEW kind \in Bodies, NEW size \in Sizes, NEW pid,
         kind = Level \/ HexDigits(size) = HexDigits(capturedRelationSize[kind])
  PROVE  Accepts(Descriptor(kind, size, pid), kind, size, pid)
<1> DEFINE b == Descriptor(kind, size, pid).body
<1>1. ourUploadHost = Host("ours")
  BY DescriptorAssumption DEF ourUploadHost
<1>2. size # 0
  BY UploadAssumption
<1>3. kind # Level => Size(size) \in Range(b) /\ PID(pid) \in Range(b)
  <2> SUFFICES ASSUME kind # Level PROVE Size(size) \in Range(b) /\ PID(pid) \in Range(b)
    OBVIOUS
  <2>1. DOMAIN b = 1 .. 5 /\ b[4] = Size(size) /\ b[5] = PID(pid)
    BY <1>2, OwnShape
  <2> HIDE DEF b
  <2> QED
    BY <2>1 DEF Range
<1>4. b[1] = Host("ours")
  BY <1>1, OwnShape
<1> QED
  BY <1>3, <1>4, DescriptorFramed DEF Accepts

\* What a name tells of its upload.
LEMMA NameShape ==
  ASSUME PIDTokenSet, NEW kind \in Bodies, NEW size, NEW pid
  PROVE  LET name == sanitizeKey(Key(Descriptor(kind, size, pid)))
         IN /\ name[2] = Flat(Text(KeyText[kind][1])) /\ name[3] = Flat(Text(KeyText[kind][2]))
            /\ kind = Level => Len(name) = 4
            /\ kind # Level => Len(name) = 5 /\ name[5] = PID(pid)
<1> DEFINE b == Descriptor(kind, size, pid).body
           key == Tail(b)
           flat == [i \in DOMAIN key |-> Flat(key[i])]
           name == sanitizeKey(Key(Descriptor(kind, size, pid)))
           n == Len(b)
<1>1. /\ IsBody(b)
      /\ b[2] = Text(KeyText[kind][1]) /\ b[3] = Text(KeyText[kind][2])
      /\ kind = Level => n = 4
      /\ kind # Level => n = 5 /\ b[5] = PID(pid)
  BY OwnShape
<1>2. name = <<Text("obj_")>> \o flat
  BY DEF sanitizeKey, Key
<1> HIDE DEF b
<1>3. /\ Len(key) = n - 1 /\ DOMAIN key = 1 .. n - 1
      /\ \A i \in 1 .. n - 1 : key[i] = b[i + 1]
  <2>1. b # <<>>
    BY <1>1, EmptySeq
  <2>2. /\ key \in Seq({b[i] : i \in 1 .. Len(b)}) /\ Len(key) = Len(b) - 1
        /\ \A i \in 1 .. Len(key) : key[i] = b[i + 1]
    BY <1>1, <2>1, HeadTailProperties DEF IsBody
  <2> HIDE DEF key
  <2> QED
    BY <2>2, LenProperties DEF n
<1> HIDE DEF key, n
<1>4. /\ flat \in Seq({flat[i] : i \in 1 .. n - 1}) /\ Len(flat) = n - 1
      /\ \A i \in 1 .. n - 1 : flat[i] = Flat(b[i + 1])
  BY <1>1, <1>3
<1> HIDE DEF flat
<1>5. /\ Len(name) = n
      /\ \A i \in 2 .. n : name[i] = Flat(b[i])
  <2> DEFINE E == {flat[i] : i \in 1 .. n - 1} \union {Text("obj_")}
             one == <<Text("obj_")>>
  <2>1. one \in Seq(E) /\ Len(one) = 1 /\ flat \in Seq(E)
    BY <1>4
  <2> HIDE DEF E, one
  <2>2. /\ Len(one \o flat) = Len(one) + Len(flat)
        /\ \A i \in 1 .. Len(one) + Len(flat) :
             (one \o flat)[i] = IF i <= Len(one) THEN one[i] ELSE flat[i - Len(one)]
    BY <2>1, ConcatProperties
  <2>3. name = one \o flat
    BY <1>2 DEF one
  <2> HIDE DEF name
  <2>4. ASSUME NEW i \in 2 .. n PROVE name[i] = Flat(b[i])
    <3>1. i - 1 \in 1 .. n - 1 /\ i \in 1 .. n /\ ~(i <= 1) /\ (i - 1) + 1 = i
      BY <1>1
    <3>2. name[i] = flat[i - 1]
      BY <1>4, <2>1, <2>2, <2>3, <3>1
    <3> QED
      BY <1>4, <3>1, <3>2
  <2>5. n \in {4, 5}
    BY <1>1
  <2>6. Len(name) = n
    BY <1>4, <2>1, <2>2, <2>3, <2>5
  <2> QED
    BY <2>4, <2>6
<1> HIDE DEF name
<1>6. name[2] = Flat(Text(KeyText[kind][1])) /\ name[3] = Flat(Text(KeyText[kind][2]))
  <2>1. 2 \in 2 .. n /\ 3 \in 2 .. n
    BY <1>1
  <2>2. name[2] = Flat(b[2]) /\ name[3] = Flat(b[3])
    BY <1>5, <2>1
  <2> QED
    BY <1>1, <2>2
<1>7. kind # Level => name[5] = PID(pid)
  <2>1. \A t : PID(pid) # Text(t)
    BY TokensDiffer
  <2>2. Flat(PID(pid)) = PID(pid)
    BY <2>1 DEF Flat
  <2>3. kind # Level => 5 \in 2 .. n
    BY <1>1
  <2>4. kind # Level => name[5] = Flat(b[5])
    BY <1>5, <2>3
  <2> QED
    BY <1>1, <2>2, <2>4
<1> QED
  BY <1>1, <1>5, <1>6, <1>7 DEF name

\* A name keeps two texts apart that are not alike.
LEMMA FlatApart ==
  ASSUME NEW s, NEW t, Flat(Text(s)) = Flat(Text(t))
  PROVE  Alike(s, t)
<1>1. \A r : Flat(Text(r)) = IF r \in Separators THEN Text("_") ELSE Text(r)
  BY TokensDiffer DEF Flat
<1>2. CASE s \in Separators /\ t \in Separators
  BY <1>2 DEF Alike
<1>3. CASE s \in Separators /\ t \notin Separators
  <2>1. t = "_"
    BY <1>1, <1>3, TokensDiffer
  <2> QED
    BY <1>3, <2>1 DEF Alike
<1>4. CASE s \notin Separators /\ t \in Separators
  <2>1. s = "_"
    BY <1>1, <1>4, TokensDiffer
  <2> QED
    BY <1>4, <2>1 DEF Alike
<1>5. CASE s \notin Separators /\ t \notin Separators
  BY <1>1, <1>5, TokensDiffer DEF Alike
<1> QED
  BY <1>2, <1>3, <1>4, <1>5

\* Two uploads have one name only if both are levels.
LEMMA NamesDiffer ==
  ASSUME PIDTokenSet, NEW u \in Uploads, NEW v \in Uploads, u[2] \in Bodies, v[2] \in Bodies,
         NameOf(u) = NameOf(v)
  PROVE  u = v \/ (u[2] = Level /\ v[2] = Level)
<1>1. /\ u = <<u[1], u[2]>> /\ v = <<v[1], v[2]>>
      /\ u[2] \in Types \union {Level} /\ v[2] \in Types \union {Level}
  BY UploadAssumption DEF Kinds
<1>2. /\ NameOf(u)[2] = Flat(Text(KeyText[u[2]][1])) /\ NameOf(u)[3] = Flat(Text(KeyText[u[2]][2]))
      /\ u[2] = Level => Len(NameOf(u)) = 4
      /\ u[2] # Level => Len(NameOf(u)) = 5 /\ NameOf(u)[5] = PID(u[1])
  BY NameShape DEF NameOf, Told
<1>3. /\ NameOf(v)[2] = Flat(Text(KeyText[v[2]][1])) /\ NameOf(v)[3] = Flat(Text(KeyText[v[2]][2]))
      /\ v[2] = Level => Len(NameOf(v)) = 4
      /\ v[2] # Level => Len(NameOf(v)) = 5 /\ NameOf(v)[5] = PID(v[1])
  BY NameShape DEF NameOf, Told
<1>4. u[2] = Level <=> v[2] = Level
  BY <1>2, <1>3
<1>5. \A i \in 1 .. 2 : Alike(KeyText[u[2]][i], KeyText[v[2]][i])
  <2>1. Alike(KeyText[u[2]][1], KeyText[v[2]][1])
    BY <1>2, <1>3, FlatApart
  <2>2. Alike(KeyText[u[2]][2], KeyText[v[2]][2])
    BY <1>2, <1>3, FlatApart
  <2> QED
    BY <2>1, <2>2
<1>6. u[2] # Level => u[2] = v[2]
  BY <1>1, <1>4, <1>5, KeysAssumption
<1>7. u[2] # Level => u[1] = v[1]
  BY <1>2, <1>3, <1>4, TokensDiffer
<1> QED
  BY <1>1, <1>4, <1>6, <1>7

-----------------------------------------------------------------------------
(* The invariant of uploads.  An upload that is not idle keeps its size,   *)
(* and with it its descriptor and its name; a POST is always of an upload  *)
(* whose descriptor was accepted, and a file is only what uploads of that  *)
(* name have written, never longer than the asset of one of them.          *)

Accepted == {u \in Uploads : console[u].step \in {"told", "waiting", "stored"}}

ConsolesOK ==
  \A u \in Uploads :
    /\ console[u].step # "idle" => console[u].size \in Sizes
    /\ u \in Accepted =>
         /\ Template(u[2]) # NoBody
         /\ Accepts(Told(u), u[2], console[u].size, u[1])
    /\ console[u].step = "refused" =>
         \/ Template(u[2]) = NoBody
         \/ ~Accepts(Told(u), u[2], console[u].size, u[1])
    /\ console[u].step = "waiting" =>
         console[u].post \in 1 .. posts /\ post[console[u].post].of = u

PostsOK ==
  \A k \in Posts :
    /\ post[k].stage = "none" <=> k > posts
    /\ post[k].stage # "none" => post[k].of \in Accepted
    /\ post[k].stage \in {"open", "write", "ok", "broken"} =>
         post[k].length \in Taken(post[k].of)
    /\ post[k].stage \in {"write", "ok"} => NameOf(post[k].of) \in DOMAIN objects

FilesOK ==
  \A name \in DOMAIN objects :
    /\ \A u \in objects[name].of : u \in Accepted /\ NameOf(u) = name
    /\ \E u \in objects[name].of : objects[name].length <= console[u].size

CoreInv == UploadTypeOK /\ ConsolesOK /\ PostsOK /\ FilesOK

ConsoleType == [step : ConsoleSteps, size : Sizes \union {0}, post : Posts \union {0}]
PostType    == [stage : PostStages, of : Uploads \union {NoUpload}, length : Lengths \union {0}]
FileType    == [of : SUBSET Uploads, length : Lengths \union {0}]

LEMMA UploadTypes ==
  UploadTypeOK <=> /\ console \in [Uploads -> ConsoleType]
                   /\ post \in [Posts -> PostType]
                   /\ posts \in 0 .. MaxPosts
                   /\ \A name \in DOMAIN objects : objects[name] \in FileType
BY DEF UploadTypeOK, ConsoleType, PostType, FileType

LEMMA NoUploadIsNone == NoUpload \notin Uploads
BY UploadAssumption DEF NoUpload

LEMMA TakenFacts ==
  ASSUME NEW u \in Uploads, console[u].size \in Sizes, NEW n \in Taken(u)
  PROVE  n \in Lengths /\ n \in Nat /\ n <= console[u].size
<1>1. n \in Lengths /\ IF u \in Named /\ console[u].size > MaxPart
                       THEN n <= MaxPart ELSE n = console[u].size
  BY DEF Taken
<1>2. n \in Nat /\ console[u].size \in Nat /\ MaxPart \in Nat
  BY <1>1, UploadAssumption DEF Lengths
<1> QED
  BY <1>1, <1>2

\* A change of an upload that is not idle but keeps its size changes none of
\* what the POSTs and files are told by.
LEMMA SameTold ==
  ASSUME NEW u, console'[u].size = console[u].size
  PROVE  Told(u)' = Told(u) /\ NameOf(u)' = NameOf(u) /\ Taken(u)' = Taken(u)
BY DEF Told, NameOf, Taken

LEMMA CoreInit == UploadInit => CoreInv
<1> SUFFICES ASSUME UploadInit PROVE CoreInv
  OBVIOUS
<1>1. UploadTypeOK
  BY UploadAssumption DEF UploadInit, UploadTypeOK, ConsoleSteps, NoPost, PostStages, Posts
<1>2. ConsolesOK
  BY DEF UploadInit, ConsolesOK, Accepted
<1>3. PostsOK
  BY UploadAssumption DEF UploadInit, PostsOK, Posts, NoPost
<1>4. FilesOK
  BY DEF UploadInit, FilesOK
<1> QED
  BY <1>1, <1>2, <1>3, <1>4 DEF CoreInv

\* What POSTs and files need to hold again when only consoles have moved on.
LEMMA ConsoleMoves ==
  ASSUME CoreInv, UNCHANGED <<post, posts, objects>>,
         console' \in [Uploads -> ConsoleType], ConsolesOK',
         \A u \in Accepted : console'[u].size = console[u].size /\ u \in Accepted'
  PROVE  CoreInv'
<1>1. UploadTypeOK'
  BY UploadTypes DEF CoreInv, UploadTypeOK, ConsoleType
<1>2. \A u \in Accepted : NameOf(u)' = NameOf(u) /\ Taken(u)' = Taken(u)
  BY SameTold
<1>3. PostsOK'
  <2> SUFFICES ASSUME NEW k \in Posts
               PROVE  /\ post[k].stage = "none" <=> k > posts
                      /\ post[k].stage # "none" => post[k].of \in Accepted'
                      /\ post[k].stage \in {"open", "write", "ok", "broken"} =>
                           post[k].length \in Taken(post[k].of)'
                      /\ post[k].stage \in {"write", "ok"} => NameOf(post[k].of)' \in DOMAIN objects
    BY DEF PostsOK
  <2>1. /\ post[k].stage = "none" <=> k > posts
        /\ post[k].stage # "none" => post[k].of \in Accepted
        /\ post[k].stage \in {"open", "write", "ok", "broken"} =>
             post[k].length \in Taken(post[k].of)
        /\ post[k].stage \in {"write", "ok"} => NameOf(post[k].of) \in DOMAIN objects
    BY DEF CoreInv, PostsOK
  <2> QED
    BY <1>2, <2>1
<1>4. FilesOK'
  <2> SUFFICES ASSUME NEW name \in DOMAIN objects
               PROVE  /\ \A u \in objects[name].of : u \in Accepted' /\ NameOf(u)' = name
                      /\ \E u \in objects[name].of : objects[name].length <= console'[u].size
    BY DEF FilesOK
  <2>1. /\ \A u \in objects[name].of : u \in Accepted /\ NameOf(u) = name
        /\ \E u \in objects[name].of : objects[name].length <= console[u].size
    BY DEF CoreInv, FilesOK
  <2> QED
    BY <1>2, <2>1
<1> QED
  BY <1>1, <1>3, <1>4 DEF CoreInv

LEMMA PrepareStep ==
  ASSUME CoreInv, NEW u \in Uploads, NEW size \in Sizes, PrepareUpload(u, size)
  PROVE  CoreInv'
<1> DEFINE fine == Template(u[2]) # NoBody
                     /\ Accepts(Descriptor(u[2], size, u[1]), u[2], size, u[1])
           step == IF fine THEN "told" ELSE "refused"
           r == [console[u] EXCEPT !.size = size, !.step = step]
<1>1. console \in [Uploads -> ConsoleType] /\ console[u].step = "idle"
  BY UploadTypes DEF CoreInv, PrepareUpload
<1>2. console' = [console EXCEPT ![u].size = size, ![u].step = step]
  BY DEF PrepareUpload
<1>3. step \in ConsoleSteps
  BY DEF ConsoleSteps
<1> HIDE DEF fine, step
<1>4. /\ r \in ConsoleType /\ r.size = size /\ r.step = step
  BY <1>1, <1>3 DEF ConsoleType
<1>5. console' = [console EXCEPT ![u] = r]
  BY <1>1, <1>2 DEF ConsoleType
<1> HIDE DEF r
<1>6. /\ console' \in [Uploads -> ConsoleType] /\ console'[u] = r
      /\ \A v \in Uploads \ {u} : console'[v] = console[v]
  BY <1>1, <1>4, <1>5
<1>7. u \notin Accepted
  BY <1>1 DEF Accepted
<1>8. \A v \in Accepted : console'[v].size = console[v].size /\ v \in Accepted'
  BY <1>6, <1>7 DEF Accepted
<1>9. ConsolesOK'
  <2> SUFFICES ASSUME NEW v \in Uploads
               PROVE  /\ console'[v].step # "idle" => console'[v].size \in Sizes
                      /\ v \in Accepted' =>
                           /\ Template(v[2]) # NoBody
                           /\ Accepts(Told(v)', v[2], console'[v].size, v[1])
                      /\ console'[v].step = "refused" =>
                           \/ Template(v[2]) = NoBody
                           \/ ~Accepts(Told(v)', v[2], console'[v].size, v[1])
                      /\ console'[v].step = "waiting" =>
                           console'[v].post \in 1 .. posts /\ post[console'[v].post].of = v
    BY DEF ConsolesOK, PrepareUpload
  <2>1. CASE v = u
    <3>1. Told(v)' = Descriptor(u[2], size, u[1])
      BY <1>4, <1>6, <2>1 DEF Told
    <3>2. (step = "told" /\ fine) \/ (step = "refused" /\ ~fine)
      BY DEF step
    <3> QED
      BY <1>4, <1>6, <2>1, <3>1, <3>2 DEF fine, Accepted
  <2>2. CASE v # u
    <3>1. console'[v] = console[v] /\ Told(v)' = Told(v)
      BY <1>6, <2>2, SameTold
    <3> QED
      BY <3>1 DEF CoreInv, ConsolesOK, Accepted
  <2> QED
    BY <2>1, <2>2
<1> QED
  BY <1>6, <1>8, <1>9, ConsoleMoves DEF PrepareUpload

\* A console that moves on from one step of its upload to another.
LEMMA StepMoves ==
  ASSUME CoreInv, UNCHANGED <<post, posts, objects>>,
         NEW u \in Accepted, NEW step \in {"told", "waiting", "stored"},
         console' = [console EXCEPT ![u].step = step],
         step = "waiting" => console[u].step = "waiting"
  PROVE  CoreInv'
<1> DEFINE r == [console[u] EXCEPT !.step = step]
<1>1. console \in [Uploads -> ConsoleType] /\ u \in Uploads
  BY UploadTypes DEF CoreInv, Accepted
<1>2. r \in ConsoleType /\ r.size = console[u].size /\ r.step = step /\ r.post = console[u].post
  BY <1>1 DEF ConsoleType, ConsoleSteps
<1>3. console' = [console EXCEPT ![u] = r]
  BY <1>1
<1> HIDE DEF r
<1>4. /\ console' \in [Uploads -> ConsoleType] /\ console'[u] = r
      /\ \A v \in Uploads \ {u} : console'[v] = console[v]
  BY <1>1, <1>2, <1>3
<1>5. \A v \in Accepted : console'[v].size = console[v].size /\ v \in Accepted'
  BY <1>2, <1>4 DEF Accepted
<1>6. ConsolesOK'
  <2> SUFFICES ASSUME NEW v \in Uploads
               PROVE  /\ console'[v].step # "idle" => console'[v].size \in Sizes
                      /\ v \in Accepted' =>
                           /\ Template(v[2]) # NoBody
                           /\ Accepts(Told(v)', v[2], console'[v].size, v[1])
                      /\ console'[v].step = "refused" =>
                           \/ Template(v[2]) = NoBody
                           \/ ~Accepts(Told(v)', v[2], console'[v].size, v[1])
                      /\ console'[v].step = "waiting" =>
                           console'[v].post \in 1 .. posts /\ post[console'[v].post].of = v
    BY DEF ConsolesOK
  <2>1. console'[v].size = console[v].size /\ Told(v)' = Told(v)
    BY <1>2, <1>4, SameTold
  <2>2. CASE v = u
    BY <1>2, <1>4, <2>1, <2>2 DEF CoreInv, ConsolesOK, Accepted
  <2>3. CASE v # u
    BY <1>4, <2>1, <2>3 DEF CoreInv, ConsolesOK, Accepted
  <2> QED
    BY <2>2, <2>3
<1> QED
  BY <1>4, <1>5, <1>6, ConsoleMoves

LEMMA GiveUpStep ==
  ASSUME CoreInv, NEW u \in Uploads, GiveUp(u)
  PROVE  CoreInv'
BY StepMoves DEF GiveUp, Accepted

LEMMA PostAnsweredStep ==
  ASSUME CoreInv, NEW u \in Uploads, PostAnswered(u)
  PROVE  CoreInv'
<1> DEFINE mine == post[console[u].post]
           step == IF mine.stage = "ok" /\ mine.length = console[u].size
                   THEN "stored" ELSE "told"
<1>1. /\ console[u].step = "waiting" /\ console' = [console EXCEPT ![u].step = step]
      /\ UNCHANGED <<post, posts, objects>>
  BY DEF PostAnswered
<1>2. step \in {"told", "waiting", "stored"} /\ step # "waiting"
  OBVIOUS
<1> HIDE DEF step
<1> QED
  BY <1>1, <1>2, StepMoves DEF Accepted

LEMMA SendPostStep ==
  ASSUME CoreInv, NEW u \in Uploads, SendPost(u)
  PROVE  CoreInv'
<1> DEFINE n == posts + 1
           r == [console[u] EXCEPT !.step = "waiting", !.post = n]
           q == [stage |-> "form", of |-> u, length |-> 0]
<1>1. /\ console \in [Uploads -> ConsoleType] /\ console[u].step = "told"
      /\ post \in [Posts -> PostType] /\ posts \in 0 .. MaxPosts /\ posts < MaxPosts
      /\ \A name \in DOMAIN objects : objects[name] \in FileType
      /\ objects' = objects /\ posts' = n
  BY UploadTypes DEF CoreInv, SendPost
<1>2. n \in Posts /\ n \in 0 .. MaxPosts /\ n \in Nat
  BY <1>1, UploadAssumption DEF Posts
<1>3. /\ console' = [console EXCEPT ![u].step = "waiting", ![u].post = n]
      /\ post' = [post EXCEPT ![n] = q]
  BY <1>1 DEF SendPost
<1>4. n \in Posts \union {0}
  BY <1>2
<1>5. r \in ConsoleType /\ r.step = "waiting" /\ r.size = console[u].size /\ r.post = n
  BY <1>1, <1>4 DEF ConsoleType, ConsoleSteps
<1>6. q \in PostType /\ q.stage = "form" /\ q.of = u
  BY DEF PostType, PostStages
<1>7. console' = [console EXCEPT ![u] = r]
  BY <1>1, <1>3 DEF ConsoleType
<1> HIDE DEF n, r, q
<1>8. /\ console' \in [Uploads -> ConsoleType] /\ console'[u] = r
      /\ \A v \in Uploads \ {u} : console'[v] = console[v]
  BY <1>1, <1>5, <1>7
<1>9. /\ post' \in [Posts -> PostType] /\ post'[n] = q
      /\ \A k \in Posts \ {n} : post'[k] = post[k]
  BY <1>1, <1>2, <1>3, <1>6
<1>10. u \in Accepted /\ u \in Accepted' /\ \A v \in Uploads : v \in Accepted <=> v \in Accepted'
  BY <1>1, <1>5, <1>8 DEF Accepted
<1>11. \A v \in Uploads : /\ console'[v].size = console[v].size
                          /\ Told(v)' = Told(v) /\ NameOf(v)' = NameOf(v) /\ Taken(v)' = Taken(v)
  BY <1>5, <1>8, SameTold
<1>12. UploadTypeOK'
  BY <1>1, <1>2, <1>8, <1>9, UploadTypes DEF UploadTypeOK, ConsoleType, PostType, FileType
<1>13. ConsolesOK'
  <2> SUFFICES ASSUME NEW v \in Uploads
               PROVE  /\ console'[v].step # "idle" => console'[v].size \in Sizes
                      /\ v \in Accepted' =>
                           /\ Template(v[2]) # NoBody
                           /\ Accepts(Told(v)', v[2], console'[v].size, v[1])
                      /\ console'[v].step = "refused" =>
                           \/ Template(v[2]) = NoBody
                           \/ ~Accepts(Told(v)', v[2], console'[v].size, v[1])
                      /\ console'[v].step = "waiting" =>
                           console'[v].post \in 1 .. n /\ post'[console'[v].post].of = v
    BY <1>1 DEF ConsolesOK
  <2>1. CASE v = u
    <3>1. n \in 1 .. n
      BY <1>1, <1>2 DEF n
    <3> QED
      BY <1>5, <1>6, <1>8, <1>9, <1>10, <1>11, <2>1, <3>1 DEF CoreInv, ConsolesOK, Accepted
  <2>2. CASE v # u
    <3>1. console'[v] = console[v]
      BY <1>8, <2>2
    <3>2. ASSUME console[v].step = "waiting"
          PROVE  console[v].post \in 1 .. n /\ post'[console[v].post].of = v
      <4>1. console[v].post \in 1 .. posts /\ post[console[v].post].of = v
        BY <3>2 DEF CoreInv, ConsolesOK
      <4>2. console[v].post \in Posts \ {n} /\ console[v].post \in 1 .. n
        BY <1>1, <4>1, UploadAssumption DEF n, Posts
      <4> QED
        BY <1>9, <4>1, <4>2
    <3> QED
      BY <1>10, <1>11, <3>1, <3>2 DEF CoreInv, ConsolesOK
  <2> QED
    BY <2>1, <2>2
<1>14. PostsOK'
  <2> SUFFICES ASSUME NEW k \in Posts, NEW w, w = post'[k].of
               PROVE  /\ post'[k].stage = "none" <=> k > n
                      /\ post'[k].stage # "none" => w \in Accepted'
                      /\ post'[k].stage \in {"open", "write", "ok", "broken"} =>
                           post'[k].length \in Taken(w)'
                      /\ post'[k].stage \in {"write", "ok"} => NameOf(w)' \in DOMAIN objects
    BY <1>1 DEF PostsOK
  <2>1. CASE k = n
    BY <1>2, <1>6, <1>9, <1>10, <2>1
  <2>2. CASE k # n
    <3>1. post'[k] = post[k]
      BY <1>9, <2>2
    <3>2. k > posts <=> k > n
      BY <1>1, <2>2 DEF n, Posts
    <3>3. /\ post[k].stage = "none" <=> k > posts
          /\ post[k].stage # "none" => w \in Accepted
          /\ post[k].stage \in {"open", "write", "ok", "broken"} => post[k].length \in Taken(w)
          /\ post[k].stage \in {"write", "ok"} => NameOf(w) \in DOMAIN objects
      BY <3>1 DEF CoreInv, PostsOK
    <3>4. w \in Accepted =>
            w \in Accepted' /\ NameOf(w)' = NameOf(w) /\ Taken(w)' = Taken(w)
      BY <1>10, <1>11 DEF Accepted
    <3>5. post[k].stage \in {"open", "write", "ok", "broken"} => post[k].stage # "none"
      OBVIOUS
    <3> QED
      BY <3>1, <3>2, <3>3, <3>4, <3>5
  <2> QED
    BY <2>1, <2>2
<1>15. FilesOK'
  <2> SUFFICES ASSUME NEW name \in DOMAIN objects
               PROVE  /\ \A v \in objects[name].of : v \in Accepted' /\ NameOf(v)' = name
                      /\ \E v \in objects[name].of : objects[name].length <= console'[v].size
    BY <1>1 DEF FilesOK
  <2>1. /\ \A v \in objects[name].of : v \in Accepted /\ NameOf(v) = name
        /\ \E v \in objects[name].of : objects[name].length <= console[v].size
    BY DEF CoreInv, FilesOK
  <2>2. \A v \in Accepted : v \in Uploads
    BY DEF Accepted
  <2> QED
    BY <1>10, <1>11, <2>1, <2>2
<1> QED
  BY <1>12, <1>13, <1>14, <1>15 DEF CoreInv

\* A POST that enters another stage.
LEMMA EnterShape ==
  ASSUME post \in [Posts -> PostType], NEW k \in Posts, NEW stage \in PostStages, Enter(k, stage)
  PROVE  /\ post' \in [Posts -> PostType]
         /\ post'[k].stage = stage /\ post'[k].of = post[k].of /\ post'[k].length = post[k].length
         /\ \A j \in Posts \ {k} : post'[j] = post[j]
<1> DEFINE q == [post[k] EXCEPT !.stage = stage]
<1>1. q \in PostType /\ q.stage = stage /\ q.of = post[k].of /\ q.length = post[k].length
  BY DEF PostType
<1>2. post' = [post EXCEPT ![k] = q]
  BY DEF Enter
<1> HIDE DEF q
<1> QED
  BY <1>1, <1>2

\* With the consoles as they are, names and lengths are as they are.
LEMMA SameConsoles ==
  ASSUME UNCHANGED console
  PROVE  /\ \A u : Told(u)' = Told(u) /\ NameOf(u)' = NameOf(u) /\ Taken(u)' = Taken(u)
         /\ Accepted' = Accepted
BY DEF Told, NameOf, Taken, Accepted

\* What files need to hold again when the server has moved on with POST k.
LEMMA PostMoves ==
  ASSUME CoreInv, UNCHANGED <<console, posts>>, post' \in [Posts -> PostType],
         NEW k \in Posts, post[k].stage # "none", post'[k].stage # "none",
         post'[k].of = post[k].of, \A j \in Posts \ {k} : post'[j] = post[j],
         post'[k].stage \in {"open", "write", "ok", "broken"} =>
           post'[k].length \in Taken(post[k].of),
         post'[k].stage \in {"write", "ok"} => NameOf(post[k].of) \in DOMAIN objects',
         DOMAIN objects \subseteq DOMAIN objects',
         \A name \in DOMAIN objects' : objects'[name] \in FileType,
         FilesOK'
  PROVE  CoreInv'
<1>1. UploadTypeOK'
  BY UploadTypes DEF CoreInv, UploadTypeOK, ConsoleType, PostType, FileType
<1>2. ConsolesOK'
  <2> SUFFICES ASSUME NEW v \in Uploads
               PROVE  /\ console[v].step # "idle" => console[v].size \in Sizes
                      /\ v \in Accepted' =>
                           /\ Template(v[2]) # NoBody
                           /\ Accepts(Told(v)', v[2], console[v].size, v[1])
                      /\ console[v].step = "refused" =>
                           \/ Template(v[2]) = NoBody
                           \/ ~Accepts(Told(v)', v[2], console[v].size, v[1])
                      /\ console[v].step = "waiting" =>
                           console[v].post \in 1 .. posts /\ post'[console[v].post].of = v
    BY DEF ConsolesOK
  <2>1. posts \in 0 .. MaxPosts
    BY DEF CoreInv, UploadTypeOK
  <2>2. \A j \in 1 .. posts : j \in Posts
    BY <2>1, UploadAssumption DEF Posts
  <2>3. \A j \in Posts : post'[j].of = post[j].of
    OBVIOUS
  <2> QED
    BY <2>2, <2>3, SameConsoles DEF CoreInv, ConsolesOK
<1>3. PostsOK'
  <2> SUFFICES ASSUME NEW j \in Posts, NEW w, w = post'[j].of
               PROVE  /\ post'[j].stage = "none" <=> j > posts
                      /\ post'[j].stage # "none" => w \in Accepted'
                      /\ post'[j].stage \in {"open", "write", "ok", "broken"} =>
                           post'[j].length \in Taken(w)'
                      /\ post'[j].stage \in {"write", "ok"} => NameOf(w)' \in DOMAIN objects'
    BY DEF PostsOK
  <2>1. w = post[j].of
    OBVIOUS
  <2>2. /\ post[j].stage = "none" <=> j > posts
        /\ post[j].stage # "none" => w \in Accepted
        /\ post[j].stage \in {"open", "write", "ok", "broken"} => post[j].length \in Taken(w)
        /\ post[j].stage \in {"write", "ok"} => NameOf(w) \in DOMAIN objects
    BY <2>1 DEF CoreInv, PostsOK
  <2>3. w \in Accepted' <=> w \in Accepted
    BY SameConsoles
  <2>4. NameOf(w)' = NameOf(w) /\ Taken(w)' = Taken(w)
    BY SameConsoles
  <2>5. CASE j = k
    BY <2>1, <2>2, <2>3, <2>4, <2>5
  <2>6. CASE j # k
    BY <2>1, <2>2, <2>3, <2>4, <2>6
  <2> QED
    BY <2>5, <2>6
<1> QED
  BY <1>1, <1>2, <1>3 DEF CoreInv

\* Files that nobody writes.
LEMMA SameFiles ==
  ASSUME CoreInv, UNCHANGED <<console, objects>>
  PROVE  FilesOK' /\ \A name \in DOMAIN objects' : objects'[name] \in FileType
<1>1. FilesOK'
  <2> SUFFICES ASSUME NEW name \in DOMAIN objects
               PROVE  /\ \A v \in objects[name].of : v \in Accepted' /\ NameOf(v)' = name
                      /\ \E v \in objects[name].of : objects[name].length <= console[v].size
    BY DEF FilesOK
  <2> QED
    BY SameConsoles DEF CoreInv, FilesOK
<1> QED
  BY <1>1, UploadTypes DEF CoreInv

LEMMA ParseFormStep ==
  ASSUME CoreInv, NEW k \in Posts, ParseForm(k)
  PROVE  CoreInv'
<1>1. /\ post \in [Posts -> PostType] /\ post[k].stage = "form"
      /\ post[k].of \in Accepted /\ UNCHANGED <<console, posts, objects>>
  BY UploadTypes DEF CoreInv, ParseForm, PostsOK
<1>2. ASSUME NEW n \in Taken(post[k].of),
             post' = [post EXCEPT ![k].stage = "open", ![k].length = n]
      PROVE  CoreInv'
  <2> DEFINE q == [post[k] EXCEPT !.stage = "open", !.length = n]
  <2>1. n \in Lengths \union {0}
    BY DEF Taken
  <2>2. q \in PostType /\ q.stage = "open" /\ q.of = post[k].of /\ q.length = n
    BY <1>1, <2>1 DEF PostType, PostStages
  <2>3. post' = [post EXCEPT ![k] = q]
    BY <1>1, <1>2 DEF PostType
  <2> HIDE DEF q
  <2>4. /\ post' \in [Posts -> PostType] /\ post'[k] = q
        /\ \A j \in Posts \ {k} : post'[j] = post[j]
    BY <1>1, <2>2, <2>3
  <2> QED
    BY <1>1, <2>2, <2>4, SameFiles, PostMoves
<1>3. ASSUME Enter(k, "failed") PROVE CoreInv'
  <2>1. "failed" \in PostStages
    BY DEF PostStages
  <2> QED
    BY <1>1, <1>3, <2>1, EnterShape, SameFiles, PostMoves
<1> QED
  BY <1>2, <1>3 DEF ParseForm

\* A file that POSTs of one upload, or of uploads of its name, have written.
LEMMA PutShape ==
  ASSUME CoreInv, UNCHANGED console, NEW name, NEW file \in FileType, PutObject(name, file),
         \A v \in file.of : v \in Accepted /\ NameOf(v) = name,
         \E v \in file.of : file.length <= console[v].size
  PROVE  /\ FilesOK'
         /\ DOMAIN objects' = DOMAIN objects \union {name}
         /\ objects'[name] = file
         /\ \A other \in DOMAIN objects \ {name} : objects'[other] = objects[other]
         /\ \A other \in DOMAIN objects' : objects'[other] \in FileType
<1>1. /\ DOMAIN objects' = DOMAIN objects \union {name}
      /\ objects'[name] = file
      /\ \A other \in DOMAIN objects \ {name} : objects'[other] = objects[other]
  BY DEF PutObject
<1>2. \A other \in DOMAIN objects' : objects'[other] \in FileType
  BY <1>1, UploadTypes DEF CoreInv
<1>3. FilesOK'
  <2> SUFFICES ASSUME NEW other \in DOMAIN objects'
               PROVE  /\ \A v \in objects'[other].of : v \in Accepted' /\ NameOf(v)' = other
                      /\ \E v \in objects'[other].of : objects'[other].length <= console[v].size
    BY DEF FilesOK
  <2>1. CASE other = name
    BY <1>1, <2>1, SameConsoles
  <2>2. CASE other # name
    <3>1. other \in DOMAIN objects /\ objects'[other] = objects[other]
      BY <1>1, <2>2
    <3> QED
      BY <3>1, SameConsoles DEF CoreInv, FilesOK
  <2> QED
    BY <2>1, <2>2
<1> QED
  BY <1>1, <1>2, <1>3

LEMMA OpenObjectStep ==
  ASSUME CoreInv, NEW k \in Posts, OpenObject(k)
  PROVE  CoreInv'
<1> DEFINE w == post[k].of
<1>1. /\ post \in [Posts -> PostType] /\ post[k].stage = "open"
      /\ w \in Accepted /\ w \in Uploads /\ console[w].size \in Nat
      /\ post[k].length \in Taken(w)
      /\ UNCHANGED <<console, posts>>
  BY UploadTypes, UploadAssumption DEF CoreInv, OpenObject, PostsOK, ConsolesOK, Accepted
<1>2. "failed" \in PostStages /\ "write" \in PostStages
  BY DEF PostStages
<1>3. ASSUME PutObject(NameOf(w), File(w, 0)), Enter(k, "write")
      PROVE  CoreInv'
  <2> DEFINE file == File(w, 0)
  <2>1. file \in FileType /\ file.of = {w} /\ file.length = 0
    BY <1>1 DEF File, FileType
  <2> HIDE DEF file
  <2>2. PutObject(NameOf(w), file)
    BY <1>3 DEF file
  <2>3. /\ FilesOK' /\ DOMAIN objects' = DOMAIN objects \union {NameOf(w)}
        /\ \A other \in DOMAIN objects' : objects'[other] \in FileType
    BY <1>1, <2>1, <2>2, PutShape
  <2> QED
    BY <1>1, <1>2, <1>3, <2>3, EnterShape, PostMoves
<1>4. ASSUME Enter(k, "failed"), UNCHANGED objects PROVE CoreInv'
  BY <1>1, <1>2, <1>4, EnterShape, SameFiles, PostMoves
<1> QED
  BY <1>3, <1>4 DEF OpenObject

\* What is written over a file of one name is a file of that name.
LEMMA WrittenShape ==
  ASSUME CoreInv, NEW w \in Accepted, NEW n \in Lengths, n <= console[w].size,
         NameOf(w) \in DOMAIN objects
  PROVE  LET file == WrittenOver(objects[NameOf(w)], w, n)
         IN /\ file \in FileType
            /\ \A v \in file.of : v \in Accepted /\ NameOf(v) = NameOf(w)
            /\ \E v \in file.of : file.length <= console[v].size
<1> DEFINE old  == objects[NameOf(w)]
           file == WrittenOver(old, w, n)
<1>1. /\ old \in FileType
      /\ \A v \in old.of : v \in Accepted /\ NameOf(v) = NameOf(w)
      /\ \E v \in old.of : old.length <= console[v].size
      /\ w \in Uploads
  BY UploadTypes DEF CoreInv, FilesOK, Accepted
<1> HIDE DEF old
<1>2. CASE old.length <= n
  <2>1. file = File(w, n)
    BY <1>2 DEF WrittenOver
  <2>2. file \in FileType /\ file.of = {w} /\ file.length = n
    BY <1>1, <2>1 DEF File, FileType
  <2> HIDE DEF file
  <2> QED
    BY <2>2 DEF file, old
<1>3. CASE ~(old.length <= n)
  <2>1. file = [old EXCEPT !.of = old.of \union {w}]
    BY <1>3 DEF WrittenOver
  <2>2. old.of \union {w} \in SUBSET Uploads
    BY <1>1 DEF FileType
  <2>3. file \in FileType /\ file.of = old.of \union {w} /\ file.length = old.length
    BY <1>1, <2>1, <2>2 DEF FileType
  <2> HIDE DEF file
  <2> QED
    BY <1>1, <2>3 DEF file, old
<1> QED
  BY <1>2, <1>3

LEMMA WriteObjectStep ==
  ASSUME CoreInv, NEW k \in Posts, WriteObject(k)
  PROVE  CoreInv'
<1> DEFINE w == post[k].of
           name == NameOf(w)
<1>1. /\ post \in [Posts -> PostType] /\ post[k].stage = "write"
      /\ w \in Accepted /\ console[w].size \in Sizes /\ w \in Uploads
      /\ post[k].length \in Taken(w) /\ NameOf(w) \in DOMAIN objects
      /\ UNCHANGED <<console, posts>>
  BY UploadTypes DEF CoreInv, WriteObject, PostsOK, ConsolesOK, Accepted
<1>2. "ok" \in PostStages /\ "broken" \in PostStages
  BY DEF PostStages
<1>3. post[k].length \in Lengths /\ post[k].length \in Nat
      /\ post[k].length <= console[w].size /\ console[w].size \in Nat
  BY <1>1, TakenFacts, UploadAssumption
<1>4. PICK n \in Lengths, stage \in {"ok", "broken"} :
        n <= post[k].length /\ PutObject(name, WrittenOver(objects[name], w, n)) /\ Enter(k, stage)
  <2>1. CASE PutObject(name, WrittenOver(objects[name], w, post[k].length)) /\ Enter(k, "ok")
    BY <1>3, <2>1
  <2>2. ASSUME NEW n \in Lengths, n < post[k].length,
               PutObject(name, WrittenOver(objects[name], w, n)), Enter(k, "broken")
        PROVE  \E m \in Lengths, stage \in {"ok", "broken"} :
                 m <= post[k].length /\ PutObject(name, WrittenOver(objects[name], w, m))
                 /\ Enter(k, stage)
    <3>1. n \in Nat
      BY UploadAssumption DEF Lengths
    <3> QED
      BY <1>3, <2>2, <3>1
  <2> QED
    BY <2>1, <2>2 DEF WriteObject
<1> DEFINE file == WrittenOver(objects[name], w, n)
<1>5. n <= console[w].size
  <2>1. n \in Nat
    BY UploadAssumption DEF Lengths
  <2> QED
    BY <1>3, <1>4, <2>1
<1>6. /\ file \in FileType
      /\ \A v \in file.of : v \in Accepted /\ NameOf(v) = name
      /\ \E v \in file.of : file.length <= console[v].size
  BY <1>1, <1>5, WrittenShape
<1> HIDE DEF file
<1>7. PutObject(name, file)
  BY <1>4 DEF file
<1>8. /\ FilesOK' /\ DOMAIN objects' = DOMAIN objects \union {name}
      /\ \A other \in DOMAIN objects' : objects'[other] \in FileType
  BY <1>1, <1>6, <1>7, PutShape
<1> QED
  BY <1>1, <1>2, <1>4, <1>8, EnterShape, PostMoves

LEMMA CrashStep == ASSUME CoreInv, Crash PROVE CoreInv'
<1>1. post \in [Posts -> PostType] /\ UNCHANGED <<console, posts, objects>>
  BY UploadTypes DEF CoreInv, Crash
<1>2. ASSUME NEW k \in Posts
      PROVE  /\ post'[k] \in PostType
             /\ post'[k].of = post[k].of /\ post'[k].length = post[k].length
             /\ post'[k].stage = "none" <=> post[k].stage = "none"
             /\ post'[k].stage \in {"open", "write", "ok", "broken"} =>
                  post[k].stage \in {"open", "write", "ok", "broken"}
             /\ post'[k].stage \in {"write", "ok"} => post[k].stage \in {"write", "ok"}
  <2>1. post[k] \in PostType
    BY <1>1
  <2>2. CASE post[k].stage = "write"
    <3>1. post'[k] = [post[k] EXCEPT !.stage = "broken"]
      BY <2>2 DEF Crash
    <3> QED
      BY <2>1, <2>2, <3>1 DEF PostType, PostStages
  <2>3. CASE post[k].stage \in {"form", "open"}
    <3>1. post'[k] = [post[k] EXCEPT !.stage = "failed"]
      BY <2>3 DEF Crash
    <3> QED
      BY <2>1, <2>3, <3>1 DEF PostType, PostStages
  <2>4. CASE post[k].stage \notin {"write", "form", "open"}
    <3>1. post'[k] = post[k]
      BY <2>4 DEF Crash
    <3> QED
      BY <2>1, <3>1
  <2> QED
    BY <2>2, <2>3, <2>4
<1>3. post' \in [Posts -> PostType]
  BY <1>2 DEF Crash
<1>4. UploadTypeOK'
  BY <1>1, <1>3, UploadTypes DEF CoreInv, UploadTypeOK, ConsoleType, PostType, FileType
<1>5. ConsolesOK'
  <2> SUFFICES ASSUME NEW v \in Uploads
               PROVE  /\ console[v].step # "idle" => console[v].size \in Sizes
                      /\ v \in Accepted' =>
                           /\ Template(v[2]) # NoBody
                           /\ Accepts(Told(v)', v[2], console[v].size, v[1])
                      /\ console[v].step = "refused" =>
                           \/ Template(v[2]) = NoBody
                           \/ ~Accepts(Told(v)', v[2], console[v].size, v[1])
                      /\ console[v].step = "waiting" =>
                           console[v].post \in 1 .. posts /\ post'[console[v].post].of = v
    BY <1>1 DEF ConsolesOK
  <2>1. posts \in 0 .. MaxPosts
    BY DEF CoreInv, UploadTypeOK
  <2>2. \A j \in 1 .. posts : j \in Posts
    BY <2>1, UploadAssumption DEF Posts
  <2> QED
    BY <1>1, <1>2, <2>2, SameConsoles DEF CoreInv, ConsolesOK
<1>6. PostsOK'
  <2> SUFFICES ASSUME NEW j \in Posts, NEW w, w = post'[j].of
               PROVE  /\ post'[j].stage = "none" <=> j > posts
                      /\ post'[j].stage # "none" => w \in Accepted'
                      /\ post'[j].stage \in {"open", "write", "ok", "broken"} =>
                           post'[j].length \in Taken(w)'
                      /\ post'[j].stage \in {"write", "ok"} => NameOf(w)' \in DOMAIN objects
    BY <1>1 DEF PostsOK
  <2>1. w = post[j].of
    BY <1>2
  <2>2. /\ post[j].stage = "none" <=> j > posts
        /\ post[j].stage # "none" => w \in Accepted
        /\ post[j].stage \in {"open", "write", "ok", "broken"} => post[j].length \in Taken(w)
        /\ post[j].stage \in {"write", "ok"} => NameOf(w) \in DOMAIN objects
    BY <2>1 DEF CoreInv, PostsOK
  <2>3. w \in Accepted' <=> w \in Accepted
    BY <1>1, SameConsoles
  <2>4. NameOf(w)' = NameOf(w) /\ Taken(w)' = Taken(w)
    BY <1>1, SameConsoles
  <2> QED
    BY <1>2, <2>2, <2>3, <2>4
<1> QED
  BY <1>1, <1>4, <1>5, <1>6, SameFiles DEF CoreInv

LEMMA CoreStep == CoreInv /\ [UploadNext]_uploadVars => CoreInv'
<1> SUFFICES ASSUME CoreInv, [UploadNext]_uploadVars PROVE CoreInv'
  OBVIOUS
<1>1. ASSUME NEW u \in Uploads, NEW size \in Sizes, PrepareUpload(u, size) PROVE CoreInv'
  BY <1>1, PrepareStep
<1>2. ASSUME NEW u \in Uploads, SendPost(u) PROVE CoreInv'
  BY <1>2, SendPostStep
<1>3. ASSUME NEW u \in Uploads, GiveUp(u) PROVE CoreInv'
  BY <1>3, GiveUpStep
<1>4. ASSUME NEW u \in Uploads, PostAnswered(u) PROVE CoreInv'
  BY <1>4, PostAnsweredStep
<1>5. ASSUME NEW k \in Posts, ParseForm(k) PROVE CoreInv'
  BY <1>5, ParseFormStep
<1>6. ASSUME NEW k \in Posts, OpenObject(k) PROVE CoreInv'
  BY <1>6, OpenObjectStep
<1>7. ASSUME NEW k \in Posts, WriteObject(k) PROVE CoreInv'
  BY <1>7, WriteObjectStep
<1>8. CASE Crash
  BY <1>8, CrashStep
<1>9. CASE UNCHANGED uploadVars
  <2>1. UNCHANGED <<console, post, posts, objects>>
    BY <1>9 DEF uploadVars
  <2>2. console' \in [Uploads -> ConsoleType]
    BY <2>1, UploadTypes DEF CoreInv
  <2>3. ConsolesOK'
    BY <2>1, SameConsoles DEF CoreInv, ConsolesOK
  <2>4. \A u \in Accepted : console'[u].size = console[u].size /\ u \in Accepted'
    BY <2>1, SameConsoles
  <2> QED
    BY <2>1, <2>2, <2>3, <2>4, ConsoleMoves
<1> QED
  BY <1>1, <1>2, <1>3, <1>4, <1>5, <1>6, <1>7, <1>8, <1>9 DEF UploadNext

LEMMA CoreAlways == UploadSpec => []CoreInv
BY CoreInit, CoreStep, PTL DEF UploadSpec

-----------------------------------------------------------------------------
(* No retry undoes what was received.                                      *)

\* Each kind that is handed out has a body of its own: the fallback to the
\* body of another type (smm2_objects.go:108-111) is not taken.  With it two
\* types of one account get one name.
OwnBodies == captured132 = NoBody \/ \A u \in Uploads : u[2] \in Bodies

\* The server has taken the whole asset of u once.
Received(u) ==
  \E k \in Posts :
    post[k].of = u /\ post[k].stage = "ok" /\ post[k].length = console[u].size

Kept(u) == NameOf(u) \in DOMAIN objects /\ objects[NameOf(u)] = File(u, console[u].size)

Settled ==
  \A u \in Uploads :
    /\ console[u].step = "stored" => Received(u)
    /\ Received(u) /\ ~Torn(u) /\ Sharing(u) = {} => Kept(u)

UploadInv == CoreInv /\ Settled

LEMMA SettledInit == UploadInit => Settled
BY DEF UploadInit, Settled, Received, NoPost

LEMMA AcceptedHasBody ==
  ASSUME OwnBodies, CoreInv, NEW u \in Accepted
  PROVE  u[2] \in Bodies
BY DEF OwnBodies, CoreInv, ConsolesOK, Accepted, Template

\* Whoever has the name of u has to be u, or u shares its name.
LEMMA NobodyElse ==
  ASSUME PIDTokenSet, OwnBodies, CoreInv, NEW u \in Accepted, NEW v \in Accepted,
         NameOf(u) = NameOf(v), Sharing(u) = {}
  PROVE  u = v
<1>1. u \in Uploads /\ v \in Uploads /\ console[v].step # "idle"
  BY DEF Accepted
<1>2. u = v \/ (u[2] = Level /\ v[2] = Level)
  BY <1>1, AcceptedHasBody, NamesDiffer
<1> QED
  BY <1>1, <1>2 DEF Sharing

LEMMA ReceivedAccepted ==
  ASSUME CoreInv, NEW u \in Uploads, Received(u)
  PROVE  u \in Accepted /\ console[u].size \in Nat /\ Taken(u) = {console[u].size}
<1>1. PICK k \in Posts :
        post[k].of = u /\ post[k].stage = "ok" /\ post[k].length = console[u].size
  BY DEF Received
<1>2. u \in Accepted /\ console[u].size \in Taken(u)
  BY <1>1 DEF CoreInv, PostsOK
<1>3. console[u].size \in Sizes
  BY <1>2 DEF CoreInv, ConsolesOK, Accepted
<1>4. console[u].size \in Nat /\ MaxPart \in Nat
  BY <1>3, UploadAssumption
<1>5. ~(u \in Named /\ console[u].size > MaxPart)
  BY <1>2, <1>4 DEF Taken
<1> QED
  BY <1>2, <1>4, <1>5 DEF Taken

\* A console moves: what was received stays received, and more share a name.
LEMMA SettledConsole ==
  ASSUME CoreInv, Settled, UNCHANGED objects,
         \A w \in Accepted : console'[w].size = console[w].size,
         \A w \in Uploads : console[w].step # "idle" => console'[w].step # "idle",
         NEW v \in Uploads,
         Received(v)' => Received(v), Torn(v) => Torn(v)',
         console'[v].step = "stored" => Received(v)'
  PROVE  /\ console'[v].step = "stored" => Received(v)'
         /\ Received(v)' /\ ~Torn(v)' /\ Sharing(v)' = {} => Kept(v)'
<1> SUFFICES ASSUME Received(v)', ~Torn(v)', Sharing(v)' = {} PROVE Kept(v)'
  OBVIOUS
<1>1. v \in Accepted
  BY ReceivedAccepted
<1>2. Sharing(v) = {}
  BY DEF Sharing
<1>3. Kept(v)
  BY <1>2 DEF Settled
<1>4. console'[v].size = console[v].size /\ NameOf(v)' = NameOf(v)
  BY <1>1, SameTold
<1> QED
  BY <1>3, <1>4 DEF Kept

LEMMA PrepareSettled ==
  ASSUME CoreInv, Settled, NEW u \in Uploads, NEW size \in Sizes, PrepareUpload(u, size)
  PROVE  Settled'
<1>1. /\ console \in [Uploads -> ConsoleType] /\ console[u].step = "idle" /\ u \notin Accepted
      /\ UNCHANGED <<post, posts, objects>>
  BY UploadTypes DEF CoreInv, PrepareUpload, Accepted
<1>2. \A v \in Uploads \ {u} : console'[v] = console[v]
  BY <1>1 DEF PrepareUpload
<1>3. console'[u].step \in {"told", "refused"}
  BY <1>1 DEF PrepareUpload, ConsoleType
<1>4. \A w \in Accepted : w \in Uploads \ {u} /\ console'[w].size = console[w].size
  BY <1>1, <1>2 DEF Accepted
<1>5. ASSUME NEW v \in Uploads
      PROVE  /\ Received(v)' => Received(v)
             /\ Torn(v) => Torn(v)'
             /\ console'[v].step = "stored" => Received(v)'
  <2>1. Received(v)' => v # u
    BY <1>1 DEF Received, CoreInv, PostsOK
  <2>2. v # u => (Received(v)' <=> Received(v))
    BY <1>1, <1>2 DEF Received
  <2>3. console'[v].step = "stored" => v # u /\ console[v].step = "stored"
    BY <1>2, <1>3
  <2> QED
    BY <1>1, <2>1, <2>2, <2>3 DEF Torn, Settled
<1>6. \A w \in Uploads : console[w].step # "idle" => console'[w].step # "idle"
  BY <1>2, <1>3
<1>7. UNCHANGED objects
  BY <1>1
<1>8. ASSUME NEW v \in Uploads
      PROVE  /\ console'[v].step = "stored" => Received(v)'
             /\ Received(v)' /\ ~Torn(v)' /\ Sharing(v)' = {} => Kept(v)'
  BY <1>4, <1>5, <1>6, <1>7, SettledConsole
<1> QED
  BY <1>8 DEF Settled

LEMMA SendPostSettled ==
  ASSUME CoreInv, Settled, NEW u \in Uploads, SendPost(u)
  PROVE  Settled'
<1> DEFINE n == posts + 1
<1>1. /\ console \in [Uploads -> ConsoleType] /\ console[u].step = "told"
      /\ post \in [Posts -> PostType] /\ posts \in 0 .. MaxPosts /\ posts < MaxPosts
      /\ UNCHANGED objects
  BY UploadTypes DEF CoreInv, SendPost
<1>2. n \in Posts /\ post[n].stage = "none"
  <2>1. n \in Posts /\ n > posts
    BY <1>1, UploadAssumption DEF Posts
  <2> QED
    BY <2>1 DEF CoreInv, PostsOK
<1>3. /\ \A v \in Uploads \ {u} : console'[v] = console[v]
      /\ console'[u].step = "waiting" /\ console'[u].size = console[u].size
      /\ \A k \in Posts \ {n} : post'[k] = post[k]
      /\ post'[n].stage = "form"
  BY <1>1, <1>2 DEF SendPost, ConsoleType
<1> HIDE DEF n
<1>4. /\ \A w \in Uploads : console'[w].size = console[w].size
      /\ \A w \in Uploads : console[w].step # "idle" => console'[w].step # "idle"
      /\ \A w \in Accepted : console'[w].size = console[w].size
  BY <1>3 DEF Accepted
<1>5. ASSUME NEW v \in Uploads
      PROVE  /\ Received(v)' <=> Received(v)
             /\ Torn(v) => Torn(v)'
             /\ console'[v].step = "stored" => Received(v)'
  <2>1. Received(v)' <=> Received(v)
    BY <1>2, <1>3, <1>4 DEF Received
  <2>2. Torn(v) => Torn(v)'
    BY <1>2, <1>3 DEF Torn
  <2>3. console'[v].step = "stored" => console[v].step = "stored"
    BY <1>3
  <2> QED
    BY <2>1, <2>2, <2>3 DEF Settled
<1>6. ASSUME NEW v \in Uploads
      PROVE  /\ console'[v].step = "stored" => Received(v)'
             /\ Received(v)' /\ ~Torn(v)' /\ Sharing(v)' = {} => Kept(v)'
  BY <1>1, <1>4, <1>5, SettledConsole
<1> QED
  BY <1>6 DEF Settled

\* A console gives up or gets an answer.
LEMMA AnswerSettled ==
  ASSUME CoreInv, Settled, NEW u \in Uploads, GiveUp(u) \/ PostAnswered(u)
  PROVE  Settled'
<1>1. /\ console \in [Uploads -> ConsoleType] /\ console[u].step = "waiting"
      /\ UNCHANGED <<post, posts, objects>>
  BY UploadTypes DEF CoreInv, GiveUp, PostAnswered
<1>2. /\ \A v \in Uploads \ {u} : console'[v] = console[v]
      /\ console'[u].step \in {"told", "stored"} /\ console'[u].size = console[u].size
  BY <1>1 DEF GiveUp, PostAnswered, ConsoleType
<1>3. console'[u].step = "stored" => Received(u)
  <2>1. CASE GiveUp(u)
    BY <1>1, <2>1 DEF GiveUp, ConsoleType
  <2>2. CASE PostAnswered(u)
    <3>1. console[u].post \in 1 .. posts /\ post[console[u].post].of = u
      BY <1>1 DEF CoreInv, ConsolesOK
    <3>2. console[u].post \in Posts
      BY <3>1, UploadAssumption DEF CoreInv, UploadTypeOK, Posts
    <3>3. console'[u].step = "stored" =>
            post[console[u].post].stage = "ok" /\ post[console[u].post].length = console[u].size
      BY <1>1, <2>2 DEF PostAnswered, ConsoleType
    <3> QED
      BY <3>1, <3>2, <3>3 DEF Received
  <2> QED
    BY <2>1, <2>2
<1>4. /\ \A w \in Uploads : console'[w].size = console[w].size
      /\ \A w \in Uploads : console[w].step # "idle" => console'[w].step # "idle"
      /\ \A w \in Accepted : console'[w].size = console[w].size
  BY <1>2 DEF Accepted
<1>5. ASSUME NEW v \in Uploads
      PROVE  /\ Received(v)' <=> Received(v)
             /\ Torn(v) => Torn(v)'
             /\ console'[v].step = "stored" => Received(v)'
  <2>1. Received(v)' <=> Received(v)
    BY <1>1, <1>4 DEF Received
  <2>2. v # u /\ console'[v].step = "stored" => console[v].step = "stored"
    BY <1>2
  <2> QED
    BY <1>1, <1>3, <2>1, <2>2 DEF Settled, Torn
<1>6. ASSUME NEW v \in Uploads
      PROVE  /\ console'[v].step = "stored" => Received(v)'
             /\ Received(v)' /\ ~Torn(v)' /\ Sharing(v)' = {} => Kept(v)'
  BY <1>1, <1>4, <1>5, SettledConsole
<1> QED
  BY <1>6 DEF Settled

\* The server moves on without a file being written: what was received was
\* received before, and no file is torn less than before.
LEMMA SettledServer ==
  ASSUME CoreInv, Settled, UNCHANGED console, NEW v \in Uploads,
         Received(v) => Received(v)',
         Received(v)' /\ ~Torn(v)' => Received(v) /\ ~Torn(v),
         Kept(v) => Kept(v)'
  PROVE  /\ console'[v].step = "stored" => Received(v)'
         /\ Received(v)' /\ ~Torn(v)' /\ Sharing(v)' = {} => Kept(v)'
<1>1. Sharing(v)' = Sharing(v)
  BY DEF Sharing
<1> QED
  BY <1>1 DEF Settled

LEMMA ParseSettled ==
  ASSUME CoreInv, Settled, NEW k \in Posts, ParseForm(k)
  PROVE  Settled'
<1>1. /\ post \in [Posts -> PostType] /\ post[k].stage = "form"
      /\ UNCHANGED <<console, objects>>
  BY UploadTypes DEF CoreInv, ParseForm
<1>2. post'[k].stage \in {"open", "failed"} /\ \A j \in Posts \ {k} : post'[j] = post[j]
  BY <1>1 DEF ParseForm, Enter, PostType
<1>3. ASSUME NEW v \in Uploads
      PROVE  /\ Received(v)' <=> Received(v)
             /\ Torn(v)' <=> Torn(v)
             /\ Kept(v)' <=> Kept(v)
  BY <1>1, <1>2, SameConsoles DEF Received, Torn, Kept
<1> QED
  BY <1>1, <1>3, SettledServer DEF Settled

LEMMA CrashSettled == ASSUME CoreInv, Settled, Crash PROVE Settled'
<1>1. post \in [Posts -> PostType] /\ UNCHANGED <<console, objects>>
  BY UploadTypes DEF CoreInv, Crash
<1>2. ASSUME NEW k \in Posts
      PROVE  /\ post'[k].of = post[k].of /\ post'[k].length = post[k].length
             /\ post'[k].stage = "ok" <=> post[k].stage = "ok"
             /\ post[k].stage \in {"write", "broken"} => post'[k].stage \in {"write", "broken"}
  BY <1>1 DEF Crash, PostType
<1>3. ASSUME NEW v \in Uploads
      PROVE  /\ Received(v)' <=> Received(v)
             /\ Torn(v) => Torn(v)'
             /\ Kept(v)' <=> Kept(v)
  BY <1>1, <1>2, SameConsoles DEF Received, Torn, Kept
<1> QED
  BY <1>1, <1>3, SettledServer DEF Settled

\* A file is written for POST k: the files of other uploads stay, unless they
\* share its name.
LEMMA OthersKept ==
  ASSUME PIDTokenSet, OwnBodies, CoreInv, UNCHANGED console,
         NEW u \in Accepted, NEW file, PutObject(NameOf(u), file),
         NEW v \in Accepted, v # u, Sharing(v) = {}, Kept(v)
  PROVE  Kept(v)'
<1>1. NameOf(v) # NameOf(u)
  BY NobodyElse
<1>2. NameOf(v)' = NameOf(v)
  BY SameConsoles
<1> QED
  BY <1>1, <1>2 DEF Kept, PutObject

LEMMA OpenSettled ==
  ASSUME PIDTokenSet, OwnBodies, CoreInv, Settled, NEW k \in Posts, OpenObject(k)
  PROVE  Settled'
<1>1. /\ post \in [Posts -> PostType] /\ post[k].stage = "open" /\ post[k].of \in Accepted
      /\ UNCHANGED console
  BY UploadTypes DEF CoreInv, OpenObject, PostsOK
<1> PICK u \in Accepted : u = post[k].of
  BY <1>1
<1>2. ASSUME NEW stage \in {"write", "failed"}, Enter(k, stage), NEW v \in Uploads
      PROVE  /\ Received(v)' <=> Received(v)
             /\ Torn(v) => Torn(v)'
             /\ stage = "write" => Torn(u)'
  <2>1. /\ post'[k].stage = stage /\ post'[k].of = u
        /\ \A j \in Posts \ {k} : post'[j] = post[j]
    BY <1>1, <1>2, EnterShape DEF PostStages
  <2> QED
    BY <1>1, <2>1 DEF Received, Torn
<1>3. ASSUME PutObject(NameOf(u), File(u, 0)), Enter(k, "write"), NEW v \in Uploads
      PROVE  /\ console'[v].step = "stored" => Received(v)'
             /\ Received(v)' /\ ~Torn(v)' /\ Sharing(v)' = {} => Kept(v)'
  <2>1. /\ Received(v)' <=> Received(v)
        /\ Torn(v) => Torn(v)'
        /\ Torn(u)'
    BY <1>2, <1>3
  <2>2. console'[v].step = "stored" => Received(v)'
    BY <1>1, <2>1 DEF Settled
  <2>3. ASSUME Received(v)', ~Torn(v)', Sharing(v)' = {} PROVE Kept(v)'
    <3>1. v # u /\ Received(v) /\ ~Torn(v)
      BY <2>1, <2>3
    <3>2. Sharing(v) = {}
      BY <1>1, <2>3 DEF Sharing
    <3>3. v \in Accepted /\ Kept(v)
      BY <3>1, <3>2, ReceivedAccepted DEF Settled
    <3> QED
      BY <1>1, <1>3, <3>1, <3>2, <3>3, OthersKept
  <2> QED
    BY <2>2, <2>3
<1>4. ASSUME Enter(k, "failed"), UNCHANGED objects, NEW v \in Uploads
      PROVE  /\ console'[v].step = "stored" => Received(v)'
             /\ Received(v)' /\ ~Torn(v)' /\ Sharing(v)' = {} => Kept(v)'
  <2>1. (Received(v)' <=> Received(v)) /\ (Torn(v) => Torn(v)')
    BY <1>2, <1>4
  <2>2. Kept(v)' <=> Kept(v)
    BY <1>1, <1>4, SameConsoles DEF Kept
  <2> QED
    BY <1>1, <2>1, <2>2, SettledServer
<1> QED
  BY <1>3, <1>4 DEF Settled, OpenObject

\* An asset that was received and that nobody else writes goes over whatever
\* the file holds: that is a part of the same asset.
LEMMA WrittenWhole ==
  ASSUME PIDTokenSet, OwnBodies, CoreInv, NEW u \in Accepted, Sharing(u) = {},
         console[u].size \in Nat, NameOf(u) \in DOMAIN objects
  PROVE  WrittenOver(objects[NameOf(u)], u, console[u].size) = File(u, console[u].size)
<1>1. PICK v \in objects[NameOf(u)].of : objects[NameOf(u)].length <= console[v].size
  BY DEF CoreInv, FilesOK
<1>2. v \in Accepted /\ NameOf(v) = NameOf(u)
  BY <1>1 DEF CoreInv, FilesOK
<1>3. v = u
  BY <1>2, NobodyElse
<1> QED
  BY <1>1, <1>3 DEF WrittenOver

LEMMA WriteSettled ==
  ASSUME PIDTokenSet, OwnBodies, CoreInv, Settled, NEW k \in Posts, WriteObject(k)
  PROVE  Settled'
<1>1. /\ post \in [Posts -> PostType] /\ post[k].stage = "write" /\ post[k].of \in Accepted
      /\ post[k].length \in Taken(post[k].of) /\ NameOf(post[k].of) \in DOMAIN objects
      /\ UNCHANGED console
  BY UploadTypes DEF CoreInv, WriteObject, PostsOK
<1> PICK u \in Accepted : u = post[k].of
  BY <1>1
<1>2. u \in Uploads /\ console[u].size \in Nat
  BY UploadAssumption DEF Accepted, CoreInv, ConsolesOK
<1>3. ASSUME NEW stage \in {"ok", "broken"}, Enter(k, stage), NEW v \in Uploads
      PROVE  /\ Received(v) => Received(v)'
             /\ v # u => (Received(v)' => Received(v)) /\ (Torn(v) => Torn(v)')
             /\ v = u /\ stage = "broken" => Torn(v)'
             /\ v = u /\ stage = "ok" /\ Received(v)' => post[k].length = console[u].size
  <2>1. /\ post'[k].stage = stage /\ post'[k].of = u /\ post'[k].length = post[k].length
        /\ \A j \in Posts \ {k} : post'[j] = post[j]
    BY <1>1, <1>3, EnterShape DEF PostStages
  <2>2. Received(v) => Received(v)'
    BY <1>1, <2>1 DEF Received
  <2>3. v # u => (Received(v)' => Received(v)) /\ (Torn(v) => Torn(v)')
    BY <1>1, <2>1 DEF Received, Torn
  <2>4. stage = "broken" => Torn(u)'
    BY <2>1 DEF Torn
  <2>5. Received(u)' => post[k].length = console[u].size
    <3> SUFFICES ASSUME Received(u)' PROVE post[k].length = console[u].size
      OBVIOUS
    <3>1. PICK j \in Posts :
            post'[j].of = u /\ post'[j].stage = "ok" /\ post'[j].length = console[u].size
      BY <1>1 DEF Received
    <3>2. CASE j = k
      BY <2>1, <3>1, <3>2
    <3>3. CASE j # k
      <4>1. Received(u)
        BY <2>1, <3>1, <3>3 DEF Received
      <4> QED
        BY <1>1, <1>2, <4>1, ReceivedAccepted
    <3> QED
      BY <3>2, <3>3
  <2> QED
    BY <2>2, <2>3, <2>4, <2>5
<1>4. ASSUME NEW stage \in {"ok", "broken"}, Enter(k, stage), NEW n,
             PutObject(NameOf(u), WrittenOver(objects[NameOf(u)], u, n)),
             stage = "ok" => n = post[k].length, NEW v \in Uploads
      PROVE  /\ console'[v].step = "stored" => Received(v)'
             /\ Received(v)' /\ ~Torn(v)' /\ Sharing(v)' = {} => Kept(v)'
  <2>1. console'[v].step = "stored" => Received(v)'
    BY <1>1, <1>3, <1>4 DEF Settled
  <2>2. ASSUME Received(v)', ~Torn(v)', Sharing(v)' = {} PROVE Kept(v)'
    <3>1. Sharing(v) = {}
      BY <1>1, <2>2 DEF Sharing
    <3>2. CASE v = u
      <4>1. n = console[u].size
        BY <1>3, <1>4, <2>2, <3>2
      <4>2. WrittenOver(objects[NameOf(u)], u, n) = File(u, console[u].size)
        BY <1>1, <1>2, <3>1, <3>2, <4>1, WrittenWhole
      <4>3. PutObject(NameOf(u), File(u, console[u].size))
        BY <1>4, <4>2
      <4>4. NameOf(u)' = NameOf(u) /\ File(u, console'[u].size) = File(u, console[u].size)
        BY <1>1, SameConsoles
      <4> QED
        BY <1>1, <3>2, <4>3, <4>4 DEF PutObject, Kept, File
    <3>3. CASE v # u
      <4>1. Received(v) /\ ~Torn(v)
        BY <1>3, <1>4, <2>2, <3>3
      <4>2. v \in Accepted /\ Kept(v)
        BY <3>1, <4>1, ReceivedAccepted DEF Settled
      <4> QED
        BY <1>1, <1>4, <3>1, <3>3, <4>2, OthersKept
    <3> QED
      BY <3>2, <3>3
  <2> QED
    BY <2>1, <2>2
<1>5. \E stage \in {"ok", "broken"}, n \in Lengths \union {post[k].length} :
        /\ Enter(k, stage) /\ PutObject(NameOf(u), WrittenOver(objects[NameOf(u)], u, n))
        /\ stage = "ok" => n = post[k].length
  BY DEF WriteObject
<1> QED
  BY <1>4, <1>5 DEF Settled

LEMMA UploadStep ==
  ASSUME PIDTokenSet, OwnBodies
  PROVE  UploadInv /\ [UploadNext]_uploadVars => UploadInv'
<1> SUFFICES ASSUME CoreInv, Settled, [UploadNext]_uploadVars PROVE Settled'
  BY CoreStep DEF UploadInv
<1>1. ASSUME NEW u \in Uploads, NEW size \in Sizes, PrepareUpload(u, size) PROVE Settled'
  BY <1>1, PrepareSettled
<1>2. ASSUME NEW u \in Uploads, SendPost(u) PROVE Settled'
  BY <1>2, SendPostSettled
<1>3. ASSUME NEW u \in Uploads, GiveUp(u) \/ PostAnswered(u) PROVE Settled'
  BY <1>3, AnswerSettled
<1>4. ASSUME NEW k \in Posts, ParseForm(k) PROVE Settled'
  BY <1>4, ParseSettled
<1>5. ASSUME NEW k \in Posts, OpenObject(k) PROVE Settled'
  BY <1>5, OpenSettled
<1>6. ASSUME NEW k \in Posts, WriteObject(k) PROVE Settled'
  BY <1>6, WriteSettled
<1>7. CASE Crash
  BY <1>7, CrashSettled
<1>8. CASE UNCHANGED uploadVars
  <2>1. UNCHANGED <<console, post, posts, objects>>
    BY <1>8 DEF uploadVars
  <2>2. ASSUME NEW v \in Uploads
        PROVE  /\ Received(v)' <=> Received(v)
               /\ Torn(v)' <=> Torn(v)
               /\ Kept(v)' <=> Kept(v)
    BY <2>1, SameConsoles DEF Received, Torn, Kept
  <2> QED
    BY <2>1, <2>2, SettledServer DEF Settled
<1> QED
  BY <1>1, <1>2, <1>3, <1>4, <1>5, <1>6, <1>7, <1>8 DEF UploadNext

-----------------------------------------------------------------------------
(* Theorems.                                                               *)

\* Type correctness, whatever bodies were measured and whatever the variable
\* and the host are: also when descriptors cannot be used.
THEOREM UploadTypeCorrect == UploadSpec => []UploadTypeOK
<1>1. CoreInv => UploadTypeOK
  BY DEF CoreInv
<1> QED
  BY <1>1, CoreAlways, PTL

\* With SMM2_RELATION_PID_TOKEN set every descriptor that is handed out
\* declares the length it has, for all sizes and PIDs and for a host of any
\* length (smm2_objects.go:43-97).
THEOREM DescriptorsFramed == ASSUME PIDTokenSet PROVE UploadSpec => []WellFramed
<1>1. WellFramed
  BY DescriptorFramed DEF WellFramed, Told
<1> QED
  BY <1>1, PTL

\* With the variable set and a host that fits into the measured one, a console
\* that asks for a kind with a body of its own is refused only for the number
\* of hexadecimal digits of its size (smm2_objects.go:63-68).
THEOREM Usable ==
  ASSUME PIDTokenSet, BaseWidth <= HostWidth
  PROVE  UploadSpec => []NobodyRefused
<1>1. CoreInv => NobodyRefused
  <2> SUFFICES ASSUME CoreInv, NEW u \in Uploads,
                      console[u].step = "refused", u[2] \in Bodies,
                      u[2] = Level \/ HexDigits(console[u].size)
                                       = HexDigits(capturedRelationSize[u[2]])
               PROVE  FALSE
    BY DEF NobodyRefused
  <2>1. Template(u[2]) # NoBody
    BY BodiesAssumption DEF Template
  <2>2. console[u].size \in Sizes
    BY DEF CoreInv, ConsolesOK
  <2>3. Accepts(Told(u), u[2], console[u].size, u[1])
    BY <2>2, OwnAccepted DEF Told
  <2> QED
    BY <2>1, <2>3 DEF CoreInv, ConsolesOK
<1> QED
  BY <1>1, CoreAlways, PTL

\* What a console takes for stored is stored whole under its own name, over
\* any number of retries, late POSTs, crashes and full disks, and whatever
\* other consoles send, as long as no kind is handed the body of another.
THEOREM Stored ==
  ASSUME PIDTokenSet, OwnBodies
  PROVE  UploadSpec => []ConfirmedStored
<1>1. UploadInit => UploadInv
  BY CoreInit, SettledInit DEF UploadInv
<1>2. UploadInv /\ [UploadNext]_uploadVars => UploadInv'
  BY UploadStep
<1>3. UploadInv => ConfirmedStored
  BY DEF UploadInv, Settled, Kept, ConfirmedStored
<1> QED
  BY <1>1, <1>2, <1>3, PTL DEF UploadSpec
=============================================================================
