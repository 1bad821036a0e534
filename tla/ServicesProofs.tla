--------------------------- MODULE ServicesProofs ---------------------------
(***************************************************************************)
(* Proofs about the services around a Run: history, rate limits, costs,     *)
(* checkpoints and session files, for every value of the constants of       *)
(* Services.  A step of a behaviour is one of one part, or leaves that part  *)
(* alone: the invariant of a part is over the variables of that part, which *)
(* no other part touches, and holds whether the part is the active one or   *)
(* not.                                                                     *)
(***************************************************************************)
EXTENDS Services, SequenceTheorems, FiniteSetTheorems, TLAPS

-----------------------------------------------------------------------------
LEMMA PastStep == [Next]_vars => Past!Next \/ UNCHANGED pastVars
<1>1. \A s : Only(s) /\ s # "past" => UNCHANGED pastVars
    BY DEF Only
<1> QED BY <1>1 DEF Next, vars

(***************************************************************************)
(* History                                                                 *)
(***************************************************************************)
Entry   == [n : Nat, project : Projects, display : Displays]
LogLine == Entry \cup {Past!Torn}

\* The entries among the lines f, and that none is twice among them.
NumbersIn(f) == {f[k].n : k \in DOMAIN f} \ {0}
Entries(f) ==
  f \in Seq(LogLine) /\ \A h, k \in DOMAIN f : f[h].n # 0 /\ f[h].n = f[k].n => h = k

\* Each entry is in one place: in the buffer b, in the file f, or with one of
\* the goroutines that write w.
InOnePlace(b, f, w) ==
  /\ Entries(b) /\ Entries(f) /\ NumbersIn(b) \cap NumbersIn(f) = {}
  /\ \A s \in w : /\ Entries(s) /\ s # <<>>
                  /\ NumbersIn(s) \cap NumbersIn(b) = {}
                  /\ NumbersIn(s) \cap NumbersIn(f) = {}
  /\ \A s, t \in w : s # t => NumbersIn(s) \cap NumbersIn(t) = {}

\* No entry is numbered above the last one added.
NoneAbove(n, b, f, w) == \A s \in {b, f} \cup w : \A k \in NumbersIn(s) : k <= n

\* What RemoveLast has read is how the file still begins ...
Begins(r, f) == Len(r) <= Len(f) /\ \A k \in 1 .. Len(r) : r[k] = f[k]

\* ... until the file is truncated: then its entries are in no other place.
SetAside(n, r, b, f, w) ==
  InOnePlace(b, r, w) /\ NoneAbove(n, b, r, w) /\ NumbersIn(r) \cap NumbersIn(f) = {}

PastInv ==
  /\ added \in Nat
  /\ InOnePlace(buffer, log, writing)
  /\ NoneAbove(added, buffer, log, writing)
  /\ remover = "holds" => /\ readBack \in Seq(LogLine) /\ readBack # <<>>
                          /\ Begins(readBack, log)
  /\ remover = "truncated" => /\ readBack # <<>>
                              /\ SetAside(added, readBack, buffer, log, writing)

LEMMA PastInit == Init => PastInv
<1>1. <<>> \in Seq(LogLine)
    BY EmptySeq
<1> QED BY <1>1 DEF Init, Past!Init, PastInv, InOnePlace, NoneAbove, Entries, NumbersIn

-----------------------------------------------------------------------------
LEMMA LineNumber == \A l \in LogLine : l.n \in Nat
  BY DEF LogLine, Entry, Past!Torn

LEMMA EntryAppended ==
  ASSUME NEW f, Entries(f), NEW e \in LogLine, e.n \notin NumbersIn(f)
  PROVE  /\ Entries(Append(f, e))
         /\ NumbersIn(Append(f, e)) = NumbersIn(f) \cup ({e.n} \ {0})
<1> DEFINE g == Append(f, e)
<1>1. /\ g \in Seq(LogLine) /\ Len(g) = Len(f) + 1 /\ g[Len(f) + 1] = e
      /\ \A k \in 1 .. Len(f) : g[k] = f[k]
    BY AppendProperties DEF Entries
<1> HIDE DEF g
<1>2. Len(f) \in Nat /\ DOMAIN f = 1 .. Len(f) /\ DOMAIN g = 1 .. Len(f) + 1
    BY <1>1, LenProperties DEF Entries
<1>3. \A k \in DOMAIN g : k \in DOMAIN f \/ k = Len(f) + 1
    BY <1>2
<1>4. DOMAIN f \subseteq DOMAIN g /\ Len(f) + 1 \in DOMAIN g
    BY <1>2
<1>5. \A k \in DOMAIN f : g[k] = f[k] /\ (f[k].n # 0 => f[k].n # e.n)
    BY <1>1, <1>2 DEF NumbersIn
<1>6. NumbersIn(g) = NumbersIn(f) \cup ({e.n} \ {0})
    BY <1>1, <1>3, <1>4, <1>5 DEF NumbersIn
<1>7. \A h, k \in DOMAIN g : g[h].n # 0 /\ g[h].n = g[k].n => h = k
    BY <1>1, <1>3, <1>5 DEF Entries
<1> QED BY <1>1, <1>6, <1>7 DEF Entries, g

LEMMA EntryTaken ==
  ASSUME NEW f, Entries(f), f # <<>>
  PROVE  /\ Head(f) \in LogLine /\ Entries(Tail(f))
         /\ NumbersIn(f) = NumbersIn(Tail(f)) \cup ({Head(f).n} \ {0})
         /\ Head(f).n \notin NumbersIn(Tail(f))
         /\ Len(f) # 1 => Tail(f) # <<>>
<1> DEFINE e == Head(f)
           g == Tail(f)
<1>1. /\ e \in LogLine /\ e = f[1]
      /\ g \in Seq(LogLine) /\ Len(g) = Len(f) - 1
      /\ \A k \in 1 .. Len(g) : g[k] = f[k + 1]
    BY HeadTailProperties DEF Entries
<1> HIDE DEF e, g
<1>2. Len(f) \in Nat \ {0} /\ DOMAIN f = 1 .. Len(f) /\ DOMAIN g = 1 .. Len(f) - 1
    BY <1>1, LenProperties, EmptySeq DEF Entries
<1>3. \A k \in DOMAIN f : k = 1 \/ (k - 1 \in DOMAIN g /\ g[k - 1] = f[k])
    BY <1>1, <1>2
<1>4. \A k \in DOMAIN g : k + 1 \in DOMAIN f /\ k + 1 # 1 /\ g[k] = f[k + 1]
    BY <1>1, <1>2
<1>5. 1 \in DOMAIN f
    BY <1>2
<1>6. NumbersIn(f) = NumbersIn(g) \cup ({e.n} \ {0})
  <2>1. ASSUME NEW k \in DOMAIN f, f[k].n # 0 PROVE f[k].n \in NumbersIn(g) \cup {e.n}
      BY <1>1, <1>3, <2>1 DEF NumbersIn
  <2>2. ASSUME NEW k \in DOMAIN g, g[k].n # 0 PROVE g[k].n \in NumbersIn(f)
      BY <1>4, <2>2 DEF NumbersIn
  <2>3. e.n # 0 => e.n \in NumbersIn(f)
      BY <1>1, <1>5 DEF NumbersIn
  <2> QED BY <2>1, <2>2, <2>3 DEF NumbersIn
<1>7. e.n \notin NumbersIn(g)
    BY <1>1, <1>4, <1>5 DEF NumbersIn, Entries
<1>8. Entries(g)
  <2>1. \A h, k \in DOMAIN g : h + 1 = k + 1 => h = k
      BY <1>2
  <2> QED BY <1>1, <1>4, <2>1 DEF Entries
<1>9. Len(f) # 1 => g # <<>>
  <2>1. Len(f) # 1 => Len(g) # 0
      BY <1>1, <1>2
  <2> QED BY <2>1, EmptySeq
<1> QED BY <1>1, <1>6, <1>7, <1>8, <1>9 DEF e, g

LEMMA PrefixEntries ==
  ASSUME NEW f, Entries(f), NEW r \in Seq(LogLine), Begins(r, f)
  PROVE  Entries(r) /\ NumbersIn(r) \subseteq NumbersIn(f)
<1>1. Len(f) \in Nat /\ DOMAIN f = 1 .. Len(f) /\ Len(r) \in Nat /\ DOMAIN r = 1 .. Len(r)
    BY LenProperties DEF Entries
<1>2. \A k \in DOMAIN r : k \in DOMAIN f /\ r[k] = f[k]
    BY <1>1 DEF Begins
<1> QED BY <1>2 DEF Entries, NumbersIn

\* A segment of lines has no other entries than they.
LEMMA SegmentEntries ==
  ASSUME NEW f, Entries(f), NEW i \in 1 .. Len(f) + 1, NEW j \in 0 .. Len(f)
  PROVE  Entries(SubSeq(f, i, j)) /\ NumbersIn(SubSeq(f, i, j)) \subseteq NumbersIn(f)
<1>1. f \in Seq(LogLine) /\ Len(f) \in Nat /\ DOMAIN f = 1 .. Len(f)
    BY LenProperties DEF Entries
<1>2. CASE i > j
  <2>1. SubSeq(f, i, j) = <<>>
      BY <1>1, <1>2, SubSeqEmpty
  <2> QED BY <2>1, EmptySeq DEF Entries, NumbersIn
<1>3. CASE i <= j
  <2> DEFINE g == SubSeq(f, i, j)
  <2>1. i \in 1 .. Len(f) /\ j \in i .. Len(f)
      BY <1>1, <1>3
  <2>2. g \in Seq(LogLine) /\ Len(g) = j - i + 1 /\ \A k \in 1 .. j - i + 1 : g[k] = f[i + k - 1]
      BY <1>1, <2>1, SubSeqProperties
  <2> HIDE DEF g
  <2>3. DOMAIN g = 1 .. j - i + 1
      BY <2>2, LenProperties
  <2>4. \A k \in DOMAIN g : i + k - 1 \in DOMAIN f /\ g[k] = f[i + k - 1]
    <3>1. \A k \in 1 .. j - i + 1 : i + k - 1 \in 1 .. Len(f)
        BY <1>1, <2>1
    <3> QED BY <1>1, <2>2, <2>3, <3>1
  <2>5. \A h, k \in DOMAIN g : i + h - 1 = i + k - 1 => h = k
      BY <1>1, <2>3
  <2>6. Entries(g)
      BY <2>2, <2>4, <2>5 DEF Entries
  <2>7. NumbersIn(g) \subseteq NumbersIn(f)
      BY <2>4 DEF NumbersIn
  <2> QED BY <2>6, <2>7 DEF g
<1> QED BY <1>1, <1>2, <1>3

LEMMA JoinedEntries ==
  ASSUME NEW f, NEW g, Entries(f), Entries(g), NumbersIn(f) \cap NumbersIn(g) = {}
  PROVE  Entries(f \o g) /\ NumbersIn(f \o g) \subseteq NumbersIn(f) \cup NumbersIn(g)
<1> DEFINE h == f \o g
<1>1. /\ f \in Seq(LogLine) /\ Len(f) \in Nat /\ DOMAIN f = 1 .. Len(f)
      /\ g \in Seq(LogLine) /\ Len(g) \in Nat /\ DOMAIN g = 1 .. Len(g)
    BY LenProperties DEF Entries
<1>2. /\ h \in Seq(LogLine) /\ Len(h) = Len(f) + Len(g)
      /\ \A k \in 1 .. Len(f) + Len(g) :
           h[k] = IF k <= Len(f) THEN f[k] ELSE g[k - Len(f)]
    BY <1>1, ConcatProperties
<1> HIDE DEF h
<1>3. DOMAIN h = 1 .. Len(f) + Len(g)
    BY <1>2, LenProperties
<1>4. \A k \in DOMAIN h :
        \/ k \in DOMAIN f /\ h[k] = f[k]
        \/ k \notin DOMAIN f /\ k - Len(f) \in DOMAIN g /\ h[k] = g[k - Len(f)]
  <2>1. ASSUME NEW m \in Nat, NEW n \in Nat, NEW k \in 1 .. m + n
        PROVE  (k <= m /\ k \in 1 .. m) \/ (~(k <= m) /\ k \notin 1 .. m /\ k - m \in 1 .. n)
      OBVIOUS
  <2>2. \A k \in 1 .. Len(f) + Len(g) :
          \/ k <= Len(f) /\ k \in 1 .. Len(f)
          \/ ~(k <= Len(f)) /\ k \notin 1 .. Len(f) /\ k - Len(f) \in 1 .. Len(g)
      BY <1>1, <2>1
  <2>3. ASSUME NEW k \in DOMAIN h, k <= Len(f), k \in 1 .. Len(f)
        PROVE  k \in DOMAIN f /\ h[k] = f[k]
      BY <1>1, <1>2, <1>3, <2>3
  <2>4. ASSUME NEW k \in DOMAIN h, ~(k <= Len(f)), k \notin 1 .. Len(f), k - Len(f) \in 1 .. Len(g)
        PROVE  k \notin DOMAIN f /\ k - Len(f) \in DOMAIN g /\ h[k] = g[k - Len(f)]
      BY <1>1, <1>2, <1>3, <2>4
  <2> QED BY <1>3, <2>2, <2>3, <2>4
<1>5. \A i, k \in DOMAIN h : i - Len(f) = k - Len(f) => i = k
    BY <1>1, <1>3
<1>6. \A i \in DOMAIN f, k \in DOMAIN g : f[i].n # 0 => f[i].n # g[k].n
    BY DEF NumbersIn
<1>7. Entries(h)
    BY <1>2, <1>4, <1>5, <1>6 DEF Entries
<1>8. NumbersIn(h) \subseteq NumbersIn(f) \cup NumbersIn(g)
    BY <1>4 DEF NumbersIn
<1> QED BY <1>7, <1>8 DEF h

\* What RemoveLast leaves of lines written beside it.
LEMMA LeftEntries ==
  ASSUME NEW f, Entries(f), NEW g \in Past!LeftOf(f)
  PROVE  Entries(g) /\ NumbersIn(g) \subseteq NumbersIn(f)
<1>1. Len(f) \in Nat /\ DOMAIN f = 1 .. Len(f)
    BY LenProperties DEF Entries
<1>2. CASE f = <<>>
    BY <1>2 DEF Past!LeftOf
<1>3. CASE f # <<>>
  <2>1. PICK i \in DOMAIN f : \/ g = SubSeq(f, i + 1, Len(f))
                              \/ g = <<Past!Torn>> \o SubSeq(f, i + 1, Len(f))
      BY <1>3 DEF Past!LeftOf
  <2> DEFINE s == SubSeq(f, i + 1, Len(f))
             t == <<Past!Torn>>
  <2>2. i + 1 \in 1 .. Len(f) + 1 /\ Len(f) \in 0 .. Len(f)
      BY <1>1
  <2>3. Entries(s) /\ NumbersIn(s) \subseteq NumbersIn(f)
      BY <2>2, SegmentEntries
  <2>4. Entries(t) /\ NumbersIn(t) = {}
    <3>1. DOMAIN t = {1} /\ t[1] = Past!Torn /\ Past!Torn.n = 0
        BY DEF Past!Torn
    <3>2. t \in Seq(LogLine)
        BY DEF LogLine
    <3> HIDE DEF t
    <3> QED BY <3>1, <3>2 DEF Entries, NumbersIn
  <2>5. g = s \/ g = t \o s
      BY <2>1
  <2> HIDE DEF s, t
  <2>6. NumbersIn(t) \cap NumbersIn(s) = {}
      BY <2>4
  <2>7. Entries(t \o s) /\ NumbersIn(t \o s) \subseteq NumbersIn(t) \cup NumbersIn(s)
      BY <2>3, <2>4, <2>6, JoinedEntries
  <2> QED BY <2>3, <2>4, <2>5, <2>7
<1> QED BY <1>2, <1>3

-----------------------------------------------------------------------------
(* What the steps do to the places.                                        *)
LEMMA AddEntry ==
  ASSUME NEW n \in Nat, NEW b, NEW f, NEW w, InOnePlace(b, f, w), NoneAbove(n, b, f, w),
         NEW e \in LogLine, e.n = n + 1
  PROVE  InOnePlace(Append(b, e), f, w) /\ NoneAbove(n + 1, Append(b, e), f, w)
<1>1. \A s \in {b, f} \cup w : e.n \notin NumbersIn(s)
    BY DEF NoneAbove
<1>2. Entries(Append(b, e)) /\ NumbersIn(Append(b, e)) = NumbersIn(b) \cup ({e.n} \ {0})
    BY <1>1, EntryAppended DEF InOnePlace
<1>3. InOnePlace(Append(b, e), f, w)
    BY <1>1, <1>2 DEF InOnePlace
<1>4. \A s \in {b, f} \cup w : \A k \in NumbersIn(s) : k \in Nat
  <2>1. ASSUME NEW s \in {b, f} \cup w, NEW k \in DOMAIN s
        PROVE  s[k].n \in Nat
    <3>1. s \in Seq(LogLine)
        BY DEF InOnePlace, Entries
    <3>2. s[k] \in LogLine
        BY <3>1, ElementOfSeq, LenProperties
    <3> QED BY <3>2, LineNumber
  <2> QED BY <2>1 DEF NumbersIn
<1>5. \A s \in {b, f} \cup w : \A k \in NumbersIn(s) : k <= n + 1
    BY <1>4 DEF NoneAbove
<1>6. NoneAbove(n + 1, Append(b, e), f, w)
  <2>1. e.n <= n + 1
      OBVIOUS
  <2> QED BY <1>2, <1>5, <2>1 DEF NoneAbove
<1> QED BY <1>3, <1>6

LEMMA TakeEntries ==
  ASSUME NEW n \in Nat, NEW b, NEW f, NEW w, InOnePlace(b, f, w), NoneAbove(n, b, f, w),
         b # <<>>
  PROVE  InOnePlace(<<>>, f, w \cup {b}) /\ NoneAbove(n, <<>>, f, w \cup {b})
<1>1. Entries(<<>>) /\ NumbersIn(<<>>) = {}
    BY EmptySeq DEF Entries, NumbersIn
<1>2. InOnePlace(<<>>, f, w \cup {b})
    BY <1>1 DEF InOnePlace
<1>3. NoneAbove(n, <<>>, f, w \cup {b})
    BY <1>1 DEF NoneAbove
<1> QED BY <1>2, <1>3

LEMMA WriteEntries ==
  ASSUME NEW n \in Nat, NEW b, NEW f, NEW w, InOnePlace(b, f, w), NoneAbove(n, b, f, w),
         NEW s \in w, NEW x, x = (w \ {s}) \cup (IF Len(s) = 1 THEN {} ELSE {Tail(s)})
  PROVE  InOnePlace(b, Append(f, Head(s)), x) /\ NoneAbove(n, b, Append(f, Head(s)), x)
<1> DEFINE e == Head(s)
           g == Append(f, e)
<1>1. /\ e \in LogLine /\ Entries(Tail(s)) /\ NumbersIn(s) = NumbersIn(Tail(s)) \cup ({e.n} \ {0})
      /\ e.n \notin NumbersIn(Tail(s)) /\ (Len(s) # 1 => Tail(s) # <<>>)
    BY EntryTaken DEF InOnePlace
<1>2. e.n \notin NumbersIn(f) /\ e.n \notin NumbersIn(b)
  <2>1. 0 \notin NumbersIn(f) /\ 0 \notin NumbersIn(b)
      BY DEF NumbersIn
  <2> QED BY <1>1, <2>1 DEF InOnePlace
<1>3. Entries(g) /\ NumbersIn(g) = NumbersIn(f) \cup ({e.n} \ {0})
    BY <1>1, <1>2, EntryAppended DEF InOnePlace
<1> HIDE DEF e, g
<1>4. \A t \in x : (t \in w /\ t # s) \/ (t = Tail(s) /\ t # <<>>)
    BY <1>1
<1>5. \A t \in w : t # s => NumbersIn(t) \cap NumbersIn(s) = {}
    BY DEF InOnePlace
<1>6. \A t \in x : /\ Entries(t) /\ t # <<>>
                   /\ NumbersIn(t) \cap NumbersIn(b) = {}
                   /\ NumbersIn(t) \cap NumbersIn(g) = {}
  <2>1. ASSUME NEW t \in w, t # s PROVE NumbersIn(t) \cap NumbersIn(g) = {}
      BY <1>1, <1>3, <1>5, <2>1 DEF InOnePlace
  <2>2. NumbersIn(Tail(s)) \cap NumbersIn(g) = {}
    <3>1. NumbersIn(s) \cap NumbersIn(f) = {}
        BY DEF InOnePlace
    <3> QED BY <1>1, <1>3, <3>1
  <2>3. NumbersIn(Tail(s)) \cap NumbersIn(b) = {}
    <3>1. NumbersIn(s) \cap NumbersIn(b) = {}
        BY DEF InOnePlace
    <3> QED BY <1>1, <3>1
  <2>4. \A t \in w : Entries(t) /\ t # <<>> /\ NumbersIn(t) \cap NumbersIn(b) = {}
      BY DEF InOnePlace
  <2> QED BY <1>1, <1>4, <2>1, <2>2, <2>3, <2>4
<1>7. \A t, u \in x : t # u => NumbersIn(t) \cap NumbersIn(u) = {}
    BY <1>1, <1>4, <1>5 DEF InOnePlace
<1>8. InOnePlace(b, g, x)
    BY <1>2, <1>3, <1>6, <1>7 DEF InOnePlace
<1>9. NoneAbove(n, b, g, x)
    BY <1>1, <1>3, <1>4 DEF NoneAbove
<1> QED BY <1>8, <1>9 DEF e, g

LEMMA CutFile ==
  ASSUME NEW n \in Nat, NEW b, NEW f, NEW w, InOnePlace(b, f, w), NoneAbove(n, b, f, w),
         NEW g, Entries(g), NumbersIn(g) \subseteq NumbersIn(f)
  PROVE  InOnePlace(b, g, w) /\ NoneAbove(n, b, g, w)
<1>1. InOnePlace(b, g, w)
    BY DEF InOnePlace
<1>2. NoneAbove(n, b, g, w)
    BY DEF NoneAbove
<1> QED BY <1>1, <1>2

\* A goroutine at work touches neither the entries RemoveLast has set aside ...
LEMMA WriteBeside ==
  ASSUME NEW n \in Nat, NEW r, NEW b, NEW f, NEW w, SetAside(n, r, b, f, w),
         InOnePlace(b, f, w), NEW s \in w, NEW x,
         x = (w \ {s}) \cup (IF Len(s) = 1 THEN {} ELSE {Tail(s)})
  PROVE  SetAside(n, r, b, Append(f, Head(s)), x)
<1>1. /\ Head(s) \in LogLine /\ Entries(Tail(s)) /\ (Len(s) # 1 => Tail(s) # <<>>)
      /\ NumbersIn(s) = NumbersIn(Tail(s)) \cup ({Head(s).n} \ {0})
      /\ Head(s).n \notin NumbersIn(Tail(s))
    BY EntryTaken DEF InOnePlace
<1>2. 0 \notin NumbersIn(f) /\ Head(s).n \notin NumbersIn(f)
    BY <1>1 DEF InOnePlace, NumbersIn
<1>3. NumbersIn(Append(f, Head(s))) = NumbersIn(f) \cup ({Head(s).n} \ {0})
    BY <1>1, <1>2, EntryAppended DEF InOnePlace
<1>4. NumbersIn(r) \cap NumbersIn(Append(f, Head(s))) = {}
    BY <1>1, <1>3 DEF SetAside, InOnePlace
<1>5. \A t \in x : (t \in w /\ t # s) \/ (t = Tail(s) /\ t # <<>>)
    BY <1>1
<1>6. \A t \in x : NumbersIn(t) \cap NumbersIn(r) = {} /\ NumbersIn(t) \cap NumbersIn(b) = {}
    BY <1>1, <1>5 DEF SetAside, InOnePlace
<1>7. InOnePlace(b, r, x)
  <2>1. \A t \in x : Entries(t) /\ t # <<>>
      BY <1>1, <1>5 DEF SetAside, InOnePlace
  <2>2. \A t \in w : t # s => NumbersIn(t) \cap NumbersIn(s) = {}
      BY DEF InOnePlace
  <2>3. \A t, u \in w : t # u => NumbersIn(t) \cap NumbersIn(u) = {}
      BY DEF InOnePlace
  <2>4. \A t, u \in x : t # u => NumbersIn(t) \cap NumbersIn(u) = {}
      BY <1>1, <1>5, <2>2, <2>3
  <2> QED BY <1>6, <2>1, <2>4 DEF SetAside, InOnePlace
<1>8. NoneAbove(n, b, r, x)
    BY <1>1, <1>5 DEF SetAside, NoneAbove
<1> QED BY <1>4, <1>7, <1>8 DEF SetAside

\* ... nor do they clash with what is left of the file when they come back.
LEMMA PutBack ==
  ASSUME NEW n \in Nat, NEW r, NEW b, NEW f, NEW w, SetAside(n, r, b, f, w),
         InOnePlace(b, f, w), NoneAbove(n, b, f, w), r # <<>>, NEW g \in Past!LeftOf(f),
         NEW h, h = SubSeq(r, 1, Len(r) - 1) \o g
  PROVE  InOnePlace(b, h, w) /\ NoneAbove(n, b, h, w)
<1> DEFINE k == SubSeq(r, 1, Len(r) - 1)
<1>1. Entries(r) /\ Entries(f)
    BY DEF SetAside, InOnePlace
<1>2. 1 \in 1 .. Len(r) + 1 /\ Len(r) - 1 \in 0 .. Len(r)
  <2>1. Len(r) \in Nat \ {0}
      BY <1>1, LenProperties, EmptySeq DEF Entries
  <2> QED BY <2>1
<1>3. Entries(k) /\ NumbersIn(k) \subseteq NumbersIn(r)
    BY <1>1, <1>2, SegmentEntries
<1>4. Entries(g) /\ NumbersIn(g) \subseteq NumbersIn(f)
    BY <1>1, LeftEntries
<1> HIDE DEF k
<1>5. NumbersIn(k) \cap NumbersIn(g) = {}
    BY <1>3, <1>4 DEF SetAside
<1>6. Entries(k \o g) /\ NumbersIn(k \o g) \subseteq NumbersIn(k) \cup NumbersIn(g)
    BY <1>3, <1>4, <1>5, JoinedEntries
<1>7. Entries(h) /\ NumbersIn(h) \subseteq NumbersIn(r) \cup NumbersIn(f)
    BY <1>3, <1>4, <1>6 DEF k
<1>8. InOnePlace(b, h, w)
    BY <1>7 DEF SetAside, InOnePlace
<1>9. NoneAbove(n, b, h, w)
    BY <1>7 DEF SetAside, NoneAbove
<1> QED BY <1>8, <1>9

\* The places of the next state.
LEMMA PlacesNext ==
  /\ InOnePlace(buffer, log, writing)' <=> InOnePlace(buffer', log', writing')
  /\ NoneAbove(added, buffer, log, writing)' <=> NoneAbove(added', buffer', log', writing')
  /\ Begins(readBack, log)' <=> Begins(readBack', log')
  /\ SetAside(added, readBack, buffer, log, writing)'
       <=> SetAside(added', readBack', buffer', log', writing')
  BY DEF InOnePlace, NoneAbove, Begins, Entries, NumbersIn, SetAside

LEMMA PastCorrect ==
  ASSUME PastInv, Past!Next \/ UNCHANGED pastVars
  PROVE  PastInv'
<1> USE DEF Past!LockFree
<1>1. CASE UNCHANGED pastVars
    BY <1>1, PlacesNext DEF pastVars, PastInv
<1>2. CASE Past!Add
  <2>1. PICK p \in Projects, d \in Displays :
          buffer' = Append(buffer, [n |-> added', project |-> p, display |-> d])
      BY <1>2 DEF Past!Add
  <2>2. /\ added' = added + 1 /\ added' \in Nat /\ remover = "idle"
        /\ UNCHANGED <<log, writing, remover, readBack>>
      BY <1>2 DEF Past!Add, PastInv
  <2> DEFINE e == [n |-> added', project |-> p, display |-> d]
  <2>3. e \in LogLine /\ e.n = added + 1
      BY <2>2 DEF Entry, LogLine
  <2> HIDE DEF e
  <2>4. buffer' = Append(buffer, e)
      BY <2>1 DEF e
  <2>5. InOnePlace(buffer', log, writing) /\ NoneAbove(added + 1, buffer', log, writing)
      BY <2>3, <2>4, AddEntry DEF PastInv
  <2> QED BY <2>2, <2>5, PlacesNext DEF PastInv
<1>3. CASE Past!TakeBuffer
  <2>1. /\ remover = "idle" /\ buffer' = <<>> /\ UNCHANGED <<log, remover, readBack, added>>
        /\ writing' = IF buffer = <<>> THEN writing ELSE writing \cup {buffer}
      BY <1>3 DEF Past!TakeBuffer
  <2>2. CASE buffer = <<>>
      BY <2>1, <2>2, PlacesNext DEF PastInv
  <2>3. CASE buffer # <<>>
    <3>1. InOnePlace(<<>>, log, writing \cup {buffer})
          /\ NoneAbove(added, <<>>, log, writing \cup {buffer})
        BY <2>3, TakeEntries DEF PastInv
    <3> QED BY <2>1, <2>3, <3>1, PlacesNext DEF PastInv
  <2> QED BY <2>2, <2>3
<1>4. ASSUME NEW s \in writing, Past!WriteEntry(s)
      PROVE  PastInv'
  <2>1. /\ log' = Append(log, Head(s)) /\ UNCHANGED <<buffer, remover, readBack, added>>
        /\ writing' = (writing \ {s}) \cup (IF Len(s) = 1 THEN {} ELSE {Tail(s)})
      BY <1>4 DEF Past!WriteEntry
  <2>2. InOnePlace(buffer, log', writing') /\ NoneAbove(added, buffer, log', writing')
      BY <2>1, WriteEntries DEF PastInv
  <2>3. ASSUME remover = "holds"
        PROVE  Begins(readBack, log')
    <3>1. Head(s) \in LogLine /\ log \in Seq(LogLine)
        BY EntryTaken DEF PastInv, InOnePlace, Entries
    <3>2. Len(log') = Len(log) + 1 /\ \A k \in 1 .. Len(log) : log'[k] = log[k]
        BY <2>1, <3>1, AppendProperties
    <3>3. readBack \in Seq(LogLine) /\ Begins(readBack, log)
        BY <2>3 DEF PastInv
    <3>4. Len(log) \in Nat /\ Len(readBack) \in Nat
        BY <3>1, <3>3, LenProperties
    <3>5. Len(readBack) <= Len(log') /\ \A k \in 1 .. Len(readBack) : k \in 1 .. Len(log)
        BY <3>2, <3>3, <3>4 DEF Begins
    <3> QED BY <3>2, <3>3, <3>5 DEF Begins
  <2>4. ASSUME remover = "truncated"
        PROVE  SetAside(added, readBack, buffer, log', writing')
      BY <2>1, <2>4, WriteBeside DEF PastInv
  <2> QED BY <2>1, <2>2, <2>3, <2>4, PlacesNext DEF PastInv
<1>5. ASSUME NEW s \in writing, Past!FlushFails(s)
      PROVE  PastInv'
  <2>1. UNCHANGED <<buffer, log, remover, readBack, added>> /\ writing' = writing \ {s}
      BY <1>5 DEF Past!FlushFails
  <2>2. InOnePlace(buffer, log, writing') /\ NoneAbove(added, buffer, log, writing')
      BY <2>1 DEF PastInv, InOnePlace, NoneAbove
  <2>3. ASSUME remover = "truncated"
        PROVE  SetAside(added, readBack, buffer, log, writing')
      BY <2>1, <2>3 DEF PastInv, SetAside, InOnePlace, NoneAbove
  <2> QED BY <2>1, <2>2, <2>3, PlacesNext DEF PastInv
<1>6. CASE Past!RemoveLastReads
  <2>1. /\ log # <<>> /\ remover' = "holds" /\ readBack' = log
        /\ UNCHANGED <<buffer, log, writing, added>>
      BY <1>6 DEF Past!RemoveLastReads
  <2>2. log \in Seq(LogLine) /\ Len(log) \in Nat
      BY LenProperties DEF PastInv, InOnePlace, Entries
  <2>3. Begins(log, log)
      BY <2>2 DEF Begins
  <2> QED BY <2>1, <2>2, <2>3, PlacesNext DEF PastInv
<1>7. CASE Past!RemoveLastFails
  <2>1. remover' = "idle" /\ UNCHANGED <<buffer, log, writing, added>>
      BY <1>7 DEF Past!RemoveLastFails
  <2> QED BY <2>1, PlacesNext DEF PastInv
<1>8. CASE Past!RemoveLastTruncates
  <2>1. /\ remover = "holds" /\ remover' = "truncated" /\ log' = <<>>
        /\ UNCHANGED <<buffer, writing, readBack, added>>
      BY <1>8 DEF Past!RemoveLastTruncates
  <2>2. Entries(<<>>) /\ NumbersIn(<<>>) = {}
      BY EmptySeq DEF Entries, NumbersIn
  <2>3. readBack \in Seq(LogLine) /\ readBack # <<>> /\ Begins(readBack, log)
      BY <2>1 DEF PastInv
  <2>4. Entries(readBack) /\ NumbersIn(readBack) \subseteq NumbersIn(log)
      BY <2>3, PrefixEntries DEF PastInv, InOnePlace
  <2>5. InOnePlace(buffer, readBack, writing) /\ NoneAbove(added, buffer, readBack, writing)
      BY <2>4, CutFile DEF PastInv
  <2>6. InOnePlace(buffer, <<>>, writing) /\ NoneAbove(added, buffer, <<>>, writing)
      BY <2>2, CutFile DEF PastInv
  <2>7. SetAside(added, readBack, buffer, <<>>, writing)
      BY <2>2, <2>5 DEF SetAside
  <2> QED BY <2>1, <2>3, <2>6, <2>7, PlacesNext DEF PastInv
<1>9. CASE Past!RemoveLastWrites
  <2>1. /\ remover = "truncated" /\ remover' = "idle" /\ UNCHANGED <<buffer, writing, added>>
        /\ \/ UNCHANGED log
           \/ \E rest \in Past!LeftOf(log) :
                log' = SubSeq(readBack, 1, Len(readBack) - 1) \o rest
      BY <1>9 DEF Past!RemoveLastWrites
  <2>2. InOnePlace(buffer, log', writing) /\ NoneAbove(added, buffer, log', writing)
    <3>1. CASE UNCHANGED log
        BY <3>1 DEF PastInv
    <3>2. ASSUME NEW rest \in Past!LeftOf(log),
                 log' = SubSeq(readBack, 1, Len(readBack) - 1) \o rest
          PROVE  InOnePlace(buffer, log', writing) /\ NoneAbove(added, buffer, log', writing)
        BY <2>1, <3>2, PutBack DEF PastInv
    <3> QED BY <2>1, <3>1, <3>2
  <2> QED BY <2>1, <2>2, PlacesNext DEF PastInv
<1> QED
  BY <1>1, <1>2, <1>3, <1>4, <1>5, <1>6, <1>7, <1>8, <1>9 DEF Past!Next

\* The invariant says what EntriesOnce does.
LEMMA PastMeans == PastInv => Past!EntriesOnce
<1> SUFFICES ASSUME PastInv PROVE Past!EntriesOnce
    OBVIOUS
<1> DEFINE Positions(s) == {k \in DOMAIN s : Past!IsEntry(s[k])}
           Numbers(s) == {s[k].n : k \in Positions(s)}
<1>1. \A s : Numbers(s) = NumbersIn(s)
    BY DEF NumbersIn, Past!IsEntry
<1>2. \A s \in {buffer, log} \cup writing : Entries(s)
    BY DEF PastInv, InOnePlace
<1>3. \A s \in {buffer, log} \cup writing :
        \A i, j \in Positions(s) : s[i].n = s[j].n => i = j
    BY <1>2 DEF Entries, Past!IsEntry
<1>4. /\ Numbers(buffer) \cap Numbers(log) = {}
      /\ \A s \in writing : Numbers(s) \cap (Numbers(buffer) \cup Numbers(log)) = {}
      /\ \A s, t \in writing : s # t => Numbers(s) \cap Numbers(t) = {}
  <2> HIDE DEF Numbers
  <2> QED BY <1>1 DEF PastInv, InOnePlace
<1> QED BY <1>3, <1>4 DEF Past!EntriesOnce

-----------------------------------------------------------------------------
\* Of the proofs about RunLoop the lemmas about numbers and sums are used here.
LoopProofs == INSTANCE RunLoopProofs WITH pc <- loopPc, ctxDone <- runDone,
                                          Costs <- ResponseCosts

-----------------------------------------------------------------------------
LEMMA LimitStep == [Next]_vars => Limits!Next \/ UNCHANGED limitVars
<1>1. \A s : Only(s) /\ s # "limits" => UNCHANGED limitVars
    BY DEF Only
<1> QED BY <1>1 DEF Next, vars

(***************************************************************************)
(* RateLimit                                                               *)
(***************************************************************************)
Statuses == {"allowed", "allowed_warning", "rejected"}
Info == [used : Nat, status : Statuses]
Told(s, status) == Cardinality({i \in DOMAIN s : s[i] = status})

\* The callers that have still to tell a change to that status.
Telling(status) ==
  {c \in Callers : /\ parserAt[c] = "callback"
                   /\ prev[c].status # next[c].status /\ next[c].status = status}

LimitTypes ==
  /\ current \in Info
  /\ parserAt \in [Callers -> {"idle", "callback"}]
  /\ prev \in [Callers -> Info] /\ next \in [Callers -> Info]
  /\ changes \in Seq(Statuses) /\ events \in Seq(Statuses)

LimitInv ==
  /\ LimitTypes
  /\ \A s \in Statuses : Told(changes, s) = Told(events, s) + Cardinality(Telling(s))
  /\ Limits!RejectedWindowWins

LEMMA LimitsMean == LimitInv => Limits!ChangesReported /\ Limits!RejectedWindowWins
<1> SUFFICES ASSUME LimitInv PROVE Limits!ChangesReported
    BY DEF LimitInv
<1>1. \A S : Limits!Cardinality(S) = Cardinality(S)
    BY DEF Limits!Cardinality, Cardinality
<1>2. ASSUME NEW s \in Statuses
      PROVE  {c \in {c \in Callers : parserAt[c] = "callback" /\ prev[c].status # next[c].status} :
                next[c].status = s} = Telling(s)
    BY DEF Telling
<1> QED BY <1>1, <1>2 DEF LimitInv, Limits!ChangesReported, Statuses, Told

LEMMA ToldCounts ==
  ASSUME NEW q \in Seq(Statuses), NEW s
  PROVE  /\ Told(q, s) \in Nat
         /\ \A e \in Statuses : /\ Append(q, e) \in Seq(Statuses)
                                /\ e = s => Told(Append(q, e), s) = Told(q, s) + 1
                                /\ e # s => Told(Append(q, e), s) = Told(q, s)
<1> DEFINE T == {i \in DOMAIN q : q[i] = s}
<1>1. DOMAIN q = 1 .. Len(q) /\ Len(q) \in Nat
    BY LenProperties
<1>2. IsFiniteSet(T) /\ Cardinality(T) \in Nat
  <2>1. IsFiniteSet(1 .. Len(q)) /\ T \subseteq 1 .. Len(q)
      BY <1>1, FS_Interval
  <2> HIDE DEF T
  <2> QED BY <2>1, FS_Subset, FS_CardinalityType
<1>3. ASSUME NEW e \in Statuses
      PROVE  /\ Append(q, e) \in Seq(Statuses)
             /\ e = s => Told(Append(q, e), s) = Told(q, s) + 1
             /\ e # s => Told(Append(q, e), s) = Told(q, s)
  <2> DEFINE g == Append(q, e)
  <2>1. /\ g \in Seq(Statuses) /\ Len(g) = Len(q) + 1 /\ g[Len(q) + 1] = e
        /\ \A k \in 1 .. Len(q) : g[k] = q[k]
      BY AppendProperties
  <2> HIDE DEF g
  <2>2. DOMAIN g = 1 .. Len(q) + 1
      BY <2>1, LenProperties
  <2> DEFINE U == {i \in DOMAIN g : g[i] = s}
  <2>3. Len(q) + 1 \notin T
      BY <1>1
  <2>4. e = s => U = T \cup {Len(q) + 1}
      BY <1>1, <2>1, <2>2
  <2>5. e # s => U = T
      BY <1>1, <2>1, <2>2
  <2> HIDE DEF T, U
  <2>6. Cardinality(T \cup {Len(q) + 1}) = Cardinality(T) + 1
      BY <1>2, <2>3, FS_AddElement
  <2>7. Told(g, s) = Cardinality(U) /\ Told(q, s) = Cardinality(T)
      BY DEF Told, U, T
  <2> QED BY <2>1, <2>4, <2>5, <2>6, <2>7 DEF g
<1> QED BY <1>2, <1>3 DEF Told

LEMMA LimitInit == Init => LimitInv
<1> SUFFICES ASSUME Init PROVE LimitInv
    OBVIOUS
<1>1. Limits!Init
    BY DEF Init
<1>2. <<>> \in Seq(Statuses)
    BY EmptySeq
<1>3. LimitTypes
    BY <1>1, <1>2 DEF Limits!Init, LimitTypes, Info, Statuses
<1>4. ASSUME NEW s \in Statuses
      PROVE  Told(changes, s) = Told(events, s) + Cardinality(Telling(s))
  <2>1. Telling(s) = {} /\ changes = events
      BY <1>1 DEF Limits!Init, Telling
  <2>2. events \in Seq(Statuses)
      BY <1>3 DEF LimitTypes
  <2>3. Told(events, s) \in Nat
      BY <2>2, ToldCounts
  <2> QED BY <2>1, <2>3, FS_EmptySet
<1>5. Limits!RejectedWindowWins
    BY <1>1 DEF Limits!Init, Limits!RejectedWindowWins
<1> QED BY <1>3, <1>4, <1>5 DEF LimitInv

-----------------------------------------------------------------------------
Given(h) == {i \in 1 .. Windows : h[i] # Limits!Absent}

\* What the loop has found among the first n windows: nothing when none was
\* given, and else a given one, which is rejected if any is.
Finds(m, h, n) ==
  \/ m = Limits!None /\ \A i \in Given(h) : i > n
  \/ \E i \in Given(h) :
       /\ i <= n /\ m = Limits!parseWindow(h[i])
       /\ (\A j \in Given(h) : h[j].limit > 0) =>
            \A j \in Given(h) : j <= n /\ h[j].remaining <= 0 => m.status = "rejected"

LEMMA ParsedWindow ==
  ASSUME NEW h \in Limits!Headers, h # Limits!Absent
  PROVE  /\ Limits!parseWindow(h) \in Info /\ Limits!parseWindow(h) # Limits!None
         /\ Limits!parseWindow(h).status = "rejected" <=> h.remaining <= 0
         /\ h.limit > 0 => /\ Limits!parseWindow(h).used <= 10
                           /\ h.remaining <= 0 => Limits!parseWindow(h).used = 10
         /\ ~(h.limit > 0) <=> h.limit = 0
         /\ ~(h.remaining > 0) <=> h.remaining <= 0
  BY DEF Limits!Headers, Limits!Absent, Limits!parseWindow, Limits!None, Info, Statuses

Keeps(h, n, m) ==
  \/ h[n] = Limits!Absent
  \/ m # Limits!None /\ ~Limits!moreConstrained(Limits!parseWindow(h[n]), m)

LEMMA FindsNext ==
  ASSUME NEW h \in [1 .. Windows -> Limits!Headers], NEW n \in 0 .. Windows, n < Windows,
         NEW m, Finds(m, h, n)
  PROVE  Finds(IF Keeps(h, n + 1, m) THEN m ELSE Limits!parseWindow(h[n + 1]), h, n + 1)
<1> DEFINE w == Limits!parseWindow(h[n + 1])
<1>1. n + 1 \in 1 .. Windows /\ Windows \in Nat /\ h[n + 1] \in Limits!Headers
    BY TrackerAssumption
<1>2. \A i \in Given(h) : (i <= n + 1 <=> i <= n \/ i = n + 1) /\ (i > n => i = n + 1 \/ i > n + 1)
    BY TrackerAssumption DEF Given
<1>3. \A i \in Given(h) : h[i] \in Limits!Headers /\ h[i] # Limits!Absent
    BY DEF Given
<1>4. CASE h[n + 1] = Limits!Absent
  <2>1. n + 1 \notin Given(h)
      BY <1>4 DEF Given
  <2> QED BY <1>2, <1>4, <2>1 DEF Finds, Keeps
<1>5. CASE h[n + 1] # Limits!Absent /\ m = Limits!None
  <2>1. n + 1 \in Given(h) /\ ~Keeps(h, n + 1, m)
      BY <1>1, <1>5 DEF Given, Keeps
  <2>2. \A i \in Given(h) : i <= n + 1 => i = n + 1
    <3>1. \A i \in Given(h) : h[i] \in Limits!Headers /\ Limits!parseWindow(h[i]) # Limits!None
        BY <1>3, ParsedWindow
    <3>2. \A i \in Given(h) : i > n
        BY <1>5, <3>1 DEF Finds
    <3> QED BY <1>1, <1>2, <3>2 DEF Given
  <2>3. h[n + 1].remaining <= 0 => w.status = "rejected"
      BY <1>1, <1>5, ParsedWindow
  <2> HIDE DEF w
  <2>4. Finds(w, h, n + 1)
      BY <1>1, <2>1, <2>2, <2>3 DEF Finds, w
  <2> QED BY <2>1, <2>4 DEF w
<1>6. CASE h[n + 1] # Limits!Absent /\ m # Limits!None
  <2>1. n + 1 \in Given(h)
      BY <1>1, <1>6 DEF Given
  <2>2. PICK i \in Given(h) :
           /\ i <= n /\ m = Limits!parseWindow(h[i])
           /\ (\A j \in Given(h) : h[j].limit > 0) =>
                \A j \in Given(h) : j <= n /\ h[j].remaining <= 0 => m.status = "rejected"
      BY <1>6 DEF Finds
  <2>3. /\ m \in Info /\ w \in Info
        /\ w.status = "rejected" <=> h[n + 1].remaining <= 0
        /\ h[n + 1].limit > 0 => w.used <= 10
        /\ m.status = "rejected" /\ h[i].limit > 0 => m.used = 10
      BY <1>1, <1>3, <1>6, <2>2, ParsedWindow
  <2> HIDE DEF w
  <2>4. CASE Keeps(h, n + 1, m)
    <3>1. h[n + 1].remaining <= 0 => m.status = "rejected"
        BY <1>6, <2>3, <2>4 DEF Keeps, Limits!moreConstrained, w
    <3>2. Finds(m, h, n + 1)
        BY <1>2, <2>2, <3>1 DEF Finds
    <3> QED BY <2>4, <3>2
  <2>5. CASE ~Keeps(h, n + 1, m)
    <3>1. ASSUME \A j \in Given(h) : h[j].limit > 0, NEW j \in Given(h), j <= n + 1,
                 h[j].remaining <= 0
          PROVE  w.status = "rejected"
      <4>1. CASE j = n + 1
          BY <2>3, <3>1, <4>1
      <4>2. CASE j <= n
        <5>1. /\ m.status = "rejected" /\ m.used = 10 /\ w.used <= 10
              /\ m.used \in Nat /\ w.used \in Nat
            BY <2>1, <2>2, <2>3, <3>1, <4>2 DEF Info
        <5>2. ~(w.used > m.used)
            BY <5>1
        <5> QED BY <1>6, <2>5, <5>1, <5>2 DEF Keeps, Limits!moreConstrained, w
      <4> QED BY <1>2, <3>1, <4>1, <4>2
    <3>2. Finds(w, h, n + 1)
        BY <1>2, <2>1, <3>1 DEF Finds, w
    <3> QED BY <2>5, <3>2 DEF w
  <2> QED BY <2>4, <2>5
<1> QED BY <1>4, <1>5, <1>6

\* The loop has looked at them all.
LEMMA MostFound ==
  ASSUME NEW h \in [1 .. Windows -> Limits!Headers]
  PROVE  Finds(Limits!MostConstrained(h), h, Windows)
<1> DEFINE Y == Info \cup {Limits!None}
           take == [p \in (1 .. Windows) \X Y |->
                      IF Keeps(h, p[1], p[2]) THEN p[2] ELSE Limits!parseWindow(h[p[1]])]
           Recurs(g) == g = [n \in 0 .. Windows |->
                               IF n = 0 THEN Limits!None
                               ELSE IF Keeps(h, n, g[n - 1]) THEN g[n - 1]
                                    ELSE Limits!parseWindow(h[n])]
           most == CHOOSE g : Recurs(g)
<1>1. Windows \in Nat
    BY TrackerAssumption
<1>2. take \in [(1 .. Windows) \X Y -> Y]
  <2>1. ASSUME NEW n \in 1 .. Windows, NEW y \in Y
        PROVE  ~Keeps(h, n, y) => Limits!parseWindow(h[n]) \in Info
      BY ParsedWindow DEF Keeps
  <2> QED BY <2>1
<1>3. \E g : Recurs(g)
  <2>0. Limits!None \in Y
      OBVIOUS
  <2> HIDE DEF take, Y
  <2>1. PICK g \in [0 .. Windows -> Y] : LoopProofs!Recursion(g, Limits!None, take, Windows)
      BY <1>1, <1>2, <2>0, LoopProofs!RecursionExists
  <2>2. \A n \in 0 .. Windows : n # 0 => n \in 1 .. Windows /\ n - 1 \in 0 .. Windows
      BY <1>1
  <2>3. \A n \in 0 .. Windows : n # 0 =>
           take[<<n, g[n - 1]>>] = IF Keeps(h, n, g[n - 1]) THEN g[n - 1]
                                   ELSE Limits!parseWindow(h[n])
      BY <2>2 DEF take
  <2>4. Recurs(g)
      BY <2>1, <2>3 DEF LoopProofs!Recursion
  <2> HIDE DEF Recurs
  <2> QED BY <2>4
<1>4. Recurs(most)
  <2> HIDE DEF Recurs
  <2> QED BY <1>3
<1>5. Limits!MostConstrained(h) = most[Windows]
    BY DEF Limits!MostConstrained, Keeps
<1> HIDE DEF most
<1> DEFINE P == {n \in 0 .. Windows : Finds(most[n], h, n)}
<1>6. 0 \in P
  <2>1. most[0] = Limits!None
      BY <1>1, <1>4
  <2> QED BY <1>1, <2>1 DEF Finds, Given
<1>7. ASSUME NEW n \in P, n < Windows PROVE n + 1 \in P
  <2>1. n + 1 \in 0 .. Windows /\ n + 1 # 0 /\ (n + 1) - 1 = n
      BY <1>1, <1>7
  <2>2. most[n + 1] = IF Keeps(h, n + 1, most[n]) THEN most[n] ELSE Limits!parseWindow(h[n + 1])
      BY <1>4, <2>1
  <2> QED BY <1>7, <2>1, <2>2, FindsNext
<1>8. Windows \in P
  <2>1. P \in SUBSET (0 .. Windows)
      OBVIOUS
  <2> HIDE DEF P
  <2> QED BY <1>1, <1>6, <1>7, <2>1, LoopProofs!UpTo
<1> QED BY <1>5, <1>8

-----------------------------------------------------------------------------
\* A caller that has been added to, or taken from, those with a change to tell.
LEMMA TellingFinite ==
  \A s : IsFiniteSet(Telling(s)) /\ Cardinality(Telling(s)) \in Nat
<1>1. \A s : Telling(s) \subseteq Callers
    BY DEF Telling
<1> QED BY <1>1, TrackerAssumption, FS_Subset, FS_CardinalityType

LEMMA ParseCorrect ==
  ASSUME LimitInv, NEW c \in Callers, Limits!ParseHeaders(c)
  PROVE  LimitInv'
<1>1. PICK h \in [1 .. Windows -> Limits!Headers] :
        LET given == {i \in 1 .. Windows : h[i] # Limits!Absent}
            most  == Limits!MostConstrained(h)
        IN IF most = Limits!None
           THEN UNCHANGED <<current, parserAt, prev, next, changes, worst>>
           ELSE /\ current' = most
                /\ prev' = [prev EXCEPT ![c] = current]
                /\ next' = [next EXCEPT ![c] = most]
                /\ parserAt' = [parserAt EXCEPT ![c] = "callback"]
                /\ changes' = IF current.status = most.status THEN changes
                              ELSE Append(changes, most.status)
                /\ worst' = CASE \E i \in given : h[i].limit = 0 -> "unclear"
                              [] \A i \in given : h[i].limit > 0
                                   /\ h[i].remaining > 0             -> "some left"
                              [] OTHER                             -> "rejected"
    BY DEF Limits!ParseHeaders
<1>2. parserAt[c] = "idle" /\ events' = events
    BY DEF Limits!ParseHeaders
<1> DEFINE most == Limits!MostConstrained(h)
<1>3. Finds(most, h, Windows)
    BY MostFound
<1> HIDE DEF most
<1>4. CASE most = Limits!None
  <2>1. UNCHANGED <<current, parserAt, prev, next, changes, worst, events>>
      BY <1>1, <1>2, <1>4 DEF most
  <2> QED BY <2>1 DEF LimitInv, LimitTypes, Told, Telling, Limits!RejectedWindowWins
<1>5. CASE most # Limits!None
  <2>1. /\ current' = most
        /\ prev' = [prev EXCEPT ![c] = current]
        /\ next' = [next EXCEPT ![c] = most]
        /\ parserAt' = [parserAt EXCEPT ![c] = "callback"]
        /\ current.status = most.status => changes' = changes
        /\ current.status # most.status => changes' = Append(changes, most.status)
        /\ worst' = CASE \E i \in Given(h) : h[i].limit = 0 -> "unclear"
                      [] \A i \in Given(h) : h[i].limit > 0 /\ h[i].remaining > 0 -> "some left"
                      [] OTHER -> "rejected"
      BY <1>1, <1>5 DEF most, Given
  <2>2. PICK i \in Given(h) :
           /\ most = Limits!parseWindow(h[i])
           /\ (\A j \in Given(h) : h[j].limit > 0) =>
                \A j \in Given(h) : j <= Windows /\ h[j].remaining <= 0 => most.status = "rejected"
      BY <1>3, <1>5 DEF Finds
  <2>3. \A j \in Given(h) : /\ h[j] \in Limits!Headers /\ h[j] # Limits!Absent
                            /\ ~(h[j].limit > 0) <=> h[j].limit = 0
                            /\ ~(h[j].remaining > 0) <=> h[j].remaining <= 0
                            /\ j <= Windows
      BY TrackerAssumption, ParsedWindow DEF Given
  <2>4. most \in Info /\ (most.status = "rejected" <=> h[i].remaining <= 0)
      BY <2>2, <2>3, ParsedWindow
  <2>5. Limits!RejectedWindowWins'
    <3>1. CASE \E j \in Given(h) : h[j].limit = 0
      <4>1. ~\A j \in Given(h) : h[j].limit > 0 /\ h[j].remaining > 0
          BY <2>3, <3>1
      <4>2. worst' = "unclear"
          BY <2>1, <3>1, <4>1
      <4> QED BY <4>2 DEF Limits!RejectedWindowWins
    <3>2. CASE /\ ~\E j \in Given(h) : h[j].limit = 0
               /\ \A j \in Given(h) : h[j].limit > 0 /\ h[j].remaining > 0
      <4>1. worst' = "some left"
          BY <2>1, <3>2
      <4>2. most.status # "rejected"
          BY <2>3, <2>4, <3>2
      <4> QED BY <2>1, <4>1, <4>2 DEF Limits!RejectedWindowWins
    <3>3. CASE /\ ~\E j \in Given(h) : h[j].limit = 0
               /\ ~\A j \in Given(h) : h[j].limit > 0 /\ h[j].remaining > 0
      <4>1. worst' = "rejected"
          BY <2>1, <3>3
      <4>2. most.status = "rejected"
          BY <2>2, <2>3, <3>3
      <4> QED BY <2>1, <4>1, <4>2 DEF Limits!RejectedWindowWins
    <3> QED BY <3>1, <3>2, <3>3
  <2>6. /\ current \in Info /\ changes \in Seq(Statuses) /\ events \in Seq(Statuses)
        /\ most.status \in Statuses
      BY <2>4 DEF LimitInv, LimitTypes, Info
  <2>7. changes' \in Seq(Statuses)
    <3>1. CASE current.status = most.status
        BY <2>1, <2>6, <3>1
    <3>2. CASE current.status # most.status
        BY <2>1, <2>6, <3>2, ToldCounts
    <3> QED BY <3>1, <3>2
  <2>8. LimitTypes'
    <3>1. current' \in Info /\ events' \in Seq(Statuses)
        BY <1>2, <2>1, <2>4, <2>6
    <3>2. prev' \in [Callers -> Info] /\ next' \in [Callers -> Info]
        BY <2>1, <2>4, <2>6 DEF LimitInv, LimitTypes
    <3>3. parserAt' \in [Callers -> {"idle", "callback"}]
        BY <2>1 DEF LimitInv, LimitTypes
    <3> QED BY <2>7, <3>1, <3>2, <3>3 DEF LimitTypes
  <2>9. /\ parserAt'[c] = "callback" /\ prev'[c] = current /\ next'[c] = most
        /\ \A d \in Callers \ {c} :
             parserAt'[d] = parserAt[d] /\ prev'[d] = prev[d] /\ next'[d] = next[d]
      BY <2>1 DEF LimitInv, LimitTypes
  <2>10. ASSUME NEW s \in Statuses
         PROVE  Told(changes, s)' = Told(events, s)' + Cardinality(Telling(s)')
    <3>1. Told(events, s)' = Told(events, s) /\ Told(changes, s)' = Told(changes', s)
        BY <1>2 DEF Told
    <3>2. c \notin Telling(s) /\ IsFiniteSet(Telling(s)) /\ Cardinality(Telling(s)) \in Nat
        BY <1>2, TellingFinite DEF Telling
    <3>3. /\ Told(changes, s) \in Nat /\ Told(events, s) \in Nat
          /\ Told(changes, s) = Told(events, s) + Cardinality(Telling(s))
        BY <2>6, ToldCounts DEF LimitInv
    <3>4. CASE current.status # most.status /\ most.status = s
      <4>1. Telling(s)' = Telling(s) \cup {c}
          BY <2>9, <3>4 DEF Telling
      <4>2. Told(Append(changes, most.status), s) = Told(changes, s) + 1
          BY <2>6, <3>4, ToldCounts
      <4>3. Cardinality(Telling(s)') = Cardinality(Telling(s)) + 1
          BY <3>2, <4>1, FS_AddElement
      <4>4. Told(changes, s)' = Told(changes, s) + 1
          BY <2>1, <3>1, <3>4, <4>2
      <4>5. Cardinality(Telling(s)) \in Nat
          BY <3>2
      <4> QED BY <3>1, <3>3, <4>3, <4>4, <4>5
    <3>5. CASE current.status # most.status /\ most.status # s
      <4>1. Telling(s)' = Telling(s)
          BY <1>2, <2>9, <3>5 DEF Telling
      <4>2. Told(Append(changes, most.status), s) = Told(changes, s)
          BY <2>6, <3>5, ToldCounts
      <4> QED BY <2>1, <3>1, <3>3, <3>5, <4>1, <4>2
    <3>6. CASE current.status = most.status
      <4>1. Telling(s)' = Telling(s)
          BY <1>2, <2>9, <3>6 DEF Telling
      <4> QED BY <2>1, <3>1, <3>3, <3>6, <4>1
    <3> QED BY <3>4, <3>5, <3>6
  <2> QED BY <2>5, <2>8, <2>10 DEF LimitInv
<1> QED BY <1>4, <1>5

LEMMA TellCorrect ==
  ASSUME LimitInv, NEW c \in Callers, Limits!OnChange(c)
  PROVE  LimitInv'
<1>1. /\ parserAt[c] = "callback" /\ parserAt' = [parserAt EXCEPT ![c] = "idle"]
      /\ prev[c].status = next[c].status => events' = events
      /\ prev[c].status # next[c].status => events' = Append(events, next[c].status)
      /\ UNCHANGED <<current, prev, next, changes, worst>>
    BY DEF Limits!OnChange
<1>2. /\ events \in Seq(Statuses) /\ changes \in Seq(Statuses) /\ next[c].status \in Statuses
    BY DEF LimitInv, LimitTypes, Info
<1>3. events' \in Seq(Statuses)
  <2>1. CASE prev[c].status = next[c].status
      BY <1>1, <1>2, <2>1
  <2>2. CASE prev[c].status # next[c].status
      BY <1>1, <1>2, <2>2, ToldCounts
  <2> QED BY <2>1, <2>2
<1>4. LimitTypes'
  <2>1. parserAt' \in [Callers -> {"idle", "callback"}]
      BY <1>1 DEF LimitInv, LimitTypes
  <2> QED BY <1>1, <1>3, <2>1 DEF LimitInv, LimitTypes
<1>5. parserAt'[c] = "idle" /\ \A d \in Callers \ {c} : parserAt'[d] = parserAt[d]
    BY <1>1 DEF LimitInv, LimitTypes
<1>6. ASSUME NEW s \in Statuses
      PROVE  Told(changes, s)' = Told(events, s)' + Cardinality(Telling(s)')
  <2>1. Told(changes, s)' = Told(changes, s) /\ Told(events, s)' = Told(events', s)
      BY <1>1 DEF Told
  <2>2. IsFiniteSet(Telling(s)) /\ Cardinality(Telling(s)) \in Nat
      BY TellingFinite
  <2>3. /\ Told(changes, s) \in Nat /\ Told(events, s) \in Nat
        /\ Told(changes, s) = Told(events, s) + Cardinality(Telling(s))
      BY <1>2, ToldCounts DEF LimitInv
  <2>4. CASE prev[c].status # next[c].status /\ next[c].status = s
    <3>1. Telling(s)' = Telling(s) \ {c} /\ c \in Telling(s)
        BY <1>1, <1>5, <2>4 DEF Telling
    <3>2. Told(Append(events, next[c].status), s) = Told(events, s) + 1
        BY <1>2, <2>4, ToldCounts
    <3>3. Cardinality(Telling(s)') = Cardinality(Telling(s)) - 1
        BY <2>2, <3>1, FS_RemoveElement
    <3>4. Told(events, s)' = Told(events, s) + 1
        BY <1>1, <2>1, <2>4, <3>2
    <3>5. Cardinality(Telling(s)) \in Nat
        BY <2>2
    <3> QED BY <2>1, <2>3, <3>3, <3>4, <3>5
  <2>5. CASE prev[c].status # next[c].status /\ next[c].status # s
    <3>1. Telling(s)' = Telling(s)
        BY <1>1, <1>5, <2>5 DEF Telling
    <3>2. Told(Append(events, next[c].status), s) = Told(events, s)
        BY <1>2, <2>5, ToldCounts
    <3> QED BY <1>1, <2>1, <2>3, <2>5, <3>1, <3>2
  <2>6. CASE prev[c].status = next[c].status
    <3>1. Telling(s)' = Telling(s)
        BY <1>1, <1>5, <2>6 DEF Telling
    <3> QED BY <1>1, <2>1, <2>3, <2>6, <3>1
  <2> QED BY <2>4, <2>5, <2>6
<1>7. Limits!RejectedWindowWins'
    BY <1>1 DEF LimitInv, Limits!RejectedWindowWins
<1> QED BY <1>4, <1>6, <1>7 DEF LimitInv

LEMMA LimitCorrect == LimitInv /\ (Limits!Next \/ UNCHANGED limitVars) => LimitInv'
<1> SUFFICES ASSUME LimitInv, Limits!Next \/ UNCHANGED limitVars PROVE LimitInv'
    OBVIOUS
<1>1. CASE UNCHANGED limitVars
    BY <1>1 DEF limitVars, LimitInv, LimitTypes, Told, Telling, Limits!RejectedWindowWins
<1>2. CASE Limits!Next
    BY <1>2, ParseCorrect, TellCorrect DEF Limits!Next
<1> QED BY <1>1, <1>2

-----------------------------------------------------------------------------
LEMMA CostStep == [Next]_vars => Tracker!Next \/ UNCHANGED costVars
<1>1. \A s : Only(s) /\ s # "costs" => UNCHANGED costVars
    BY DEF Only
<1> QED BY <1>1 DEF Next, vars

(***************************************************************************)
(* CostTracker                                                             *)
(***************************************************************************)
Usage == [Models -> Nat]
Sum(f) == Tracker!CostOf(f)

CostTypes ==
  /\ total \in Nat /\ spent \in Nat /\ models \in Usage
  /\ savedTotal \in [Savers -> Nat] /\ seen \in [Savers -> Usage]
  /\ left \in [Savers -> SUBSET Models]
  /\ saveAt \in [Savers -> {"idle", "range", "marshal", "write"}]
  /\ \A s \in DOMAIN frozen : frozen[s] \in Usage

\* What a Save will have read of its map when it is done, if none adds more.
WillSee(s) == [m \in Models |-> IF m \in left[s] THEN Tracker!Map(s)[m] ELSE seen[s][m]]

Covered(t, f) == t <= Sum(f) /\ Sum(f) <= spent

\* Where a Save is, what it has taken as the total is covered by what it has,
\* or is about to have, of the models.
SaverInv(s) ==
  /\ saveAt[s] = "range"   => Covered(savedTotal[s], Tracker!Map(s))
  /\ saveAt[s] = "marshal" => Covered(savedTotal[s], WillSee(s))
  /\ saveAt[s] = "write"   => Covered(savedTotal[s], seen[s])

FileInv ==
  Tracker!Restorable => /\ costFile.total \in Nat /\ costFile.models \in Usage
                        /\ Covered(costFile.total, costFile.models)

ReadyInv ==
  restored # <<>> => /\ restored[1] \in Nat /\ restored[2] \in Usage
                     /\ Covered(restored[1], restored[2])

CostInv ==
  /\ CostTypes /\ Covered(total, models)
  /\ \A s \in Savers : SaverInv(s)
  /\ FileInv /\ ReadyInv

-----------------------------------------------------------------------------
\* What a sum is, of nothing and after an addition.
LEMMA SumCounts ==
  /\ \A f \in Usage : Sum(f) \in Int
  /\ Tracker!Empty \in Usage /\ Sum(Tracker!Empty) = 0
  /\ \A f, g \in Usage, m \in Models :
       g[m] = f[m] + 1 /\ (\A x \in Models \ {m} : g[x] = f[x]) => Sum(g) = Sum(f) + 1
<1>1. \A f : Sum(f) = LoopProofs!SumFunction(f)
    BY DEF Sum, Tracker!CostOf, Tracker!SumFunction, LoopProofs!SumFunction,
           Tracker!SumFunctionOnSet, LoopProofs!SumFunctionOnSet, Tracker!FoldFunctionOnSet,
           LoopProofs!FoldFunctionOnSet, Tracker!MapThenFoldSet, LoopProofs!MapThenFoldSet
<1>2. LoopProofs!IsFiniteSet(Models)
    BY TrackerAssumption DEF LoopProofs!IsFiniteSet, IsFiniteSet
<1>3. ASSUME NEW f \in Usage PROVE Sum(f) \in Int
  <2>1. f \in [Models -> Int]
      BY DEF Usage
  <2> QED BY <1>1, <1>2, <2>1, LoopProofs!SumType
<1>4. Tracker!Empty \in Usage /\ Sum(Tracker!Empty) = 0
  <2> DEFINE e == Tracker!Empty
  <2>1. e \in [Models -> Nat] /\ \A m \in Models : e[m] <= 0 /\ e[m] = 0
      BY DEF Tracker!Empty
  <2>2. {} \in SUBSET Models /\ 0 \in Nat /\ 0 * 0 = 0 /\ LoopProofs!Cardinality({}) = 0
      BY FS_EmptySet DEF LoopProofs!Cardinality, Cardinality
  <2> HIDE DEF e
  <2>3. /\ LoopProofs!SumFunction(e) \in Nat
        /\ LoopProofs!SumFunction(e) <= LoopProofs!Cardinality({}) * 0
      BY <1>2, <2>1, <2>2, LoopProofs!SumBounded
  <2>4. LoopProofs!SumFunction(e) = 0
      BY <2>2, <2>3
  <2> QED BY <1>1, <2>1, <2>4 DEF e, Usage
<1>5. ASSUME NEW f \in Usage, NEW g \in Usage, NEW m \in Models, g[m] = f[m] + 1,
             \A x \in Models \ {m} : g[x] = f[x]
      PROVE  Sum(g) = Sum(f) + 1
  <2>1. f \in [Models -> Int] /\ g \in [Models -> Int] /\ 1 \in Int
      BY DEF Usage
  <2>2. LoopProofs!SumFunction(g) = LoopProofs!SumFunction(f) + 1
      BY <1>2, <1>5, <2>1, LoopProofs!SumChanged
  <2> QED BY <1>1, <2>2
<1> QED BY <1>3, <1>4, <1>5

LEMMA CostInit == Init => CostInv
<1> SUFFICES ASSUME Init PROVE CostInv
    OBVIOUS
<1>1. Tracker!Init
    BY DEF Init
<1>2. Tracker!Empty \in Usage /\ Sum(Tracker!Empty) = 0
    BY SumCounts
<1>3. CostTypes
  <2>1. DOMAIN frozen = {} /\ {} \in SUBSET Models /\ 0 \in Nat
      BY <1>1 DEF Tracker!Init
  <2> QED BY <1>1, <1>2, <2>1 DEF Tracker!Init, CostTypes
<1>4. Covered(total, models) /\ ReadyInv /\ \A s \in Savers : SaverInv(s)
    BY <1>1, <1>2 DEF Tracker!Init, Tracker!Nothing, Covered, ReadyInv, SaverInv
<1>5. FileInv
    BY <1>1 DEF Tracker!Init, Tracker!Broken, Tracker!Content, Tracker!Restorable,
                Tracker!NoFile, Tracker!Mine, FileInv
<1> QED BY <1>3, <1>4, <1>5 DEF CostInv

-----------------------------------------------------------------------------
\* The map of a Save, and what it will see of it, are usages.
LEMMA MapTyped ==
  ASSUME CostTypes, NEW s \in Savers
  PROVE  Tracker!Map(s) \in Usage /\ WillSee(s) \in Usage /\ seen[s] \in Usage
<1>1. Tracker!Map(s) \in Usage /\ seen[s] \in Usage
    BY DEF CostTypes, Tracker!Map
<1> QED BY <1>1 DEF WillSee, Usage

\* More may be spent while what is covered stays as it is.
LEMMA StaysCovered ==
  ASSUME CostTypes, spent' \in Nat, spent <= spent', NEW t, NEW f \in Usage, Covered(t, f)
  PROVE  t <= Sum(f) /\ Sum(f) <= spent'
<1>1. Sum(f) \in Int
    BY SumCounts
<1> QED BY <1>1 DEF CostTypes, Covered

\* A Save that is left alone keeps its part of the invariant.
LEMMA SaverKept ==
  ASSUME CostTypes, spent' \in Nat, spent <= spent', NEW s \in Savers, SaverInv(s),
         saveAt'[s] = saveAt[s], savedTotal'[s] = savedTotal[s],
         seen'[s] = seen[s], left'[s] = left[s],
         saveAt[s] \in {"range", "marshal"} => Tracker!Map(s)' = Tracker!Map(s)
  PROVE  SaverInv(s)'
<1>1. Tracker!Map(s) \in Usage /\ WillSee(s) \in Usage /\ seen[s] \in Usage
    BY MapTyped
<1>2. saveAt[s] = "marshal" => WillSee(s)' = WillSee(s)
    BY DEF WillSee
<1>3. saveAt[s] = "range" => Covered(savedTotal[s], Tracker!Map(s))'
    BY <1>1, StaysCovered DEF SaverInv, Covered, Sum, Tracker!CostOf
<1>4. saveAt[s] = "marshal" => Covered(savedTotal[s], WillSee(s))'
    BY <1>1, <1>2, StaysCovered DEF SaverInv, Covered
<1>5. saveAt[s] = "write" => Covered(savedTotal[s], seen[s])'
    BY <1>1, StaysCovered DEF SaverInv, Covered
<1> QED BY <1>3, <1>4, <1>5 DEF SaverInv

LEMMA AddCorrect ==
  ASSUME CostInv, NEW m \in Models, Tracker!AddUsage(m)
  PROVE  CostInv'
<1>1. /\ spent' = spent + 1 /\ total' = total + 1 /\ models' = [models EXCEPT ![m] = @ + 1]
      /\ UNCHANGED <<costFile, saveAt, savedTotal, seen, left, frozen, restored>>
    BY DEF Tracker!AddUsage, Tracker!save
<1>2. /\ models' \in Usage /\ models'[m] = models[m] + 1
      /\ \A x \in Models \ {m} : models'[x] = models[x]
    BY <1>1 DEF CostInv, CostTypes, Usage
<1>3. Sum(models') = Sum(models) + 1 /\ Sum(models) \in Int
    BY <1>2, SumCounts DEF CostInv, CostTypes
<1>4. /\ spent' \in Nat /\ spent <= spent' /\ total' \in Nat /\ spent \in Nat /\ total \in Nat
      /\ total <= Sum(models) /\ Sum(models) <= spent
    BY <1>1 DEF CostInv, CostTypes, Covered
<1>5. CostTypes'
    BY <1>1, <1>2, <1>4 DEF CostInv, CostTypes
<1>6. Covered(total, models)'
    BY <1>1, <1>3, <1>4 DEF Covered
<1>7. ASSUME NEW s \in Savers PROVE SaverInv(s)'
  <2>1. CASE s \in DOMAIN frozen \/ saveAt[s] \in {"idle", "write"}
    <3>1. saveAt[s] \in {"range", "marshal"} => Tracker!Map(s)' = Tracker!Map(s)
        BY <1>1, <2>1 DEF Tracker!Map
    <3> QED BY <1>1, <1>4, <3>1, SaverKept DEF CostInv
  <2>2. CASE s \notin DOMAIN frozen /\ saveAt[s] = "range"
    <3>1. Tracker!Map(s)' = models' /\ Tracker!Map(s) = models
        BY <1>1, <2>2 DEF Tracker!Map
    <3>2. savedTotal[s] \in Nat /\ savedTotal[s] <= Sum(models)
        BY <2>2, <3>1 DEF CostInv, CostTypes, SaverInv, Covered
    <3>3. savedTotal[s] <= Sum(models') /\ Sum(models') <= spent'
        BY <1>1, <1>3, <1>4, <3>2
    <3> QED BY <1>1, <2>2, <3>1, <3>3 DEF SaverInv, Covered, Sum, Tracker!CostOf
  <2>3. CASE s \notin DOMAIN frozen /\ saveAt[s] = "marshal"
    <3> DEFINE v == WillSee(s)
               w == WillSee(s)'
    <3>1. Tracker!Map(s)' = models' /\ Tracker!Map(s) = models
        BY <1>1, <2>3 DEF Tracker!Map
    <3>2. v = [x \in Models |-> IF x \in left[s] THEN models[x] ELSE seen[s][x]]
        BY <3>1 DEF WillSee
    <3>3. w = [x \in Models |-> IF x \in left[s] THEN models'[x] ELSE seen[s][x]]
        BY <1>1, <3>1 DEF WillSee
    <3>4. /\ v \in Usage /\ savedTotal[s] \in Nat
          /\ savedTotal[s] <= Sum(v) /\ Sum(v) <= spent
        BY <2>3, MapTyped DEF CostInv, CostTypes, SaverInv, Covered
    <3>5. seen[s] \in Usage
        BY MapTyped DEF CostInv
    <3>6. w \in Usage
        BY <1>2, <3>3, <3>5 DEF Usage
    <3>7. savedTotal[s] <= Sum(w) /\ Sum(w) <= spent'
      <4>1. CASE m \in left[s]
        <5>1. w[m] = v[m] + 1 /\ \A x \in Models \ {m} : w[x] = v[x]
          <6> HIDE DEF v, w
          <6> QED BY <4>1, <1>2, <3>2, <3>3
        <5> HIDE DEF v, w
        <5>2. Sum(w) = Sum(v) + 1 /\ Sum(v) \in Int
            BY <3>4, <3>6, <5>1, SumCounts
        <5> QED BY <1>1, <1>4, <3>4, <5>2
      <4>2. CASE m \notin left[s]
        <5> HIDE DEF v, w
        <5>1. \A x \in Models :
                 (IF x \in left[s] THEN models'[x] ELSE seen[s][x])
                   = (IF x \in left[s] THEN models[x] ELSE seen[s][x])
            BY <4>2, <1>2
        <5>2. w = v
            BY <3>2, <3>3, <5>1
        <5>3. Sum(v) \in Int
            BY <3>4, SumCounts
        <5> QED BY <1>1, <1>4, <3>4, <5>2, <5>3
      <4> QED BY <4>1, <4>2
    <3>8. Covered(savedTotal[s], WillSee(s))'
        BY <1>1, <3>7 DEF Covered
    <3> QED BY <1>1, <2>3, <3>8 DEF SaverInv
  <2> QED BY <2>1, <2>2, <2>3 DEF CostInv, CostTypes
<1>8. FileInv'
  <2>1. Tracker!Restorable' <=> Tracker!Restorable
      BY <1>1 DEF Tracker!Restorable
  <2> QED BY <1>1, <1>4, <2>1, StaysCovered DEF CostInv, FileInv, Covered
<1>9. ReadyInv'
    BY <1>1, <1>4, StaysCovered DEF CostInv, ReadyInv, Covered
<1> QED BY <1>5, <1>6, <1>7, <1>8, <1>9 DEF CostInv

\* Of a step that spends nothing, what concerns neither a Save nor the file.
LEMMA NothingSpent ==
  ASSUME CostInv, UNCHANGED spent
  PROVE  /\ UNCHANGED <<total, models>> => Covered(total, models)'
         /\ UNCHANGED costFile => FileInv'
         /\ UNCHANGED restored => ReadyInv'
  BY DEF CostInv, Covered, FileInv, ReadyInv, Tracker!Restorable

\* The steps of one Save.
SaveSteps(s) ==
  \/ Tracker!SaveBegins(s) \/ Tracker!SaveRanges(s) \/ Tracker!SaveReads(s)
  \/ Tracker!SaveOpens(s) \/ Tracker!SaveWrites(s)

LEMMA SaveCorrect ==
  ASSUME CostInv, NEW s \in Savers, SaveSteps(s)
  PROVE  CostInv'
<1>1. UNCHANGED <<total, models, restored, spent>> /\ spent \in Nat
    BY DEF SaveSteps, Tracker!SaveBegins, Tracker!SaveRanges, Tracker!SaveReads,
           Tracker!SaveOpens, Tracker!SaveWrites, CostInv, CostTypes
<1>2. Covered(total, models)' /\ ReadyInv'
    BY <1>1, NothingSpent
<1>3. ASSUME NEW t \in Savers \ {s}
      PROVE  /\ saveAt'[t] = saveAt[t] /\ savedTotal'[t] = savedTotal[t]
             /\ seen'[t] = seen[t] /\ left'[t] = left[t]
             /\ Tracker!Map(t)' = Tracker!Map(t)
  <2>1. /\ saveAt'[t] = saveAt[t] /\ savedTotal'[t] = savedTotal[t]
        /\ seen'[t] = seen[t] /\ left'[t] = left[t]
      BY DEF SaveSteps, Tracker!SaveBegins, Tracker!SaveRanges, Tracker!SaveReads,
             Tracker!SaveOpens, Tracker!SaveWrites, CostInv, CostTypes
  <2>2. Tracker!Map(t)' = Tracker!Map(t)
    <3>1. CASE UNCHANGED frozen
        BY <1>1, <3>1 DEF Tracker!Map
    <3>2. CASE Tracker!SaveBegins(s)
      <4>1. frozen' = [x \in {x \in DOMAIN frozen : x # s} |-> frozen[x]]
          BY <3>2 DEF Tracker!SaveBegins, Tracker!RestrictDomain, Tracker!Restrict
      <4> QED BY <1>1, <4>1 DEF Tracker!Map
    <3> QED BY <3>1, <3>2 DEF SaveSteps, Tracker!SaveRanges, Tracker!SaveReads,
                              Tracker!SaveOpens, Tracker!SaveWrites
  <2> QED BY <2>1, <2>2
<1>4. ASSUME NEW t \in Savers \ {s} PROVE SaverInv(t)'
    BY <1>1, <1>3, SaverKept DEF CostInv
<1>5. /\ Tracker!Map(s) \in Usage /\ WillSee(s) \in Usage /\ seen[s] \in Usage
      /\ Tracker!Empty \in Usage
    BY MapTyped, SumCounts DEF CostInv
<1>6. CASE Tracker!SaveBegins(s)
  <2>1. /\ saveAt' = [saveAt EXCEPT ![s] = "range"]
        /\ savedTotal' = [savedTotal EXCEPT ![s] = total]
        /\ UNCHANGED <<costFile, seen, left>>
      BY <1>6 DEF Tracker!SaveBegins
  <2>2. frozen' = [x \in {x \in DOMAIN frozen : x # s} |-> frozen[x]]
      BY <1>6 DEF Tracker!SaveBegins, Tracker!RestrictDomain, Tracker!Restrict
  <2>3. CostTypes'
    <3>1. \A x \in DOMAIN frozen' : frozen'[x] \in Usage
        BY <2>2 DEF CostInv, CostTypes
    <3> QED BY <1>1, <2>1, <3>1 DEF CostInv, CostTypes
  <2>4. Tracker!Map(s)' = models /\ savedTotal'[s] = total /\ saveAt'[s] = "range"
      BY <1>1, <2>1, <2>2 DEF Tracker!Map, CostInv, CostTypes
  <2>5. Covered(savedTotal[s], Tracker!Map(s))'
      BY <1>1, <2>4 DEF CostInv, Covered, Sum, Tracker!CostOf
  <2>6. SaverInv(s)'
      BY <2>4, <2>5 DEF SaverInv
  <2> QED BY <1>1, <1>2, <1>4, <2>1, <2>3, <2>6, NothingSpent DEF CostInv
<1>7. CASE Tracker!SaveRanges(s)
  <2>1. /\ saveAt[s] = "range" /\ saveAt' = [saveAt EXCEPT ![s] = "marshal"]
        /\ seen' = [seen EXCEPT ![s] = Tracker!Empty]
        /\ left' = [left EXCEPT ![s] = {m \in Models : Tracker!Map(s)[m] # 0}]
        /\ UNCHANGED <<costFile, savedTotal, frozen>>
      BY <1>7 DEF Tracker!SaveRanges
  <2>2. CostTypes'
      BY <1>1, <1>5, <2>1 DEF CostInv, CostTypes
  <2>3. /\ saveAt'[s] = "marshal" /\ seen'[s] = Tracker!Empty
        /\ left'[s] = {m \in Models : Tracker!Map(s)[m] # 0}
        /\ Tracker!Map(s)' = Tracker!Map(s)
      BY <1>1, <2>1 DEF CostInv, CostTypes, Tracker!Map
  <2>4. \A m \in Models :
          Tracker!Map(s)[m] = IF m \in left'[s] THEN Tracker!Map(s)[m] ELSE seen'[s][m]
      BY <2>3 DEF Tracker!Empty
  <2>5. Tracker!Map(s) = [m \in Models |-> Tracker!Map(s)[m]]
      BY <1>5 DEF Usage
  <2>6. WillSee(s)' = [m \in Models |-> IF m \in left'[s] THEN Tracker!Map(s)[m]
                                        ELSE seen'[s][m]]
      BY <2>3 DEF WillSee
  <2>7. WillSee(s)' = Tracker!Map(s)
      BY <2>4, <2>5, <2>6
  <2>8. Covered(savedTotal[s], WillSee(s))'
      BY <1>1, <2>1, <2>7 DEF CostInv, SaverInv, Covered
  <2>9. SaverInv(s)'
      BY <2>3, <2>8 DEF SaverInv
  <2> QED BY <1>1, <1>2, <1>4, <2>1, <2>2, <2>9, NothingSpent DEF CostInv
<1>8. CASE Tracker!SaveReads(s)
  <2>1. PICK m \in left[s] :
          /\ seen' = [seen EXCEPT ![s][m] = Tracker!Map(s)[m]]
          /\ left' = [left EXCEPT ![s] = @ \ {m}]
      BY <1>8 DEF Tracker!SaveReads
  <2>2. saveAt[s] = "marshal" /\ UNCHANGED <<costFile, saveAt, savedTotal, frozen>>
      BY <1>8 DEF Tracker!SaveReads
  <2>3. m \in Models /\ Tracker!Map(s)[m] \in Nat
      BY <1>5 DEF CostInv, CostTypes, Usage
  <2>4. /\ seen'[s] = [seen[s] EXCEPT ![m] = Tracker!Map(s)[m]]
        /\ left'[s] = left[s] \ {m} /\ Tracker!Map(s)' = Tracker!Map(s)
      BY <1>1, <2>1, <2>2 DEF CostInv, CostTypes, Tracker!Map
  <2>5. CostTypes'
    <3>1. seen'[s] \in Usage
        BY <1>5, <2>3, <2>4 DEF Usage
    <3>2. seen' \in [Savers -> Usage] /\ left' \in [Savers -> SUBSET Models]
        BY <2>1, <2>4, <3>1 DEF CostInv, CostTypes
    <3> QED BY <1>1, <2>2, <3>2 DEF CostInv, CostTypes
  <2>6. \A x \in Models :
          (IF x \in left'[s] THEN Tracker!Map(s)[x] ELSE seen'[s][x])
            = (IF x \in left[s] THEN Tracker!Map(s)[x] ELSE seen[s][x])
      BY <1>5, <2>3, <2>4 DEF Usage
  <2>7. WillSee(s)' = WillSee(s)
    <3>1. WillSee(s)' = [x \in Models |-> IF x \in left'[s] THEN Tracker!Map(s)[x]
                                          ELSE seen'[s][x]]
        BY <2>4 DEF WillSee
    <3> QED BY <3>1, <2>6 DEF WillSee
  <2>8. SaverInv(s)'
      BY <1>1, <2>2, <2>7 DEF CostInv, SaverInv, Covered
  <2> QED BY <1>1, <1>2, <1>4, <2>2, <2>5, <2>8, NothingSpent DEF CostInv
<1>9. CASE Tracker!SaveOpens(s)
  <2>1. /\ saveAt[s] = "marshal" /\ left[s] = {} /\ costFile' = Tracker!Broken(Tracker!Torn)
        /\ saveAt' = [saveAt EXCEPT ![s] = "write"]
        /\ UNCHANGED <<savedTotal, seen, left, frozen>>
      BY <1>9 DEF Tracker!SaveOpens
  <2>2. CostTypes'
      BY <1>1, <2>1 DEF CostInv, CostTypes
  <2>3. WillSee(s) = seen[s]
      BY <1>5, <2>1 DEF WillSee, Usage
  <2>4. saveAt'[s] = "write" /\ Covered(savedTotal[s], seen[s])
      BY <2>1, <2>3 DEF CostInv, CostTypes, SaverInv
  <2>5. SaverInv(s)'
      BY <1>1, <2>1, <2>4 DEF SaverInv, Covered
  <2>6. FileInv'
      BY <2>1 DEF FileInv, Tracker!Restorable, Tracker!Broken, Tracker!Content,
                  Tracker!Torn, Tracker!Mine
  <2> QED BY <1>2, <1>4, <2>2, <2>5, <2>6 DEF CostInv
<1>10. CASE Tracker!SaveWrites(s)
  <2>1. /\ saveAt[s] = "write" /\ saveAt' = [saveAt EXCEPT ![s] = "idle"]
        /\ \/ costFile' = Tracker!Content(Tracker!Mine, savedTotal[s], seen[s])
           \/ costFile' = Tracker!Broken(Tracker!Torn)
        /\ UNCHANGED <<savedTotal, seen, left, frozen>>
      BY <1>10 DEF Tracker!SaveWrites
  <2>2. CostTypes'
      BY <1>1, <2>1 DEF CostInv, CostTypes
  <2>3. saveAt'[s] = "idle"
      BY <2>1 DEF CostInv, CostTypes
  <2>4. SaverInv(s)'
      BY <2>3 DEF SaverInv
  <2>5. Covered(savedTotal[s], seen[s]) /\ savedTotal[s] \in Nat
      BY <2>1 DEF CostInv, CostTypes, SaverInv
  <2>6. FileInv'
    <3>1. CASE costFile' = Tracker!Content(Tracker!Mine, savedTotal[s], seen[s])
      <4>1. costFile'.total = savedTotal[s] /\ costFile'.models = seen[s]
          BY <3>1 DEF Tracker!Content
      <4>2. Sum(costFile.models)' = Sum(seen[s])
          BY <4>1 DEF Sum, Tracker!CostOf
      <4> QED BY <1>1, <1>5, <2>5, <4>1, <4>2 DEF FileInv, Covered
    <3>2. CASE costFile' = Tracker!Broken(Tracker!Torn)
        BY <3>2 DEF FileInv, Tracker!Restorable, Tracker!Broken, Tracker!Content,
                    Tracker!Torn, Tracker!Mine
    <3> QED BY <2>1, <3>1, <3>2
  <2> QED BY <1>2, <1>4, <2>2, <2>4, <2>6 DEF CostInv
<1> QED BY <1>6, <1>7, <1>8, <1>9, <1>10 DEF SaveSteps

LEMMA RestoreCosts ==
  ASSUME CostInv, Tracker!Restore
  PROVE  CostInv'
<1>1. /\ restored # <<>> /\ total' = restored[1] /\ models' = restored[2] /\ restored' = <<>>
      /\ UNCHANGED <<costFile, saveAt, savedTotal, seen, left, spent>>
      /\ frozen' = [s \in DOMAIN frozen \cup {t \in Savers : saveAt[t] \in {"range", "marshal"}}
                      |-> Tracker!Map(s)]
    BY DEF Tracker!Restore, Tracker!Nothing
<1>2. restored[1] \in Nat /\ restored[2] \in Usage /\ Covered(restored[1], restored[2])
    BY <1>1 DEF CostInv, ReadyInv
<1>3. CostTypes'
  <2>1. \A s \in DOMAIN frozen' : frozen'[s] \in Usage
      BY <1>1 DEF CostInv, CostTypes, Tracker!Map
  <2> QED BY <1>1, <1>2, <2>1 DEF CostInv, CostTypes
<1>4. Covered(total, models)'
    BY <1>1, <1>2 DEF Covered
<1>5. ASSUME NEW s \in Savers PROVE SaverInv(s)'
  <2>1. saveAt[s] \in {"range", "marshal"} => Tracker!Map(s)' = Tracker!Map(s)
    <3>1. saveAt[s] \in {"range", "marshal"} =>
            s \in DOMAIN frozen' /\ frozen'[s] = Tracker!Map(s)
        BY <1>1
    <3>2. s \in DOMAIN frozen' => Tracker!Map(s)' = frozen'[s]
        BY DEF Tracker!Map
    <3> QED BY <3>1, <3>2
  <2> QED BY <1>1, <2>1, SaverKept DEF CostInv, CostTypes
<1> QED BY <1>1, <1>3, <1>4, <1>5, NothingSpent DEF CostInv, ReadyInv

LEMMA CostCorrect ==
  ASSUME CostInv, Tracker!Next \/ UNCHANGED costVars
  PROVE  CostInv'
<1>1. CASE UNCHANGED costVars
  <2>1. /\ UNCHANGED <<total, models, costFile, saveAt, savedTotal, seen, left, frozen,
                       restored, spent>>
      BY <1>1 DEF costVars
  <2>2. CostTypes' /\ spent \in Nat
      BY <2>1 DEF CostInv, CostTypes
  <2>3. \A s \in Savers : SaverInv(s)'
      BY <2>1, <2>2, SaverKept DEF CostInv, Tracker!Map
  <2> QED BY <2>1, <2>2, <2>3, NothingSpent DEF CostInv
<1>2. CASE Tracker!RestoreReads
  <2>1. /\ Tracker!Restorable /\ restored' = <<costFile.total, costFile.models>>
        /\ UNCHANGED <<total, models, costFile, saveAt, savedTotal, seen, left, frozen, spent>>
      BY <1>2 DEF Tracker!RestoreReads, Tracker!save
  <2>2. CostTypes' /\ spent \in Nat
      BY <2>1 DEF CostInv, CostTypes
  <2>3. \A s \in Savers : SaverInv(s)'
      BY <2>1, <2>2, SaverKept DEF CostInv, Tracker!Map
  <2>4. ReadyInv'
    <3>1. /\ costFile.total \in Nat /\ costFile.models \in Usage
          /\ Covered(costFile.total, costFile.models)
        BY <2>1 DEF CostInv, FileInv
    <3>2. restored'[1] = costFile.total /\ restored'[2] = costFile.models
        BY <2>1
    <3>3. Sum(restored[2])' = Sum(costFile.models)
        BY <3>2 DEF Sum, Tracker!CostOf
    <3> QED BY <2>1, <3>1, <3>2, <3>3 DEF ReadyInv, Covered
  <2> QED BY <2>1, <2>2, <2>3, <2>4, NothingSpent DEF CostInv
<1>3. CASE Tracker!Restart
  <2>1. /\ total' = 0 /\ models' = Tracker!Empty /\ restored' = <<>> /\ frozen' = <<>>
        /\ saveAt' = [s \in Savers |-> "idle"] /\ savedTotal' = [s \in Savers |-> 0]
        /\ seen' = [s \in Savers |-> Tracker!Empty] /\ left' = [s \in Savers |-> {}]
        /\ UNCHANGED <<costFile, spent>>
      BY <1>3 DEF Tracker!Restart, Tracker!Nothing
  <2>2. Tracker!Empty \in Usage /\ Sum(Tracker!Empty) = 0 /\ spent \in Nat
      BY SumCounts DEF CostInv, CostTypes
  <2>3. CostTypes'
    <3>1. DOMAIN frozen' = {} /\ {} \in SUBSET Models /\ 0 \in Nat
        BY <2>1
    <3> QED BY <2>1, <2>2, <3>1 DEF CostInv, CostTypes
  <2>4. Covered(total, models)'
    <3>1. Sum(models)' = 0
        BY <2>1, <2>2 DEF Sum, Tracker!CostOf
    <3> QED BY <2>1, <2>2, <3>1 DEF Covered
  <2>5. \A s \in Savers : SaverInv(s)'
      BY <2>1 DEF SaverInv
  <2> QED BY <2>1, <2>3, <2>4, <2>5, NothingSpent DEF CostInv, ReadyInv
<1>4. ASSUME NEW s \in Savers, SaveSteps(s) PROVE CostInv'
    BY <1>4, SaveCorrect
<1> QED BY <1>1, <1>2, <1>3, <1>4, AddCorrect, RestoreCosts DEF Tracker!Next, SaveSteps

\* The invariant says what CostsCovered does.
LEMMA CostsMean == CostInv => Tracker!CostsCovered
  BY DEF CostInv, Covered, Sum, FileInv, Tracker!Restorable, Tracker!CostsCovered

-----------------------------------------------------------------------------
(***************************************************************************)
(* The costs of the tracker, and of a file that Restore accepts, are        *)
(* covered by what was spent (AddUsage, Save, Restore); every change of the *)
(* rate limit is told once, and of the windows of a response a rejecting    *)
(* one wins (ParseHeaders).                                                 *)
(***************************************************************************)
THEOREM TrackersCorrect == Spec => []TrackersHold
<1>1. CostInv /\ [Next]_vars => CostInv'
    BY CostStep, CostCorrect
<1>2. LimitInv /\ [Next]_vars => LimitInv'
    BY LimitStep, LimitCorrect
<1>3. CostInv /\ LimitInv => TrackersHold
    BY CostsMean, LimitsMean DEF TrackersHold
<1> QED BY <1>1, <1>2, <1>3, CostInit, LimitInit, PTL DEF Spec

-----------------------------------------------------------------------------
LEMMA RewindStep == [Next]_vars => Rewinds!Next \/ UNCHANGED rewindVars
<1>1. \A s : Only(s) /\ s # "rewinds" => UNCHANGED rewindVars
    BY DEF Only
<1> QED BY <1>1 DEF Next, vars

(***************************************************************************)
(* Checkpoints                                                             *)
(***************************************************************************)
Captured == Paths \X Nat
PathsIn(f) == {f[k][1] : k \in DOMAIN f}
EachOnce(f) == \A h, k \in DOMAIN f : f[h][1] = f[k][1] => h = k

CheckpointTypes ==
  /\ disk \in [Paths -> Nat] /\ writes \in Nat
  /\ tracked \in SUBSET Paths /\ todo \in SUBSET Paths
  /\ states \in Seq(Captured) /\ goal \in Seq(Captured)
  /\ disturbed \in BOOLEAN
  /\ checkpointAt \in {"free", "capture", "restore"}
  /\ id \in MessageIds
  /\ checkpoints \in Seq([messageId : MessageIds, files : Seq(Captured)])

\* A capture has every tracked file behind or before it, once.
CaptureInv ==
  checkpointAt = "capture" =>
    /\ EachOnce(states)
    /\ PathsIn(states) \cap todo = {} /\ PathsIn(states) \cup todo = tracked

\* Later checkpoints have the files of earlier ones: none is ever untracked.
ListInv ==
  \A h \in DOMAIN checkpoints :
    /\ EachOnce(checkpoints[h].files)
    /\ PathsIn(checkpoints[h].files) \subseteq tracked
    /\ \A k \in DOMAIN checkpoints : h <= k =>
         PathsIn(checkpoints[h].files) \subseteq PathsIn(checkpoints[k].files)

\* A rewind has done a part of its goal, and nobody has undone it.
RestoredTo(n) ==
  /\ states = SubSeq(goal, n + 1, Len(goal))
  /\ ~disturbed => \A k \in 1 .. n : disk[goal[k][1]] = goal[k][2]
RestoreInv ==
  checkpointAt = "restore" => EachOnce(goal) /\ \E n \in 0 .. Len(goal) : RestoredTo(n)

RewindInv == CheckpointTypes /\ CaptureInv /\ ListInv /\ RestoreInv

LEMMA RewindInit == Init => RewindInv
<1> SUFFICES ASSUME Init PROVE RewindInv
    OBVIOUS
<1>1. Rewinds!Init
    BY DEF Init
<1>2. <<>> \in Seq(Captured) /\ <<>> \in Seq([messageId : MessageIds, files : Seq(Captured)])
    BY EmptySeq
<1>3. CheckpointTypes
  <2>1. {} \in SUBSET Paths /\ {0, 1} \subseteq Nat /\ FALSE \in BOOLEAN
      OBVIOUS
  <2>2. disk \in [Paths -> Nat]
      BY <1>1, <2>1 DEF Rewinds!Init, Rewinds!Missing
  <2> QED BY <1>1, <1>2, <2>1, <2>2 DEF Rewinds!Init, CheckpointTypes
<1> QED BY <1>1, <1>3 DEF Rewinds!Init, RewindInv, CaptureInv, ListInv, RestoreInv

-----------------------------------------------------------------------------
\* What a step has to leave alone for each part of the invariant.
LEMMA ListKept == ListInv /\ UNCHANGED <<checkpoints, tracked>> => ListInv'
  BY DEF ListInv, EachOnce, PathsIn

LEMMA CaptureKept ==
  CaptureInv /\ UNCHANGED <<checkpointAt, states, todo, tracked>> => CaptureInv'
  BY DEF CaptureInv, EachOnce, PathsIn

LEMMA RestoreKept ==
  /\ RestoreInv /\ UNCHANGED <<checkpointAt, states, goal>>
  /\ disturbed' \/ UNCHANGED <<disk, disturbed>>
  => RestoreInv'
  BY DEF RestoreInv, RestoredTo, EachOnce

\* RewindTo finds the checkpoint the host means.
LEMMA TargetIsLatest ==
  ASSUME CheckpointTypes, NEW m \in MessageIds, Rewinds!BeginRewind(m)
  PROVE  \E h \in DOMAIN checkpoints :
           states' = checkpoints[h].files /\ goal' = checkpoints[h].files
<1> DEFINE with == {h \in DOMAIN checkpoints : checkpoints[h].messageId = m}
           last == CHOOSE x \in with : \A y \in with : y <= x
           max  == CHOOSE x \in with : \A y \in with : x >= y
<1>1. Len(checkpoints) \in Nat /\ DOMAIN checkpoints = 1 .. Len(checkpoints)
    BY LenProperties DEF CheckpointTypes
<1>2. Rewinds!Target(m) = IF with # {} THEN max ELSE 0
    BY <1>1 DEF Rewinds!Target, Rewinds!WithId, Rewinds!Max
<1>3. with # {}
    BY <1>2 DEF Rewinds!BeginRewind
<1>4. \E x \in with : \A y \in with : y <= x
    BY <1>1, <1>3, LoopProofs!Largest
<1>5. last \in with /\ \A y \in with : y <= last
    BY <1>4
<1>6. max \in with /\ \A y \in with : max >= y
  <2>1. \E x \in with : \A y \in with : x >= y
      BY <1>1, <1>4
  <2> QED BY <2>1
<1>7. max = last
  <2> HIDE DEF last, max
  <2> QED BY <1>1, <1>5, <1>6
<1>8. states' = checkpoints[max].files /\ goal' = checkpoints[last].files
    BY <1>2, <1>3 DEF Rewinds!BeginRewind
<1> HIDE DEF last, max
<1> QED BY <1>5, <1>7, <1>8

LEMMA CaptureCorrect ==
  ASSUME RewindInv, NEW p \in Paths, Rewinds!CaptureFile(p)
  PROVE  RewindInv'
<1> DEFINE one == <<p, disk[p]>>
<1>1. one \in Captured
    BY DEF RewindInv, CheckpointTypes, Captured
<1>2. states' = Append(states, one)
    BY DEF Rewinds!CaptureFile
<1>3. one[1] = p
    OBVIOUS
<1>4. p \in todo /\ todo' = todo \ {p} /\ checkpointAt = "capture"
      /\ UNCHANGED <<disk, writes, tracked, checkpoints, checkpointAt, id, disturbed, goal>>
    BY DEF Rewinds!CaptureFile
<1> HIDE DEF one
<1>5. /\ states' \in Seq(Captured)
      /\ Len(states') = Len(states) + 1 /\ states'[Len(states) + 1] = one
      /\ \A k \in 1 .. Len(states) : states'[k] = states[k]
    BY <1>1, <1>2, AppendProperties DEF RewindInv, CheckpointTypes
<1>6. Len(states) \in Nat /\ DOMAIN states = 1 .. Len(states)
      /\ DOMAIN states' = 1 .. Len(states) + 1
    BY <1>5, LenProperties DEF RewindInv, CheckpointTypes
<1>7. CheckpointTypes'
    BY <1>4, <1>5 DEF RewindInv, CheckpointTypes
<1>8. PathsIn(states)' = PathsIn(states) \cup {p}
  <2>1. \A k \in DOMAIN states' : k \in DOMAIN states \/ k = Len(states) + 1
      BY <1>6
  <2>2. DOMAIN states \subseteq DOMAIN states' /\ Len(states) + 1 \in DOMAIN states'
      BY <1>6
  <2>3. \A k \in DOMAIN states : states'[k] = states[k]
      BY <1>5, <1>6
  <2> QED BY <1>3, <1>5, <2>1, <2>2, <2>3 DEF PathsIn
<1>9. EachOnce(states)'
  <2>1. \A k \in DOMAIN states : states[k][1] # p
      BY <1>4 DEF RewindInv, CaptureInv, PathsIn
  <2>2. \A k \in DOMAIN states' : k \in DOMAIN states \/ k = Len(states) + 1
      BY <1>6
  <2>3. \A k \in DOMAIN states : states'[k] = states[k]
      BY <1>5, <1>6
  <2>4. \A h, k \in DOMAIN states : states[h][1] = states[k][1] => h = k
      BY <1>4 DEF RewindInv, CaptureInv, EachOnce
  <2> QED BY <1>3, <1>5, <2>1, <2>2, <2>3, <2>4 DEF EachOnce
<1>10. CaptureInv'
    BY <1>4, <1>8, <1>9 DEF RewindInv, CaptureInv
<1>11. ListInv' /\ RestoreInv'
    BY <1>4, ListKept DEF RewindInv, RestoreInv
<1> QED BY <1>7, <1>10, <1>11 DEF RewindInv

LEMMA EndCreateCorrect ==
  ASSUME RewindInv, Rewinds!EndCreate
  PROVE  RewindInv'
<1> DEFINE new == [messageId |-> id, files |-> states]
           Made == [messageId : MessageIds, files : Seq(Captured)]
<1>1. new \in Made /\ new.files = states
    BY DEF RewindInv, CheckpointTypes
<1>2. checkpoints' = Append(checkpoints, new) /\ checkpointAt = "capture" /\ todo = {}
      /\ checkpointAt' = "free"
      /\ UNCHANGED <<disk, writes, tracked, id, todo, states, disturbed, goal>>
    BY DEF Rewinds!EndCreate
<1> HIDE DEF new
<1>3. /\ checkpoints' \in Seq(Made)
      /\ Len(checkpoints') = Len(checkpoints) + 1
      /\ checkpoints'[Len(checkpoints) + 1] = new
      /\ \A k \in 1 .. Len(checkpoints) : checkpoints'[k] = checkpoints[k]
    BY <1>1, <1>2, AppendProperties DEF RewindInv, CheckpointTypes
<1>4. Len(checkpoints) \in Nat /\ DOMAIN checkpoints = 1 .. Len(checkpoints)
      /\ DOMAIN checkpoints' = 1 .. Len(checkpoints) + 1
    BY <1>3, LenProperties DEF RewindInv, CheckpointTypes
<1>5. CheckpointTypes'
    BY <1>2, <1>3 DEF RewindInv, CheckpointTypes
<1>6. EachOnce(states) /\ PathsIn(states) = tracked
    BY <1>2 DEF RewindInv, CaptureInv
<1>7. \A k \in DOMAIN checkpoints' :
        \/ k \in DOMAIN checkpoints /\ checkpoints'[k] = checkpoints[k]
        \/ k = Len(checkpoints) + 1 /\ checkpoints'[k].files = states
    BY <1>1, <1>3, <1>4
<1>8. \A h \in DOMAIN checkpoints : ~(Len(checkpoints) + 1 <= h)
    BY <1>4
<1>9. ListInv'
  <2>1. ASSUME NEW h \in DOMAIN checkpoints'
        PROVE  /\ EachOnce(checkpoints'[h].files)
               /\ PathsIn(checkpoints'[h].files) \subseteq tracked
               /\ \A k \in DOMAIN checkpoints' : h <= k =>
                    PathsIn(checkpoints'[h].files) \subseteq PathsIn(checkpoints'[k].files)
    <3>1. CASE h \in DOMAIN checkpoints /\ checkpoints'[h] = checkpoints[h]
        BY <3>1, <1>6, <1>7 DEF RewindInv, ListInv
    <3>2. CASE h = Len(checkpoints) + 1 /\ checkpoints'[h].files = states
        BY <3>2, <1>6, <1>7, <1>8
    <3> QED BY <1>7, <2>1, <3>1, <3>2
  <2> QED BY <1>2, <2>1 DEF ListInv, EachOnce, PathsIn
<1> QED BY <1>2, <1>5, <1>9 DEF RewindInv, CaptureInv, RestoreInv

LEMMA BeginRewindCorrect ==
  ASSUME RewindInv, NEW m \in MessageIds, Rewinds!BeginRewind(m)
  PROVE  RewindInv'
<1>1. PICK h \in DOMAIN checkpoints :
        states' = checkpoints[h].files /\ goal' = checkpoints[h].files
    BY TargetIsLatest DEF RewindInv
<1>2. /\ checkpointAt' = "restore" /\ id' = m
      /\ UNCHANGED <<disk, writes, tracked, checkpoints, todo>> /\ disturbed' = FALSE
    BY DEF Rewinds!BeginRewind
<1>3. checkpoints[h].files \in Seq(Captured)
  <2>1. checkpoints[h] \in [messageId : MessageIds, files : Seq(Captured)]
      BY ElementOfSeq, LenProperties DEF RewindInv, CheckpointTypes
  <2> QED BY <2>1
<1>4. CheckpointTypes'
    BY <1>1, <1>2, <1>3 DEF RewindInv, CheckpointTypes
<1>5. EachOnce(goal)'
    BY <1>1 DEF RewindInv, ListInv, EachOnce
<1>6. states' = SubSeq(goal', 1, Len(goal')) /\ Len(goal') \in Nat
    BY <1>1, <1>3, SubSeqFull, LenProperties
<1>7. RestoreInv'
    BY <1>2, <1>5, <1>6 DEF RestoreInv, RestoredTo
<1>8. CaptureInv' /\ ListInv'
    BY <1>2, ListKept DEF RewindInv, CaptureInv
<1> QED BY <1>4, <1>7, <1>8 DEF RewindInv

LEMMA RestoreCorrect ==
  ASSUME RewindInv, Rewinds!RestoreFile
  PROVE  RewindInv'
<1>1. PICK n \in 0 .. Len(goal) : RestoredTo(n)
    BY DEF Rewinds!RestoreFile, RewindInv, RestoreInv
<1>2. /\ checkpointAt = "restore" /\ states # <<>> /\ states' = Tail(states)
      /\ disk' = [disk EXCEPT ![Head(states)[1]] = Head(states)[2]]
      /\ UNCHANGED <<writes, tracked, checkpoints, checkpointAt, id, todo, disturbed, goal>>
    BY DEF Rewinds!RestoreFile
<1>3. /\ goal \in Seq(Captured) /\ Len(goal) \in Nat /\ DOMAIN goal = 1 .. Len(goal)
      /\ states \in Seq(Captured)
    BY LenProperties DEF RewindInv, CheckpointTypes
<1>4. n < Len(goal)
  <2>1. SubSeq(goal, Len(goal) + 1, Len(goal)) = <<>>
      BY <1>3, SubSeqEmpty
  <2>2. n # Len(goal)
      BY <1>1, <1>2, <2>1 DEF RestoredTo
  <2>3. Len(goal) \in Nat
      BY <1>3
  <2> QED BY <2>2, <2>3
<1>5. /\ Head(states) = goal[n + 1]
      /\ Tail(states) = SubSeq(goal, n + 2, Len(goal))
  <2>1. n + 1 \in 1 .. Len(goal) /\ Len(goal) \in n + 1 .. Len(goal)
        /\ (n + 1) + 1 = n + 2
      BY <1>3, <1>4
  <2> QED BY <1>1, <1>3, <2>1, HeadTailOfSubSeq DEF RestoredTo
<1>6. n + 1 \in DOMAIN goal /\ goal[n + 1] \in Captured
    BY <1>3, <1>4
<1>7. goal[n + 1][1] \in Paths /\ goal[n + 1][2] \in Nat
    BY <1>6 DEF Captured
<1>8. /\ disk' \in [Paths -> Nat] /\ disk'[goal[n + 1][1]] = goal[n + 1][2]
      /\ \A p \in Paths : p # goal[n + 1][1] => disk'[p] = disk[p]
    BY <1>2, <1>5, <1>7 DEF RewindInv, CheckpointTypes
<1>9. CheckpointTypes'
  <2>1. Tail(states) \in Seq(Captured)
      BY <1>2, <1>3, HeadTailProperties
  <2> QED BY <1>2, <1>8, <2>1 DEF RewindInv, CheckpointTypes
<1>10. RestoredTo(n + 1)'
  <2>1. states' = SubSeq(goal', (n + 1) + 1, Len(goal'))
      BY <1>2, <1>3, <1>5
  <2>2. ASSUME ~disturbed, NEW k \in 1 .. n + 1
        PROVE  disk'[goal[k][1]] = goal[k][2]
    <3>1. CASE k = n + 1
        BY <3>1, <1>8
    <3>2. CASE k # n + 1
      <4>1. k \in 1 .. n /\ k \in DOMAIN goal
          BY <3>2, <1>3, <1>4
      <4>2. goal[k][1] \in Paths /\ goal[k][1] # goal[n + 1][1]
        <5>1. goal[k] \in Captured
            BY <4>1, <1>3, ElementOfSeq
        <5>2. EachOnce(goal)
            BY <1>2 DEF RewindInv, RestoreInv
        <5> QED BY <4>1, <5>1, <5>2, <3>2, <1>6 DEF EachOnce, Captured
      <4>3. disk[goal[k][1]] = goal[k][2]
          BY <4>1, <2>2, <1>1 DEF RestoredTo
      <4> QED BY <4>2, <4>3, <1>8
    <3> QED BY <3>1, <3>2
  <2> QED BY <1>2, <2>1, <2>2 DEF RestoredTo
<1>11. RestoreInv'
  <2>1. n + 1 \in 0 .. Len(goal)
      BY <1>3, <1>4
  <2> QED BY <1>2, <1>10, <2>1 DEF RewindInv, RestoreInv, EachOnce
<1>12. CaptureInv' /\ ListInv'
    BY <1>2, ListKept DEF RewindInv, CaptureInv
<1> QED BY <1>9, <1>11, <1>12 DEF RewindInv

LEMMA RewindCorrect ==
  ASSUME RewindInv, Rewinds!Next \/ UNCHANGED rewindVars
  PROVE  RewindInv'
<1> USE DEF RewindInv
<1>1. CASE UNCHANGED rewindVars
  <2>1. CheckpointTypes'
      BY <1>1 DEF rewindVars, CheckpointTypes
  <2> QED BY <1>1, <2>1, ListKept, CaptureKept, RestoreKept DEF rewindVars
<1>2. ASSUME NEW p \in Paths, Rewinds!Write(p)
      PROVE  RewindInv'
  <2>1. writes' \in Nat
      BY <1>2 DEF Rewinds!Write, CheckpointTypes
  <2>2. disk' \in [Paths -> Nat]
    <3>1. disk' = [disk EXCEPT ![p] = writes'] \/ disk' = [disk EXCEPT ![p] = 0]
        BY <1>2 DEF Rewinds!Write, Rewinds!Missing
    <3> QED BY <2>1, <3>1 DEF CheckpointTypes
  <2>3. disturbed' = TRUE
        /\ UNCHANGED <<tracked, checkpoints, checkpointAt, id, todo, states, goal>>
      BY <1>2 DEF Rewinds!Write
  <2>4. CheckpointTypes'
      BY <2>1, <2>2, <2>3 DEF CheckpointTypes
  <2> QED BY <2>3, <2>4, ListKept, CaptureKept, RestoreKept
<1>3. ASSUME NEW p \in Paths, Rewinds!TrackFile(p)
      PROVE  RewindInv'
  <2>1. CheckpointTypes'
      BY <1>3 DEF Rewinds!TrackFile, CheckpointTypes
  <2>2. ListInv'
      BY <1>3 DEF Rewinds!TrackFile, ListInv, EachOnce, PathsIn
  <2> QED BY <1>3, <2>1, <2>2 DEF Rewinds!TrackFile, CaptureInv, RestoreInv
<1>4. ASSUME NEW p \in Paths, Rewinds!CaptureFails(p)
      PROVE  RewindInv'
  <2>1. CheckpointTypes' /\ checkpointAt' = "free" /\ UNCHANGED <<checkpoints, tracked>>
      BY <1>4 DEF Rewinds!CaptureFails, CheckpointTypes
  <2> QED BY <2>1, ListKept DEF CaptureInv, RestoreInv
<1>5. ASSUME NEW m \in MessageIds, Rewinds!BeginCreate(m)
      PROVE  RewindInv'
  <2>1. CheckpointTypes'
      BY <1>5, EmptySeq DEF Rewinds!BeginCreate, CheckpointTypes
  <2>2. states' = <<>> /\ todo' = tracked /\ checkpointAt' = "capture"
        /\ UNCHANGED <<checkpoints, tracked>>
      BY <1>5 DEF Rewinds!BeginCreate
  <2>3. CaptureInv'
      BY <2>2 DEF CaptureInv, EachOnce, PathsIn
  <2> QED BY <2>1, <2>2, <2>3, ListKept DEF RestoreInv
<1>6. CASE Rewinds!RestoreFails \/ Rewinds!EndRewind
  <2>1. CheckpointTypes' /\ checkpointAt' = "free" /\ UNCHANGED <<checkpoints, tracked>>
      BY <1>6 DEF Rewinds!RestoreFails, Rewinds!EndRewind, CheckpointTypes
  <2> QED BY <2>1, ListKept DEF CaptureInv, RestoreInv
<1> QED BY <1>1, <1>2, <1>3, <1>4, <1>5, <1>6, CaptureCorrect, EndCreateCorrect,
           BeginRewindCorrect, RestoreCorrect DEF Rewinds!Next

\* The invariant says what RewindRestoresLatest does.
LEMMA RewindsMean == RewindInv => Rewinds!RewindRestoresLatest
<1> SUFFICES ASSUME RewindInv PROVE Rewinds!RewindRestoresLatest
    OBVIOUS
<1>1. ASSUME checkpointAt = "restore", states = <<>>, ~disturbed, NEW k \in DOMAIN goal
      PROVE  disk[goal[k][1]] = goal[k][2]
  <2>1. goal \in Seq(Captured) /\ Len(goal) \in Nat /\ DOMAIN goal = 1 .. Len(goal)
      BY LenProperties DEF RewindInv, CheckpointTypes
  <2>2. PICK n \in 0 .. Len(goal) : RestoredTo(n)
      BY <1>1 DEF RewindInv, RestoreInv
  <2>3. n = Len(goal)
    <3>1. CASE n < Len(goal)
      <4>1. n + 1 \in 1 .. Len(goal) /\ Len(goal) \in n + 1 .. Len(goal)
          BY <2>1, <3>1
      <4>2. Len(SubSeq(goal, n + 1, Len(goal))) = Len(goal) - (n + 1) + 1
        <5>1. \A h \in n + 1 .. Len(goal) : h \in 1 .. Len(goal)
            BY <2>1, <4>1
        <5> QED BY <2>1, <3>1, <4>1, <5>1, SubSeqProperties
      <4>3. SubSeq(goal, n + 1, Len(goal)) = <<>>
          BY <1>1, <2>2 DEF RestoredTo
      <4>4. 0 = Len(goal) - (n + 1) + 1
          BY <4>2, <4>3, EmptySeq
      <4>5. Len(goal) \in Nat
          BY <2>1
      <4> QED BY <4>4, <4>5, <3>1
    <3>2. Len(goal) \in Nat
        BY <2>1
    <3> QED BY <3>1, <3>2
  <2> QED BY <1>1, <2>1, <2>2, <2>3 DEF RestoredTo
<1>2. ASSUME NEW h \in DOMAIN checkpoints
      PROVE  Len(checkpoints[h].files) = Cardinality(PathsIn(checkpoints[h].files))
  <2> DEFINE f == checkpoints[h].files
             b == [k \in 1 .. Len(f) |-> f[k][1]]
  <2>1. f \in Seq(Captured) /\ Len(f) \in Nat /\ DOMAIN f = 1 .. Len(f)
    <3>1. checkpoints[h] \in [messageId : MessageIds, files : Seq(Captured)]
        BY ElementOfSeq, LenProperties DEF RewindInv, CheckpointTypes
    <3> QED BY <3>1, LenProperties
  <2>2. EachOnce(f)
      BY DEF RewindInv, ListInv
  <2>3. b \in Bijection(1 .. Len(f), PathsIn(f))
    <3> HIDE DEF f
    <3>1. b \in [1 .. Len(f) -> PathsIn(f)]
        BY <2>1 DEF PathsIn
    <3>2. \A j, k \in 1 .. Len(f) : b[j] = b[k] => j = k
        BY <2>1, <2>2 DEF EachOnce
    <3>3. \A p \in PathsIn(f) : \E k \in 1 .. Len(f) : b[k] = p
        BY <2>1 DEF PathsIn
    <3> QED BY <3>1, <3>2, <3>3 DEF Bijection, Injection, Surjection, IsInjective
  <2> HIDE DEF f, b
  <2>4. ExistsBijection(1 .. Len(f), PathsIn(f))
      BY <2>3 DEF ExistsBijection
  <2>5. IsFiniteSet(1 .. Len(f)) /\ Cardinality(1 .. Len(f)) = Len(f)
    <3>1. Cardinality(1 .. Len(f)) = IF 1 > Len(f) THEN 0 ELSE Len(f) - 1 + 1
        BY <2>1, FS_Interval
    <3>2. IsFiniteSet(1 .. Len(f))
        BY <2>1, FS_Interval
    <3> HIDE DEF f
    <3>3. (IF 1 > Len(f) THEN 0 ELSE Len(f) - 1 + 1) = Len(f)
        BY <2>1
    <3> QED BY <3>1, <3>2, <3>3
  <2>6. Cardinality(PathsIn(f)) = Len(f)
      BY <2>4, <2>5, FS_Bijection
  <2> QED BY <2>6 DEF f
<1> QED BY <1>1, <1>2 DEF RewindInv, ListInv, PathsIn, Rewinds!RewindRestoresLatest,
           Rewinds!Cardinality, Cardinality

-----------------------------------------------------------------------------
(***************************************************************************)
(* History: what GetHistory gives of the file.                             *)
(***************************************************************************)
Ours(p) == {i \in DOMAIN log : Past!Asked(log[i], p)}
Newest(p) ==
  {i \in Ours(p) : \A j \in Ours(p) : j > i => log[j].display # log[i].display}
Rank(i, p) == Cardinality({j \in Newest(p) : j > i})
InLast(k, p) == {i \in Newest(p) : i > Len(log) - k}

\* What the loop has sofar when it has seen the last k entries.
Takes(r, k, p, max) ==
  /\ r \in Seq(LogLine)
  /\ Len(r) = IF max = 0 \/ max > Cardinality(InLast(k, p))
              THEN Cardinality(InLast(k, p)) ELSE max
  /\ \A q \in DOMAIN r : \E i \in InLast(k, p) : log[i] = r[q] /\ Rank(i, p) = q - 1
  /\ \A i \in InLast(k, p) :
       Rank(i, p) < Len(r) => Rank(i, p) + 1 \in DOMAIN r /\ r[Rank(i, p) + 1] = log[i]

LEMMA NewestFinite ==
  ASSUME log \in Seq(LogLine), NEW p, NEW k \in Nat
  PROVE  /\ IsFiniteSet(InLast(k, p)) /\ Cardinality(InLast(k, p)) \in Nat
         /\ \A i : Rank(i, p) \in Nat
         /\ \A i \in InLast(k, p) : Rank(i, p) < Cardinality(InLast(k, p))
<1>1. Len(log) \in Nat /\ Ours(p) \subseteq 1 .. Len(log) /\ IsFiniteSet(1 .. Len(log))
  <2>1. Len(log) \in Nat /\ DOMAIN log = 1 .. Len(log)
      BY LenProperties
  <2> QED BY <2>1, FS_Interval DEF Ours
<1>2. IsFiniteSet(Newest(p)) /\ Newest(p) \subseteq 1 .. Len(log)
    BY <1>1, FS_Subset DEF Newest
<1>3. \A T \in SUBSET Newest(p) : IsFiniteSet(T) /\ Cardinality(T) \in Nat
    BY <1>2, FS_Subset, FS_CardinalityType
<1>4. \A i : {j \in Newest(p) : j > i} \in SUBSET Newest(p) /\ Rank(i, p) \in Nat
    BY <1>3 DEF Rank
<1>5. InLast(k, p) \in SUBSET Newest(p)
    BY DEF InLast
<1>6. ASSUME NEW i \in InLast(k, p) PROVE Rank(i, p) < Cardinality(InLast(k, p))
  <2>1. i \in Newest(p) /\ i > Len(log) - k /\ i \in Nat
      BY <1>2 DEF InLast
  <2>2. {j \in Newest(p) : j > i} \subseteq InLast(k, p) /\ i \notin {j \in Newest(p) : j > i}
      BY <1>1, <1>2, <2>1 DEF InLast
  <2>3. {j \in Newest(p) : j > i} # InLast(k, p)
      BY <2>2
  <2> DEFINE T == {j \in Newest(p) : j > i}
  <2>4. Cardinality(T) = Rank(i, p)
      BY DEF Rank
  <2> HIDE DEF T
  <2>5. T \subseteq InLast(k, p) /\ T # InLast(k, p) /\ IsFiniteSet(InLast(k, p))
      BY <1>3, <1>5, <2>2, <2>3 DEF T
  <2>6. Cardinality(T) < Cardinality(InLast(k, p))
      BY <2>5, FS_Subset, FS_CardinalityType
  <2> QED BY <2>4, <2>6
<1> QED BY <1>3, <1>4, <1>5, <1>6

\* An entry of the project that is not the newest with its text has one after
\* it that is.
LEMMA NewerOne ==
  ASSUME log \in Seq(LogLine), NEW p, NEW i \in Ours(p), i \notin Newest(p)
  PROVE  \E j \in Newest(p) : j > i /\ log[j].display = log[i].display
<1> DEFINE T == {j \in Ours(p) : j > i /\ log[j].display = log[i].display}
<1>1. Ours(p) \subseteq 1 .. Len(log) /\ Len(log) \in Nat
    BY LenProperties DEF Ours
<1>2. T \subseteq 1 .. Len(log) /\ T # {}
    BY <1>1 DEF Newest
<1>3. PICK j \in T : \A h \in T : h <= j
  <2> HIDE DEF T
  <2> QED BY <1>1, <1>2, LoopProofs!Largest
<1>4. \A h \in Ours(p) : h > j => log[h].display # log[j].display
    BY <1>1, <1>3
<1> QED BY <1>3, <1>4 DEF Newest

LEMMA TakesNext ==
  ASSUME log \in Seq(LogLine), NEW p, NEW max \in Nat, NEW k \in Nat, k < Len(log),
         NEW r, Takes(r, k, p, max)
  PROVE  Takes(IF Past!Skips(log[Len(log) + 1 - (k + 1)], r, p, max) THEN r
               ELSE Append(r, log[Len(log) + 1 - (k + 1)]), k + 1, p, max)
<1> DEFINE i == Len(log) - k
           N == InLast(k, p)
<1>1. /\ Len(log) \in Nat /\ i \in 1 .. Len(log) /\ i \in DOMAIN log
      /\ Len(log) + 1 - (k + 1) = i /\ log[i] \in LogLine /\ i = Len(log) - k
    BY LenProperties, ElementOfSeq
<1>2. /\ IsFiniteSet(N) /\ Cardinality(N) \in Nat /\ \A j : Rank(j, p) \in Nat
      /\ \A j \in N : Rank(j, p) < Cardinality(N)
    BY NewestFinite
<1>3. Newest(p) \subseteq Ours(p) /\ Ours(p) \subseteq 1 .. Len(log)
    BY LenProperties DEF Newest, Ours
<1>4. \A j \in Newest(p) : j > Len(log) - (k + 1) <=> j > i \/ j = i
    BY <1>1, <1>3
<1>5. r \in Seq(LogLine) /\ Len(r) \in Nat /\ DOMAIN r = 1 .. Len(r)
    BY LenProperties DEF Takes
<1>6. \A j \in N : j \in Newest(p) /\ j \in Ours(p) /\ j > i
    BY <1>1, <1>3 DEF InLast
<1> HIDE DEF i, N
<1>7. CASE i \notin Newest(p)
  <2>1. InLast(k + 1, p) = InLast(k, p)
      BY <1>1, <1>3, <1>4, <1>7 DEF InLast
  <2>2. Takes(r, k + 1, p, max)
      BY <2>1 DEF Takes
  <2>3. CASE i \notin Ours(p)
    <3>1. Past!Skips(log[i], r, p, max)
        BY <1>1, <2>3 DEF Ours, Past!Skips
    <3> QED BY <1>1, <2>2, <3>1
  <2>4. CASE i \in Ours(p)
    <3>1. PICK j \in Newest(p) : j > i /\ log[j].display = log[i].display
        BY <1>7, <2>4, NewerOne
    <3>2. j \in N
        BY <1>1, <3>1 DEF InLast, N
    <3>3. CASE max > 0 /\ Len(r) >= max
      <4>1. Past!Skips(log[i], r, p, max)
          BY <3>3 DEF Past!Skips
      <4> QED BY <1>1, <2>2, <4>1
    <3>4. CASE ~(max > 0 /\ Len(r) >= max)
      <4>1. Len(r) = Cardinality(N)
          BY <3>4, <1>2 DEF Takes, N
      <4>2. Rank(j, p) + 1 \in DOMAIN r /\ r[Rank(j, p) + 1] = log[j]
          BY <1>2, <3>2, <4>1 DEF Takes, N
      <4>3. Past!Skips(log[i], r, p, max)
          BY <3>1, <4>2 DEF Past!Skips
      <4> QED BY <1>1, <2>2, <4>3
    <3> QED BY <3>3, <3>4
  <2> QED BY <2>3, <2>4
<1>8. CASE i \in Newest(p)
  <2>1. InLast(k + 1, p) = N \cup {i} /\ i \notin N
      BY <1>1, <1>3, <1>4, <1>6, <1>8 DEF InLast, N
  <2>2. Cardinality(InLast(k + 1, p)) = Cardinality(N) + 1
      BY <1>2, <2>1, FS_AddElement
  <2>3. Rank(i, p) = Cardinality(N)
      BY <1>1 DEF Rank, InLast, N
  <2>4. CASE max > 0 /\ Len(r) >= max
    <3>1. Len(r) = max /\ max <= Cardinality(N)
        BY <1>2, <1>5, <2>4 DEF Takes, N
    <3>2. Past!Skips(log[i], r, p, max)
        BY <2>4 DEF Past!Skips
    <3>3. ~(Rank(i, p) < Len(r)) /\ max # 0 /\ ~(max > Cardinality(N) + 1)
        BY <1>2, <2>3, <2>4, <3>1
    <3>4. Takes(r, k + 1, p, max)
      <4>1. \A q \in DOMAIN r : \E j \in InLast(k + 1, p) : log[j] = r[q] /\ Rank(j, p) = q - 1
          BY <2>1 DEF Takes, N
      <4>2. \A j \in InLast(k + 1, p) : Rank(j, p) < Len(r) =>
               Rank(j, p) + 1 \in DOMAIN r /\ r[Rank(j, p) + 1] = log[j]
          BY <2>1, <3>3 DEF Takes, N
      <4> QED BY <1>5, <2>2, <3>1, <3>3, <4>1, <4>2 DEF Takes
    <3> QED BY <1>1, <3>2, <3>4
  <2>5. CASE ~(max > 0 /\ Len(r) >= max)
    <3>1. Len(r) = Cardinality(N) /\ (max = 0 \/ max >= Cardinality(N) + 1)
        BY <1>2, <1>5, <2>5 DEF Takes, N
    <3>2. ASSUME NEW q \in DOMAIN r PROVE r[q].display # log[i].display
      <4>1. PICK j \in N : log[j] = r[q]
          BY DEF Takes, N
      <4> QED BY <1>3, <1>6, <1>8, <4>1 DEF Newest
    <3>3. ~Past!Skips(log[i], r, p, max)
        BY <1>8, <1>3, <2>5, <3>2 DEF Past!Skips, Ours
    <3> DEFINE s == Append(r, log[i])
    <3>4. /\ s \in Seq(LogLine) /\ Len(s) = Len(r) + 1 /\ s[Len(r) + 1] = log[i]
          /\ \A q \in 1 .. Len(r) : s[q] = r[q]
        BY <1>1, <1>5, AppendProperties
    <3> HIDE DEF s
    <3>5. DOMAIN s = 1 .. Len(r) + 1
        BY <1>5, <3>4, LenProperties
    <3>6. Len(s) = IF max = 0 \/ max > Cardinality(InLast(k + 1, p))
                   THEN Cardinality(InLast(k + 1, p)) ELSE max
        BY <1>2, <2>2, <3>1, <3>4
    <3>7. ASSUME NEW q \in DOMAIN s
          PROVE  \E j \in InLast(k + 1, p) : log[j] = s[q] /\ Rank(j, p) = q - 1
      <4>1. CASE q = Len(r) + 1
          BY <1>5, <2>1, <2>3, <3>1, <3>4, <4>1
      <4>2. CASE q # Len(r) + 1
        <5>1. q \in DOMAIN r /\ s[q] = r[q]
            BY <1>5, <3>4, <3>5, <4>2
        <5> QED BY <2>1, <5>1 DEF Takes, N
      <4> QED BY <4>1, <4>2
    <3>8. ASSUME NEW j \in InLast(k + 1, p)
          PROVE  Rank(j, p) + 1 \in DOMAIN s /\ s[Rank(j, p) + 1] = log[j]
      <4>1. CASE j = i
          BY <1>5, <2>3, <3>1, <3>4, <3>5, <4>1
      <4>2. CASE j \in N
        <5>1. Rank(j, p) < Len(r)
            BY <1>2, <3>1, <4>2
        <5>2. Rank(j, p) + 1 \in DOMAIN r /\ r[Rank(j, p) + 1] = log[j]
            BY <4>2, <5>1 DEF Takes, N
        <5> QED BY <1>5, <3>4, <3>5, <5>2
      <4> QED BY <2>1, <4>1, <4>2
    <3>9. Takes(s, k + 1, p, max)
        BY <3>4, <3>6, <3>7, <3>8 DEF Takes
    <3> QED BY <1>1, <3>3, <3>9 DEF s
  <2> QED BY <2>4, <2>5
<1> QED BY <1>7, <1>8

\* The loop has seen them all.
LEMMA HistoryTaken ==
  ASSUME log \in Seq(LogLine), NEW p, NEW max \in Nat
  PROVE  Takes(Past!GetHistory(p, max), Len(log), p, max)
<1> DEFINE L == Len(log)
           E(k) == log[L + 1 - k]
           Y == Seq(LogLine)
           take == [x \in (1 .. L) \X Y |->
                      IF Past!Skips(E(x[1]), x[2], p, max) THEN x[2] ELSE Append(x[2], E(x[1]))]
           Recurs(g) == g = [k \in 0 .. L |->
                               IF k = 0 THEN <<>>
                               ELSE IF Past!Skips(E(k), g[k - 1], p, max) THEN g[k - 1]
                                    ELSE Append(g[k - 1], E(k))]
           sofar == CHOOSE g : Recurs(g)
<1>1. L \in Nat /\ \A k \in 1 .. L : L + 1 - k \in 1 .. L /\ E(k) \in LogLine
  <2>1. Len(log) \in Nat /\ \A k \in 1 .. Len(log) : Len(log) + 1 - k \in 1 .. Len(log)
      BY LenProperties
  <2> QED BY <2>1, ElementOfSeq
<1>2. take \in [(1 .. L) \X Y -> Y]
  <2>1. ASSUME NEW k \in 1 .. L, NEW y \in Y
        PROVE  Append(y, E(k)) \in Y
      BY <1>1, AppendProperties
  <2> HIDE DEF E, Y, L
  <2> QED BY <2>1
<1>3. \E g : Recurs(g)
  <2>0. <<>> \in Y
      BY EmptySeq
  <2> HIDE DEF take, Y, L, E
  <2>1. PICK g \in [0 .. L -> Y] : LoopProofs!Recursion(g, <<>>, take, L)
      BY <1>1, <1>2, <2>0, LoopProofs!RecursionExists
  <2>2. \A k \in 0 .. L : k # 0 => k \in 1 .. L /\ k - 1 \in 0 .. L
      BY <1>1
  <2>3. \A k \in 0 .. L : k # 0 =>
           take[<<k, g[k - 1]>>] = IF Past!Skips(E(k), g[k - 1], p, max) THEN g[k - 1]
                                   ELSE Append(g[k - 1], E(k))
      BY <2>2 DEF take
  <2>4. Recurs(g)
      BY <2>1, <2>3 DEF LoopProofs!Recursion
  <2> HIDE DEF Recurs
  <2> QED BY <2>4
<1>4. Recurs(sofar)
  <2> HIDE DEF Recurs
  <2> QED BY <1>3
<1>5. Past!GetHistory(p, max) = sofar[L]
    BY DEF Past!GetHistory
<1> HIDE DEF sofar
<1> DEFINE P == {k \in 0 .. L : Takes(sofar[k], k, p, max)}
<1>6. 0 \in P
  <2>1. sofar[0] = <<>> /\ <<>> \in Seq(LogLine) /\ Len(<<>>) = 0 /\ DOMAIN <<>> = {}
      BY <1>1, <1>4, EmptySeq
  <2>2. InLast(0, p) = {}
    <3>1. Newest(p) \subseteq 1 .. Len(log)
        BY LenProperties DEF Newest, Ours
    <3> QED BY <1>1, <3>1 DEF InLast
  <2>3. Cardinality(InLast(0, p)) = 0
      BY <2>2, FS_EmptySet
  <2>4. Len(sofar[0]) = IF max = 0 \/ max > Cardinality(InLast(0, p))
                        THEN Cardinality(InLast(0, p)) ELSE max
      BY <2>1, <2>3
  <2>5. 0 \in 0 .. L
      BY <1>1
  <2> QED BY <2>1, <2>2, <2>4, <2>5 DEF Takes
<1>7. ASSUME NEW k \in P, k < L PROVE k + 1 \in P
  <2>1. k + 1 \in 0 .. L /\ k + 1 # 0 /\ (k + 1) - 1 = k /\ k \in Nat
      BY <1>1, <1>7
  <2>2. sofar[k + 1] = IF Past!Skips(E(k + 1), sofar[k], p, max) THEN sofar[k]
                       ELSE Append(sofar[k], E(k + 1))
    <3> HIDE DEF E
    <3> QED BY <1>4, <2>1
  <2> QED BY <1>7, <2>1, <2>2, TakesNext
<1>8. L \in P
  <2>1. P \in SUBSET (0 .. L)
      OBVIOUS
  <2> HIDE DEF P, L
  <2> QED BY <1>1, <1>6, <1>7, <2>1, LoopProofs!UpTo
<1> QED BY <1>5, <1>8

LEMMA HistoryMeans == PastInv => Past!HistoryNewestFirst
<1> SUFFICES ASSUME PastInv,
                    NEW p \in Projects \cup {Past!AnyProject}, NEW max \in 0 .. MaxEntries
             PROVE  /\ Len(Past!GetHistory(p, max)) =
                         IF max = 0 \/ max > Past!Cardinality(Newest(p))
                         THEN Past!Cardinality(Newest(p)) ELSE max
                    /\ \A k \in DOMAIN Past!GetHistory(p, max) : \E i \in Newest(p) :
                         /\ log[i] = Past!GetHistory(p, max)[k]
                         /\ Past!Cardinality({j \in Newest(p) : j > i}) = k - 1
    BY Zenon DEF Past!HistoryNewestFirst, Newest, Ours
<1>1. log \in Seq(LogLine) /\ max \in Nat
    BY DEF PastInv, InOnePlace, Entries
<1>2. Takes(Past!GetHistory(p, max), Len(log), p, max)
    BY <1>1, HistoryTaken
<1>3. InLast(Len(log), p) = Newest(p)
  <2>1. Newest(p) \subseteq 1 .. Len(log) /\ Len(log) \in Nat
      BY <1>1, LenProperties DEF Newest, Ours
  <2> QED BY <2>1 DEF InLast
<1>4. /\ Past!Cardinality(Newest(p)) = Cardinality(Newest(p))
      /\ \A i : Past!Cardinality({j \in Newest(p) : j > i}) = Rank(i, p)
    BY DEF Past!Cardinality, Cardinality, Rank
<1> QED BY <1>2, <1>3, <1>4 DEF Takes

-----------------------------------------------------------------------------
(***************************************************************************)
(* A rewind that nobody disturbs restores the latest snapshot of every      *)
(* tracked file (RestoreCheckpoint); each history entry is in one place     *)
(* at most, whatever flushes and RemoveLast do to the file, and GetHistory  *)
(* gives the newest entry of each text, in order, up to the maximum.        *)
(***************************************************************************)
THEOREM RecordsCorrect == Spec => []RecordsHold
<1>1. RewindInv /\ [Next]_vars => RewindInv'
    BY RewindStep, RewindCorrect
<1>2. PastInv /\ [Next]_vars => PastInv'
    BY PastStep, PastCorrect
<1>3. RewindInv /\ PastInv => RecordsHold
    BY RewindsMean, PastMeans, HistoryMeans DEF RecordsHold
<1> QED BY <1>1, <1>2, <1>3, RewindInit, PastInit, PTL DEF Spec

-----------------------------------------------------------------------------
LEMMA SessionStep == [Next]_vars => Sessions!Next \/ UNCHANGED sessionVars
<1>1. \A s : Only(s) /\ s # "sessions" => UNCHANGED sessionVars
    BY DEF Only
<1> QED BY <1>1 DEF Next, vars

-----------------------------------------------------------------------------
(***************************************************************************)
(* SessionStore                                                            *)
(***************************************************************************)
None == Sessions!None
Line == [type : {"user", "meta"}, uuid : Nat, said : Nat, title : Titles \cup {None},
         tag : Tags \cup {None}, hasTag : BOOLEAN]
Shown == [title : Titles \cup {None}, tag : Tags \cup {None}, prompt : Nat]

\* Of the lines the n-th is the last with a title; 0 when none has one.
IsNamed(lines, n) ==
  /\ n \in 0 .. Len(lines)
  /\ n # 0 => lines[n].title # None
  /\ \A i \in 1 .. Len(lines) : i > n => lines[i].title = None

LinesInv ==
  /\ uuids \in Nat
  /\ DOMAIN files \subseteq {1} \cup DOMAIN forked
  /\ \A s \in DOMAIN files : files[s] \in Seq(Line)
  /\ \A s \in DOMAIN forked : forked[s] \in Seq(Line)

TitleInv ==
  /\ named \in [Sessions!Ids -> Nat]
  /\ \A s \in Sessions!Ids : s \in DOMAIN files => IsNamed(files[s], named[s])

\* No UUID has a number that was not given out.
UUIDInv == \A s \in DOMAIN files : \A i \in DOMAIN files[s] : files[s][i].uuid <= uuids

SessionInv == LinesInv /\ TitleInv /\ UUIDInv /\ Sessions!ForksApart

LEMMA SessionInit == Init => SessionInv
<1> SUFFICES ASSUME Sessions!Init PROVE SessionInv
    BY DEF Init
<1>1. <<>> \in Seq(Line) /\ Len(<<>>) = 0
    BY EmptySeq
<1>2. LinesInv /\ UUIDInv
    BY <1>1 DEF Sessions!Init, LinesInv, UUIDInv
<1>3. TitleInv
    BY <1>1 DEF Sessions!Init, TitleInv, IsNamed
<1>4. Sessions!ForksApart
    BY DEF Sessions!Init, Sessions!ForksApart
<1> QED BY <1>2, <1>3, <1>4 DEF SessionInv

-----------------------------------------------------------------------------
(* Reading: the lines of the head and the tail, and the title they give.    *)
Heads(lines) == IF HeadLines <= Len(lines) THEN HeadLines ELSE Len(lines)
Tails(lines) == IF TailLines <= Len(lines) THEN TailLines ELSE Len(lines)

\* The line of the file that is the i-th read.
Origin(lines, i) ==
  IF i <= Heads(lines) THEN i ELSE Len(lines) - Tails(lines) + (i - Heads(lines))

LEMMA SmallerOne ==
  ASSUME NEW m \in Nat, NEW n \in Nat
  PROVE  Sessions!Min({m, n}) = IF m <= n THEN m ELSE n
<1> DEFINE k == IF m <= n THEN m ELSE n
<1>1. k \in {m, n} /\ \A y \in {m, n} : k <= y
    OBVIOUS
<1>2. \A x \in {m, n} : (\A y \in {m, n} : x <= y) => x = k
    OBVIOUS
<1> HIDE DEF k
<1> QED BY <1>1, <1>2 DEF Sessions!Min, k

LEMMA ReadLines ==
  ASSUME NEW lines \in Seq(Line)
  PROVE  LET got == Sessions!LinesRead(lines)
         IN  /\ got \in Seq(Line) /\ Len(got) = Heads(lines) + Tails(lines)
             /\ \A i \in 1 .. Len(got) :
                  Origin(lines, i) \in 1 .. Len(lines) /\ got[i] = lines[Origin(lines, i)]
<1> DEFINE L == Len(lines)
           h == Heads(lines)
           t == Tails(lines)
           first == SubSeq(lines, 1, h)
           last == SubSeq(lines, L - t + 1, L)
<1>1. /\ L \in Nat /\ h \in 0 .. L /\ t \in 0 .. L
      /\ \A i \in 1 .. L : lines[i] \in Line
    BY FileAssumption DEF Heads, Tails
<1>2. Sessions!LinesRead(lines) = first \o last
  <2>1. Len(lines) \in Nat
      OBVIOUS
  <2>2. /\ Sessions!Min({HeadLines, Len(lines)}) = h
        /\ Sessions!Min({TailLines, Len(lines)}) = t
      BY <2>1, SmallerOne, FileAssumption DEF Heads, Tails
  <2> QED BY <2>2, Zenon DEF Sessions!LinesRead, Sessions!readHeadLines, Sessions!readTailLines
<1> HIDE DEF L, h, t
<1>3. /\ first \in Seq(Line) /\ Len(first) = h
      /\ \A i \in 1 .. h : first[i] = lines[i]
  <2>1. \A i \in 1 .. h : lines[i] \in Line
      BY <1>1
  <2>2. 1 \in Int /\ h \in Int
      BY <1>1
  <2> QED BY <1>1, <2>1, <2>2, SubSeqProperties
<1>4. /\ last \in Seq(Line) /\ Len(last) = t
      /\ \A i \in 1 .. t : last[i] = lines[L - t + i]
  <2>1. \A i \in L - t + 1 .. L : lines[i] \in Line
      BY <1>1
  <2>2. L - t + 1 \in Int /\ L \in Int /\ L - (L - t + 1) + 1 = t
      BY <1>1
  <2>3. /\ last \in Seq(Line) /\ Len(last) = IF L - t + 1 <= L THEN t ELSE 0
        /\ \A i \in 1 .. t : last[i] = lines[(L - t + 1) + i - 1]
      BY <2>1, <2>2, SubSeqProperties
  <2> HIDE DEF last
  <2>4. \A i \in 1 .. t : (L - t + 1) + i - 1 = L - t + i
      BY <1>1
  <2> QED BY <1>1, <2>3, <2>4
<1> HIDE DEF first, last
<1> DEFINE got == first \o last
<1>5. /\ got \in Seq(Line) /\ Len(got) = h + t
      /\ \A i \in 1 .. h + t : got[i] = IF i <= h THEN first[i] ELSE last[i - h]
    BY <1>3, <1>4, ConcatProperties
<1> HIDE DEF got
<1>6. ASSUME NEW i \in 1 .. h + t
      PROVE  Origin(lines, i) \in 1 .. L /\ got[i] = lines[Origin(lines, i)]
  <2>1. CASE i <= h
      BY <1>1, <1>3, <1>5, <1>6, <2>1 DEF Origin, h
  <2>2. CASE ~ i <= h
    <3>1. i - h \in 1 .. t /\ L - t + (i - h) \in 1 .. L
        BY <1>1, <2>2
    <3>2. Origin(lines, i) = L - t + (i - h)
        BY <2>2 DEF Origin, h, t, L
    <3> QED BY <1>4, <1>5, <2>2, <3>1, <3>2
  <2> QED BY <2>1, <2>2
<1>7. Sessions!LinesRead(lines) = got
    BY <1>2 DEF got
<1> QED BY <1>5, <1>6, <1>7 DEF h, t, L

\* Of the first k lines t is the last title, None when there is none.
IsLastTitle(lines, k, t) ==
  \/ t = None /\ \A j \in 1 .. k : lines[j].title = None
  \/ \E j \in 1 .. k : /\ lines[j].title # None /\ t = lines[j].title
                       /\ \A i \in 1 .. k : i > j => lines[i].title = None

\* The last title that is read is that of the line named, as long as that line
\* is read: where head and tail overlap a line is read twice, in order.
LEMMA TitleShown ==
  ASSUME NEW lines \in Seq(Line), NEW n, IsNamed(lines, n),
         n \in (1 .. HeadLines) \cup ((Len(lines) - TailLines + 1) .. Len(lines)),
         NEW t, IsLastTitle(Sessions!LinesRead(lines), Len(Sessions!LinesRead(lines)), t)
  PROVE  t = IF n = 0 THEN None ELSE lines[n].title
<1> DEFINE got == Sessions!LinesRead(lines)
           L == Len(lines)
           h == Heads(lines)
           l == Tails(lines)
           from(i) == IF i <= h THEN i ELSE L - l + (i - h)
<1>1. /\ L \in Nat /\ h \in 0 .. L /\ l \in 0 .. L
      /\ h = IF HeadLines <= L THEN HeadLines ELSE L
      /\ l = IF TailLines <= L THEN TailLines ELSE L
    BY FileAssumption DEF Heads, Tails
<1>2. /\ Len(got) = h + l
      /\ \A i \in 1 .. h + l : from(i) \in 1 .. L /\ got[i] = lines[from(i)]
    BY ReadLines DEF Origin
<1>3. /\ n \in 0 .. L /\ (n # 0 => lines[n].title # None)
      /\ \A i \in 1 .. L : i > n => lines[i].title = None
    BY DEF IsNamed
<1>4. n \in (1 .. HeadLines) \cup ((L - TailLines + 1) .. L)
    OBVIOUS
<1>5. \/ t = None /\ \A j \in 1 .. h + l : got[j].title = None
      \/ \E j \in 1 .. h + l : /\ got[j].title # None /\ t = got[j].title
                               /\ \A i \in 1 .. h + l : i > j => got[i].title = None
    BY <1>2 DEF IsLastTitle
<1> HIDE DEF got, L, h, l
<1>6. CASE n = 0
  <2>1. \A i \in 1 .. h + l : got[i].title = None
      BY <1>1, <1>2, <1>3, <1>6
  <2> QED BY <1>5, <1>6, <2>1
<1>7. CASE n # 0
  <2>1. PICK k \in 1 .. h + l : from(k) = n /\ (n > L - l => k > h)
    <3>1. CASE n > L - l
      <4> DEFINE k == h + (n - (L - l))
      <4>1. k \in 1 .. h + l /\ ~ k <= h /\ L - l + (k - h) = n
          BY <1>1, <1>3, <3>1
      <4> HIDE DEF k
      <4> QED BY <1>1, <4>1
    <3>2. CASE ~ n > L - l
      <4>1. n \in 1 .. h + l /\ n <= h
          BY <1>1, <1>3, <1>4, <1>7, <3>2, FileAssumption
      <4> QED BY <3>2, <4>1
    <3> QED BY <3>1, <3>2
  <2>2. got[k].title # None
      BY <1>2, <1>3, <1>7, <2>1
  <2>3. PICK j \in 1 .. h + l : /\ got[j].title # None /\ t = got[j].title
                                /\ \A i \in 1 .. h + l : i > j => got[i].title = None
      BY <1>5, <2>2
  <2>4. k \in Int /\ j \in Int /\ k <= j
      BY <1>1, <2>2, <2>3
  <2>5. from(j) \in 1 .. L /\ got[j] = lines[from(j)]
      BY <1>2
  <2>6. ~ from(j) > n
      BY <1>3, <2>3, <2>5
  <2>7. from(j) >= n
    <3>1. CASE j <= h
        BY <1>1, <1>3, <2>1, <2>4, <3>1
    <3>2. CASE ~ j <= h /\ n > L - l
        BY <1>1, <1>3, <2>1, <2>4, <3>2
    <3>3. CASE ~ j <= h /\ ~ n > L - l
        BY <1>1, <1>3, <2>4, <3>3
    <3> QED BY <3>1, <3>2, <3>3
  <2>8. from(j) = n
      BY <1>1, <1>3, <2>5, <2>6, <2>7
  <2> QED BY <1>7, <2>3, <2>5, <2>8
<1> QED BY <1>6, <1>7

LEMMA ExtractTyped ==
  ASSUME NEW i \in Shown, NEW l \in Line
  PROVE  /\ Sessions!extractInfo(i, l) \in Shown
         /\ Sessions!extractInfo(i, l).title = IF l.title # None THEN l.title ELSE i.title
<1> DEFINE title == IF l.title # None THEN l.title ELSE i.title
           tag == IF l.hasTag THEN l.tag ELSE i.tag
           prompt == IF l.type = "user" /\ i.prompt = 0 THEN l.said ELSE i.prompt
<1>1. title \in Titles \cup {None} /\ tag \in Tags \cup {None} /\ prompt \in Nat
    BY DEF Shown, Line
<1>2. Sessions!extractInfo(i, l) = [title |-> title, tag |-> tag, prompt |-> prompt]
    BY Zenon DEF Sessions!extractInfo, None
<1> HIDE DEF title, tag, prompt
<1> QED BY <1>1, <1>2 DEF Shown, title

LEMMA ReadTitle ==
  ASSUME NEW s, Sessions!LinesRead(files[s]) \in Seq(Line)
  PROVE  LET lines == Sessions!LinesRead(files[s])
         IN  IsLastTitle(lines, Len(lines), Sessions!readSessionInfo(s).title)
<1> DEFINE lines == Sessions!LinesRead(files[s])
           N == Len(lines)
           start == [title |-> None, tag |-> None, prompt |-> 0]
           Recurs(g) == g = [k \in 0 .. N |->
                               IF k = 0 THEN start ELSE Sessions!extractInfo(g[k - 1], lines[k])]
           info == CHOOSE g : Recurs(g)
<1>1. Sessions!readSessionInfo(s) = info[N]
    BY Zenon DEF Sessions!readSessionInfo, None
<1>2. N \in Nat /\ start \in Shown /\ \A k \in 1 .. N : lines[k] \in Line
    BY DEF Shown
<1> HIDE DEF lines, N, start
<1>3. \A k \in 0 .. N : k # 0 => k \in 1 .. N /\ k - 1 \in 0 .. N
    BY <1>2
<1>4. \E g \in [0 .. N -> Shown] : Recurs(g)
  <2> DEFINE take == [p \in (1 .. N) \X Shown |-> Sessions!extractInfo(p[2], lines[p[1]])]
  <2>1. take \in [(1 .. N) \X Shown -> Shown]
      BY <1>2, ExtractTyped
  <2> HIDE DEF take
  <2>2. PICK g \in [0 .. N -> Shown] : LoopProofs!Recursion(g, start, take, N)
      BY <1>2, <2>1, LoopProofs!RecursionExists
  <2>3. \A k \in 0 .. N : k # 0 => take[<<k, g[k - 1]>>] = Sessions!extractInfo(g[k - 1], lines[k])
      BY <1>3 DEF take
  <2>4. Recurs(g)
      BY <2>2, <2>3 DEF LoopProofs!Recursion
  <2> HIDE DEF Recurs
  <2> QED BY <2>4
<1>5. Recurs(info)
  <2> HIDE DEF Recurs
  <2> QED BY <1>4
<1> HIDE DEF info
<1> DEFINE P == {k \in 0 .. N : info[k] \in Shown /\ IsLastTitle(lines, k, info[k].title)}
<1>6. 0 \in P
  <2>1. info[0] = start /\ 0 \in 0 .. N
      BY <1>2, <1>5
  <2>2. start.title = None
      BY DEF start
  <2> QED BY <1>2, <2>1, <2>2 DEF IsLastTitle
<1>7. ASSUME NEW k \in P, k < N PROVE k + 1 \in P
  <2>1. /\ k + 1 \in 0 .. N /\ k + 1 # 0 /\ (k + 1) - 1 = k /\ k \in Nat
        /\ lines[k + 1] \in Line
      BY <1>2, <1>7
  <2>2. info[k + 1] = Sessions!extractInfo(info[k], lines[k + 1])
      BY <1>5, <2>1
  <2>3. /\ info[k + 1] \in Shown
        /\ info[k + 1].title = IF lines[k + 1].title # None THEN lines[k + 1].title
                               ELSE info[k].title
      BY <1>7, <2>1, <2>2, ExtractTyped
  <2>4. IsLastTitle(lines, k, info[k].title)
      BY <1>7
  <2>5. IsLastTitle(lines, k + 1, info[k + 1].title)
    <3>1. \A i \in 1 .. k + 1 : i \in 1 .. k \/ i = k + 1
        BY <2>1
    <3>2. CASE lines[k + 1].title # None
        BY <2>1, <2>3, <3>1, <3>2 DEF IsLastTitle
    <3>3. CASE lines[k + 1].title = None
        BY <2>1, <2>3, <2>4, <3>1, <3>3 DEF IsLastTitle
    <3> QED BY <3>2, <3>3
  <2> QED BY <2>1, <2>3, <2>5
<1>8. N \in P
  <2>1. P \in SUBSET (0 .. N)
      OBVIOUS
  <2> HIDE DEF P
  <2> QED BY <1>2, <1>6, <1>7, <2>1, LoopProofs!UpTo
<1>9. IsLastTitle(lines, N, Sessions!readSessionInfo(s).title)
    BY <1>1, <1>8
<1> QED BY <1>9 DEF N, lines

\* The invariant says what LastTitleShown does.
LEMMA TitlesMean == SessionInv => Sessions!LastTitleShown
<1> SUFFICES ASSUME SessionInv, NEW s \in Sessions!Ids, s \in DOMAIN files,
                    named[s] \in (1 .. HeadLines) \cup
                                 ((Len(files[s]) - TailLines + 1) .. Len(files[s]))
             PROVE  Sessions!readSessionInfo(s).title =
                      IF named[s] = 0 THEN None ELSE files[s][named[s]].title
    BY Zenon DEF Sessions!LastTitleShown, Sessions!Exists, None
<1>1. files[s] \in Seq(Line) /\ IsNamed(files[s], named[s])
    BY DEF SessionInv, LinesInv, TitleInv
<1>2. Sessions!LinesRead(files[s]) \in Seq(Line)
    BY <1>1, ReadLines
<1> QED BY <1>1, <1>2, ReadTitle, TitleShown

-----------------------------------------------------------------------------
(* Writing                                                                  *)
\* A line that is appended to one file.
LEMMA AppendCorrect ==
  ASSUME SessionInv, NEW s, NEW l \in Line, Sessions!appendLine(s, l),
         uuids' \in Nat, uuids' >= uuids, l.uuid <= uuids',
         l.uuid # 0 => l.uuid > uuids,
         forked' = forked,
         \/ named' = named /\ l.title = None
         \/ named' = [named EXCEPT ![s] = Len(files'[s])] /\ l.title # None
  PROVE  SessionInv'
<1> DEFINE f == files[s]
           g == Append(f, l)
           L == Len(f)
<1>1. s \in DOMAIN files /\ files' = [files EXCEPT ![s] = g]
    BY DEF Sessions!appendLine, Sessions!Exists
<1>2. /\ f \in Seq(Line) /\ L \in Nat /\ DOMAIN f = 1 .. L
    BY <1>1 DEF SessionInv, LinesInv
<1>3. /\ g \in Seq(Line) /\ Len(g) = L + 1 /\ g[L + 1] = l
      /\ \A i \in 1 .. L : g[i] = f[i]
    BY <1>2, AppendProperties
<1>4. DOMAIN g = 1 .. L + 1
    BY <1>3
<1> HIDE DEF g
<1>5. DOMAIN files' = DOMAIN files
      /\ \A t \in DOMAIN files : files'[t] = IF t = s THEN g ELSE files[t]
    BY <1>1
<1> HIDE DEF f, L
<1>6. LinesInv'
    BY <1>3, <1>5 DEF SessionInv, LinesInv
<1>7. TitleInv'
  <2>1. named' \in [Sessions!Ids -> Nat]
      BY <1>1, <1>2, <1>3, <1>5 DEF SessionInv, TitleInv
  <2>2. ASSUME NEW t \in Sessions!Ids, t \in DOMAIN files'
        PROVE  IsNamed(files'[t], named'[t])
    <3>1. IsNamed(files[t], named[t]) /\ named \in [Sessions!Ids -> Nat]
        BY <1>5, <2>2 DEF SessionInv, TitleInv
    <3>2. CASE t # s
        BY <1>5, <2>2, <3>1, <3>2
    <3>3. CASE t = s /\ named' = named /\ l.title = None
      <4>1. IsNamed(f, named[s])
          BY <3>1, <3>3 DEF f
      <4>2. \A i \in 1 .. L + 1 : i \in 1 .. L \/ i = L + 1
          BY <1>2
      <4>3. IsNamed(g, named[s])
          BY <1>2, <1>3, <3>3, <4>1, <4>2 DEF IsNamed, L
      <4> QED BY <1>5, <2>2, <3>3, <4>3
    <3>4. CASE t = s /\ named' = [named EXCEPT ![s] = Len(files'[s])] /\ l.title # None
      <4>1. files'[t] = g /\ named'[t] = L + 1
          BY <1>3, <1>5, <2>2, <3>1, <3>4
      <4>2. IsNamed(g, L + 1)
          BY <1>2, <1>3, <3>4 DEF IsNamed
      <4> QED BY <4>1, <4>2
    <3> QED BY <3>2, <3>3, <3>4
  <2> QED BY <2>1, <2>2 DEF TitleInv
\* The lines after the step are those before it, and l.
<1>8. ASSUME NEW t \in DOMAIN files', NEW i \in DOMAIN files'[t]
      PROVE  \/ t \in DOMAIN files /\ i \in DOMAIN files[t] /\ files'[t][i] = files[t][i]
             \/ t = s /\ i = L + 1 /\ files'[t][i] = l
  <2>1. CASE t = s
    <3>1. i \in 1 .. L \/ i = L + 1
        BY <1>2, <1>4, <1>5, <1>8, <2>1
    <3> QED BY <1>1, <1>2, <1>3, <1>5, <2>1, <3>1 DEF f
  <2>2. CASE t # s
      BY <1>5, <1>8, <2>2
  <2> QED BY <2>1, <2>2
<1>9. \A t \in DOMAIN files : \A i \in DOMAIN files[t] :
        files[t][i].uuid \in Nat /\ files[t][i].uuid <= uuids
  <2> SUFFICES ASSUME NEW t \in DOMAIN files, NEW i \in DOMAIN files[t]
               PROVE  files[t][i].uuid \in Nat /\ files[t][i].uuid <= uuids
      OBVIOUS
  <2>1. files[t][i] \in Line
      BY DEF SessionInv, LinesInv
  <2> QED BY <2>1 DEF SessionInv, UUIDInv, Line
<1>10. UUIDInv'
  <2> SUFFICES ASSUME NEW t \in DOMAIN files', NEW i \in DOMAIN files'[t]
               PROVE  files'[t][i].uuid <= uuids'
      BY DEF UUIDInv
  <2> QED BY <1>8, <1>9 DEF SessionInv, LinesInv
<1>11. Sessions!ForksApart'
  <2>1. ASSUME NEW t \in DOMAIN files' \cap DOMAIN forked'
        PROVE  \E k \in {0, 1} : \A i \in DOMAIN forked'[t] :
                 /\ k + i \in DOMAIN files'[t]
                 /\ files'[t][k + i].type = forked'[t][i].type
                 /\ files'[t][k + i].said = forked'[t][i].said
    <3>1. PICK k \in {0, 1} : \A i \in DOMAIN forked[t] :
                 /\ k + i \in DOMAIN files[t]
                 /\ files[t][k + i].type = forked[t][i].type
                 /\ files[t][k + i].said = forked[t][i].said
        BY <1>5, <2>1 DEF SessionInv, Sessions!ForksApart
    <3>2. \A i \in DOMAIN files[t] : i \in DOMAIN files'[t] /\ files'[t][i] = files[t][i]
        BY <1>2, <1>3, <1>4, <1>5, <2>1 DEF f
    <3> QED BY <3>1, <3>2
  <2>2. ASSUME NEW t \in DOMAIN files', NEW u \in DOMAIN files',
               NEW i \in DOMAIN files'[t], NEW j \in DOMAIN files'[u],
               files'[t][i].uuid = files'[u][j].uuid, files'[t][i].uuid # 0
        PROVE  <<t, i>> = <<u, j>>
    <3>1. CASE /\ t \in DOMAIN files /\ i \in DOMAIN files[t] /\ files'[t][i] = files[t][i]
               /\ u \in DOMAIN files /\ j \in DOMAIN files[u] /\ files'[u][j] = files[u][j]
        BY <2>2, <3>1 DEF SessionInv, Sessions!ForksApart
    <3>2. CASE /\ t = s /\ i = L + 1 /\ files'[t][i] = l
               /\ u = s /\ j = L + 1 /\ files'[u][j] = l
        BY <3>2
    <3>3. \A v \in DOMAIN files : \A k \in DOMAIN files[v] :
            files[v][k].uuid = l.uuid => l.uuid = 0
        BY <1>9 DEF SessionInv, LinesInv, Line
    <3> QED BY <1>8, <2>2, <3>1, <3>2, <3>3
  <2> QED BY <2>1, <2>2 DEF Sessions!ForksApart
<1> QED BY <1>6, <1>7, <1>10, <1>11 DEF SessionInv

LEMMA AppendMessageCorrect ==
  ASSUME SessionInv, NEW s, Sessions!AppendMessage(s)
  PROVE  SessionInv'
<1> DEFINE l == Sessions!User(uuids', uuids')
<1>1. uuids \in Nat /\ uuids' = uuids + 1
    BY DEF Sessions!AppendMessage, SessionInv, LinesInv
<1>2. l \in Line /\ l.uuid = uuids' /\ l.title = None
    BY <1>1 DEF Sessions!User, Line, None
<1>3. Sessions!appendLine(s, l) /\ named' = named /\ forked' = forked
    BY DEF Sessions!AppendMessage
<1> HIDE DEF l
<1>4. /\ uuids' \in Nat /\ uuids' >= uuids /\ l.uuid <= uuids'
      /\ (l.uuid # 0 => l.uuid > uuids)
    BY <1>1, <1>2
<1> QED BY <1>2, <1>3, <1>4, AppendCorrect

LEMMA RenameTagCorrect ==
  ASSUME SessionInv, NEW s,
         \/ \E title \in Titles : Sessions!RenameSession(s, title)
         \/ \E tag \in Tags \cup {None} : Sessions!TagSession(s, tag)
  PROVE  SessionInv'
<1>1. ASSUME NEW title \in Titles \cup {None}, NEW tag \in Tags \cup {None}
      PROVE  /\ Sessions!Meta(title, tag) \in Line
             /\ Sessions!Meta(title, tag).title = title /\ Sessions!Meta(title, tag).uuid = 0
    BY DEF Sessions!Meta, Line
<1>2. uuids \in Nat /\ None \notin Titles
    BY FileAssumption DEF SessionInv, LinesInv, None, Sessions!None
<1>3. CASE \E title \in Titles : Sessions!RenameSession(s, title)
  <2>1. PICK title \in Titles : Sessions!RenameSession(s, title)
      BY <1>3
  <2> DEFINE l == Sessions!Meta(title, None)
  <2>2. l \in Line /\ l.title # None /\ l.uuid = 0
      BY <1>1, <1>2
  <2>3. /\ Sessions!appendLine(s, l) /\ uuids' = uuids /\ forked' = forked
        /\ named' = [named EXCEPT ![s] = Len(files'[s])]
      BY <2>1 DEF Sessions!RenameSession, None
  <2> HIDE DEF l
  <2>4. /\ uuids' \in Nat /\ uuids' >= uuids /\ l.uuid <= uuids'
        /\ (l.uuid # 0 => l.uuid > uuids)
      BY <1>2, <2>2, <2>3
  <2> QED BY <2>2, <2>3, <2>4, AppendCorrect
<1>4. CASE \E tag \in Tags \cup {None} : Sessions!TagSession(s, tag)
  <2>1. PICK tag \in Tags \cup {None} : Sessions!TagSession(s, tag)
      BY <1>4
  <2> DEFINE l == Sessions!Meta(None, tag)
  <2>2. l \in Line /\ l.title = None /\ l.uuid = 0
      BY <1>1
  <2>3. Sessions!appendLine(s, l) /\ uuids' = uuids /\ forked' = forked /\ named' = named
      BY <2>1 DEF Sessions!TagSession, None
  <2> HIDE DEF l
  <2>4. /\ uuids' \in Nat /\ uuids' >= uuids /\ l.uuid <= uuids'
        /\ (l.uuid # 0 => l.uuid > uuids)
      BY <1>2, <2>2, <2>3
  <2> QED BY <2>2, <2>3, <2>4, AppendCorrect
<1> QED BY <1>3, <1>4

LEMMA DeleteCorrect ==
  ASSUME SessionInv, NEW s, Sessions!DeleteSession(s)
  PROVE  SessionInv'
<1>1. /\ files' = [t \in DOMAIN files \ {s} |-> files[t]]
      /\ uuids' = uuids /\ named' = named /\ forked' = forked
    BY DEF Sessions!DeleteSession
<1>2. /\ DOMAIN files' \subseteq DOMAIN files
      /\ \A t \in DOMAIN files' : files'[t] = files[t]
    BY <1>1
<1>3. LinesInv'
    BY <1>1, <1>2 DEF SessionInv, LinesInv
<1>4. TitleInv'
    BY <1>1, <1>2 DEF SessionInv, TitleInv
<1>5. UUIDInv'
    BY <1>1, <1>2 DEF SessionInv, UUIDInv
<1>6. Sessions!ForksApart'
  <2>1. ASSUME NEW t \in DOMAIN files' \cap DOMAIN forked'
        PROVE  /\ t \in DOMAIN files \cap DOMAIN forked
               /\ files'[t] = files[t] /\ forked'[t] = forked[t]
      BY <1>1, <1>2
  <2> QED BY <1>2, <2>1 DEF SessionInv, Sessions!ForksApart
<1> QED BY <1>3, <1>4, <1>5, <1>6 DEF SessionInv

-----------------------------------------------------------------------------
(* Forks                                                                    *)
\* The message that is asked for is found, and is the first with its UUID.
LEMMA MessageFound ==
  ASSUME NEW lines \in Seq(Line), NEW u,
         Sessions!HasMessage(Sessions!readAllMessages(lines), u)
  PROVE  LET asked == Sessions!readAllMessages(lines)
         IN  /\ DOMAIN asked = 1 .. Len(lines)
             /\ Sessions!First(asked, u) \in 1 .. Len(lines)
             /\ Sessions!First(lines, u) = Sessions!First(asked, u)
<1> DEFINE asked == Sessions!readAllMessages(lines)
           L == Len(lines)
           Is(i) == i \in 1 .. L /\ asked[i].uuid = u /\ \A j \in 1 .. i - 1 : asked[j].uuid # u
           S == {i \in 1 .. L : asked[i].uuid = u}
<1>1. L \in Nat /\ DOMAIN lines = 1 .. L
    OBVIOUS
<1>2. DOMAIN asked = 1 .. L /\ \A i \in 1 .. L : asked[i].uuid = lines[i].uuid
    BY <1>1 DEF Sessions!readAllMessages
<1>3. \E i \in 1 .. L : asked[i].uuid = u
    BY <1>2 DEF Sessions!HasMessage
<1> HIDE DEF asked, L
<1>4. \E i \in 1 .. L : Is(i)
  <2>1. S \in SUBSET (1 .. L) /\ S # {}
      BY <1>3
  <2>2. PICK i \in S : \A j \in S : i <= j
    <3> HIDE DEF S
    <3> QED BY <1>1, <2>1, LoopProofs!Smallest
  <2>3. \A j \in 1 .. i - 1 : j \in 1 .. L /\ ~ i <= j
      BY <1>1
  <2> QED BY <2>2, <2>3
<1>5. /\ Sessions!First(asked, u) = CHOOSE i \in 1 .. L : Is(i)
      /\ Sessions!First(lines, u) = CHOOSE i \in 1 .. L : Is(i)
  <2>1. \A i \in 1 .. L : \A j \in 1 .. i - 1 : j \in 1 .. L
      BY <1>1
  <2>2. \A i \in 1 .. L :
          (asked[i].uuid = u /\ \A j \in 1 .. i - 1 : asked[j].uuid # u)
            <=> (lines[i].uuid = u /\ \A j \in 1 .. i - 1 : lines[j].uuid # u)
      BY <1>2, <2>1
  <2>3. Sessions!First(asked, u) = CHOOSE i \in 1 .. L : Is(i)
      BY <1>2 DEF Sessions!First
  <2>4. Sessions!First(lines, u) =
          CHOOSE i \in 1 .. L : lines[i].uuid = u /\ \A j \in 1 .. i - 1 : lines[j].uuid # u
      BY <1>1 DEF Sessions!First
  <2>5. (CHOOSE i \in 1 .. L : Is(i)) =
          CHOOSE i \in 1 .. L : lines[i].uuid = u /\ \A j \in 1 .. i - 1 : lines[j].uuid # u
      BY <2>2
  <2> QED BY <2>3, <2>4, <2>5
<1>6. (CHOOSE i \in 1 .. L : Is(i)) \in 1 .. L
    BY <1>4
<1>7. Sessions!First(asked, u) \in 1 .. L /\ Sessions!First(lines, u) = Sessions!First(asked, u)
    BY <1>5, <1>6
<1> QED BY <1>2, <1>7 DEF asked, L

\* What is written of the messages up to the one asked for.
LEMMA CopyMade ==
  ASSUME uuids \in Nat, NEW lines \in Seq(Line), NEW u,
         Sessions!HasMessage(Sessions!readAllMessages(lines), u)
  PROVE  LET n == Sessions!First(lines, u)
             copy == Sessions!Remapped(Sessions!UpTo(Sessions!readAllMessages(lines), u))
         IN  /\ n \in 1 .. Len(lines)
             /\ copy \in Seq(Line) /\ Len(copy) = n
             /\ \A i \in 1 .. n : /\ copy[i].uuid = uuids + i /\ copy[i].title = None
                                  /\ copy[i].type = lines[i].type /\ copy[i].said = lines[i].said
<1> DEFINE asked == Sessions!readAllMessages(lines)
           n == Sessions!First(lines, u)
           up == Sessions!UpTo(asked, u)
           copy == Sessions!Remapped(up)
           Message == [type : {"user", "meta"}, uuid : Nat, said : Nat]
<1>1. /\ Len(lines) \in Nat /\ n \in 1 .. Len(lines) /\ Sessions!First(asked, u) = n
      /\ \A i \in 1 .. Len(lines) : lines[i] \in Line
    BY MessageFound
<1>2. \A i \in 1 .. Len(lines) :
        /\ asked[i] \in Message
        /\ asked[i].type = lines[i].type /\ asked[i].said = lines[i].said
    BY <1>1 DEF Sessions!readAllMessages, Line
<1>3. up = SubSeq(asked, 1, n)
    BY <1>1 DEF Sessions!UpTo
<1> HIDE DEF asked, n, up
<1>4. /\ up \in Seq(Message) /\ Len(up) = n
      /\ \A i \in 1 .. n : up[i] = asked[i]
  <2>1. \A i \in 1 .. n : asked[i] \in Message
      BY <1>1, <1>2
  <2>2. 1 \in Int /\ n \in Int /\ n - 1 + 1 = n /\ 1 <= n
      BY <1>1
  <2> HIDE DEF Message
  <2>3. /\ up \in Seq(Message) /\ Len(up) = n - 1 + 1
        /\ \A i \in 1 .. n - 1 + 1 : up[i] = asked[1 + i - 1]
      BY <1>3, <2>1, <2>2, SubSeqProperties
  <2>4. \A i \in 1 .. n : 1 + i - 1 = i
      BY <2>2
  <2> QED BY <2>2, <2>3, <2>4
<1>5. DOMAIN up = 1 .. n
    BY <1>4
<1>6. copy = [i \in 1 .. n |->
                [type |-> up[i].type, uuid |-> uuids + i, said |-> up[i].said,
                 title |-> None, tag |-> None, hasTag |-> FALSE]]
    BY <1>5 DEF Sessions!Remapped, None
<1> HIDE DEF copy
<1>7. \A i \in 1 .. n : copy[i] \in Line
  <2>1. \A i \in 1 .. n : i \in 1 .. Len(lines) /\ up[i] = asked[i] /\ uuids + i \in Nat
      BY <1>1, <1>4
  <2>2. \A i \in 1 .. n : up[i] \in Message
      BY <1>2, <2>1
  <2> QED BY <1>6, <2>1, <2>2 DEF Line
<1>8. copy \in Seq(Line) /\ Len(copy) = n
    BY <1>1, <1>6, <1>7
<1>9. \A i \in 1 .. n : /\ copy[i].uuid = uuids + i /\ copy[i].title = None
                        /\ copy[i].type = lines[i].type /\ copy[i].said = lines[i].said
  <2>1. \A i \in 1 .. n : i \in 1 .. Len(lines) /\ up[i] = asked[i]
      BY <1>1, <1>4
  <2>2. \A i \in 1 .. n : up[i].type = lines[i].type /\ up[i].said = lines[i].said
      BY <1>2, <2>1
  <2> QED BY <1>6, <2>2
<1> QED BY <1>1, <1>8, <1>9 DEF n, copy, up, asked

-----------------------------------------------------------------------------
LEMMA ForkWritten ==
  ASSUME NEW copy \in Seq(Line), NEW title \in Titles \cup {None}
  PROVE  LET k == IF title = None THEN 0 ELSE 1
             lines == Sessions!WithTitle(title, copy)
         IN  /\ lines \in Seq(Line) /\ Len(lines) = k + Len(copy)
             /\ \A i \in 1 .. Len(copy) : lines[k + i] = copy[i]
             /\ k = 1 => lines[1].title = title /\ lines[1].uuid = 0
<1> DEFINE head == Sessions!Meta(title, None)
<1>1. head \in Line /\ head.title = title /\ head.uuid = 0
    BY DEF Sessions!Meta, Line
<1>2. CASE title = None
  <2>1. Sessions!WithTitle(title, copy) = copy
      BY <1>2 DEF Sessions!WithTitle, None
  <2> QED BY <1>2, <2>1
<1>3. CASE title # None
  <2> DEFINE first == <<head>>
             lines == first \o copy
  <2>1. Sessions!WithTitle(title, copy) = lines
      BY <1>3 DEF Sessions!WithTitle, None
  <2> HIDE DEF head
  <2>2. first \in Seq(Line) /\ Len(first) = 1 /\ first[1] = head
      BY <1>1
  <2> HIDE DEF first
  <2>3. Len(copy) \in Nat
      OBVIOUS
  <2>4. /\ lines \in Seq(Line) /\ Len(lines) = 1 + Len(copy)
        /\ \A i \in 1 .. 1 + Len(copy) : lines[i] = IF i <= 1 THEN first[i] ELSE copy[i - 1]
    <3>1. /\ lines \in Seq(Line) /\ Len(lines) = Len(first) + Len(copy)
          /\ \A i \in 1 .. Len(first) + Len(copy) :
               lines[i] = IF i <= Len(first) THEN first[i] ELSE copy[i - Len(first)]
        BY <2>2, ConcatProperties
    <3> HIDE DEF lines
    <3> QED BY <2>2, <3>1
  <2> HIDE DEF lines
  <2>5. lines[1] = head
      BY <2>2, <2>3, <2>4
  <2>6. \A i \in 1 .. Len(copy) : /\ 1 + i \in 1 .. 1 + Len(copy) /\ ~ 1 + i <= 1
                                  /\ (1 + i) - 1 = i
      BY <2>3
  <2>7. \A i \in 1 .. Len(copy) : lines[1 + i] = copy[i]
      BY <2>4, <2>6
  <2> QED BY <1>1, <1>3, <2>1, <2>4, <2>5, <2>7
<1> QED BY <1>2, <1>3

LEMMA ForkCorrect ==
  ASSUME SessionInv, NEW s, NEW new, NEW u, NEW title \in Titles \cup {None},
         Sessions!ForkSession(s, new, u, title)
  PROVE  SessionInv'
<1> DEFINE source == files[s]
           n == Sessions!First(source, u)
           copy == Sessions!Remapped(Sessions!UpTo(Sessions!readAllMessages(source), u))
           k == IF title = None THEN 0 ELSE 1
           lines == Sessions!WithTitle(title, copy)
           original == SubSeq(source, 1, n)
<1>1. /\ s \in DOMAIN files /\ Sessions!HasMessage(Sessions!readAllMessages(source), u)
      /\ new \in Sessions!Ids /\ new # 1 /\ new \notin DOMAIN forked
      /\ uuids' = uuids + Len(copy)
      /\ files' = Sessions!With(files, new, lines)
      /\ named' = [named EXCEPT ![new] = IF title = None THEN 0 ELSE 1]
      /\ forked' = Sessions!With(forked, new, original)
    BY DEF Sessions!ForkSession, Sessions!Exists, None
<1>2. source \in Seq(Line) /\ uuids \in Nat
    BY <1>1 DEF SessionInv, LinesInv
<1> HIDE DEF source
<1>3. /\ n \in 1 .. Len(source) /\ copy \in Seq(Line) /\ Len(copy) = n
      /\ \A i \in 1 .. n : /\ copy[i].uuid = uuids + i /\ copy[i].title = None
                           /\ copy[i].type = source[i].type /\ copy[i].said = source[i].said
    BY <1>1, <1>2, CopyMade
<1> HIDE DEF copy, n
<1>4. /\ lines \in Seq(Line) /\ Len(lines) = k + n
      /\ \A i \in 1 .. n : lines[k + i] = copy[i]
      /\ k = 1 => lines[1].title = title /\ lines[1].uuid = 0
    BY <1>3, ForkWritten
<1>5. k \in {0, 1} /\ n \in Nat /\ uuids' \in Nat /\ uuids' = uuids + n /\ DOMAIN lines = 1 .. k + n
  <2>1. Len(source) \in Nat
      BY <1>2
  <2>2. DOMAIN lines = 1 .. k + n
      BY <1>4
  <2> QED BY <1>1, <1>2, <1>3, <2>1, <2>2
<1>6. /\ original \in Seq(Line) /\ DOMAIN original = 1 .. n
      /\ \A i \in 1 .. n : original[i] = source[i]
  <2>1. \A i \in 1 .. n : source[i] \in Line
      BY <1>2, <1>3
  <2>2. 1 \in Int /\ n \in Int /\ n - 1 + 1 = n /\ 1 <= n
      BY <1>3, <1>5
  <2>3. /\ original \in Seq(Line) /\ Len(original) = n
        /\ \A i \in 1 .. n : original[i] = source[1 + i - 1]
      BY <2>1, <2>2, SubSeqProperties
  <2> HIDE DEF original
  <2>4. \A i \in 1 .. n : 1 + i - 1 = i
      BY <2>2
  <2>5. DOMAIN original = 1 .. n
      BY <2>3
  <2> QED BY <2>3, <2>4, <2>5
<1>7. k = 0 => title = None
    OBVIOUS
<1>8. k = 1 => title # None
    OBVIOUS
<1>9. named' = [named EXCEPT ![new] = k]
    BY <1>1
<1> HIDE DEF lines, original, k
<1>10. /\ DOMAIN files' = DOMAIN files \cup {new} /\ DOMAIN forked' = DOMAIN forked \cup {new}
       /\ files'[new] = lines /\ forked'[new] = original
       /\ \A t \in DOMAIN files : t # new /\ files'[t] = files[t]
       /\ \A t \in DOMAIN forked : t # new /\ forked'[t] = forked[t]
  <2>1. new \notin DOMAIN files
      BY <1>1 DEF SessionInv, LinesInv
  <2> QED BY <1>1, <2>1 DEF Sessions!With
<1>11. LinesInv'
  <2>1. DOMAIN files' \subseteq {1} \cup DOMAIN forked'
      BY <1>10 DEF SessionInv, LinesInv
  <2>2. \A t \in DOMAIN files' : files'[t] \in Seq(Line)
      BY <1>4, <1>10 DEF SessionInv, LinesInv
  <2>3. \A t \in DOMAIN forked' : forked'[t] \in Seq(Line)
      BY <1>6, <1>10 DEF SessionInv, LinesInv
  <2> QED BY <1>5, <2>1, <2>2, <2>3 DEF LinesInv
\* A line of the fork is that of its title or one of the copy.
<1>12. \A i \in 1 .. k + n : (k = 1 /\ i = 1) \/ \E j \in 1 .. n : i = k + j /\ lines[i] = copy[j]
  <2> SUFFICES ASSUME NEW i \in 1 .. k + n, ~ (k = 1 /\ i = 1)
               PROVE  \E j \in 1 .. n : i = k + j /\ lines[i] = copy[j]
      OBVIOUS
  <2>1. i - k \in 1 .. n /\ i = k + (i - k)
      BY <1>5
  <2> QED BY <1>4, <2>1
<1>13. TitleInv'
  <2>1. named' \in [Sessions!Ids -> Nat]
    <3>1. named \in [Sessions!Ids -> Nat] /\ k \in Nat
        BY <1>5 DEF SessionInv, TitleInv
    <3> QED BY <1>9, <3>1
  <2>2. IsNamed(lines, k)
    <3>1. \A i \in 1 .. k + n : i > k => lines[i].title = None
        BY <1>3, <1>5, <1>12
    <3>2. k # 0 => lines[k].title # None
        BY <1>4, <1>5, <1>8
    <3> QED BY <1>4, <1>5, <3>1, <3>2 DEF IsNamed
  <2>3. ASSUME NEW t \in Sessions!Ids, t \in DOMAIN files'
        PROVE  IsNamed(files'[t], named'[t])
    <3>1. named \in [Sessions!Ids -> Nat]
        BY DEF SessionInv, TitleInv
    <3>2. CASE t = new
        BY <1>9, <1>10, <2>2, <2>3, <3>1, <3>2
    <3>3. CASE t # new
      <4>1. IsNamed(files[t], named[t])
          BY <1>10, <2>3, <3>3 DEF SessionInv, TitleInv
      <4> QED BY <1>9, <1>10, <2>3, <3>1, <3>3, <4>1
    <3> QED BY <3>2, <3>3
  <2> QED BY <2>1, <2>3 DEF TitleInv
\* The UUIDs of the fork are new.
<1>14. \A i \in DOMAIN lines :
         lines[i].uuid = 0 \/ \E j \in 1 .. n : i = k + j /\ lines[i].uuid = uuids + j
  <2> SUFFICES ASSUME NEW i \in 1 .. k + n, lines[i].uuid # 0
               PROVE  \E j \in 1 .. n : i = k + j /\ lines[i].uuid = uuids + j
      BY <1>5
  <2>1. ~ (k = 1 /\ i = 1)
      BY <1>4
  <2>2. PICK j \in 1 .. n : i = k + j /\ lines[i] = copy[j]
      BY <1>12, <2>1
  <2>3. copy[j].uuid = uuids + j
      BY <1>3
  <2> QED BY <2>2, <2>3
<1>15. ASSUME NEW t \in DOMAIN files, NEW i \in DOMAIN files[t]
       PROVE  files[t][i].uuid \in Nat /\ files[t][i].uuid <= uuids
  <2>1. files[t][i] \in Line
      BY <1>15 DEF SessionInv, LinesInv
  <2> QED BY <1>15, <2>1 DEF SessionInv, UUIDInv, Line
<1>16. UUIDInv'
  <2> SUFFICES ASSUME NEW t \in DOMAIN files', NEW i \in DOMAIN files'[t]
               PROVE  files'[t][i].uuid <= uuids'
      BY DEF UUIDInv
  <2>1. CASE t = new
    <3>1. i \in DOMAIN lines /\ files'[t][i] = lines[i]
        BY <1>10, <2>1
    <3> QED BY <1>2, <1>5, <1>14, <3>1
  <2>2. CASE t # new
    <3>1. t \in DOMAIN files /\ i \in DOMAIN files[t] /\ files'[t][i] = files[t][i]
        BY <1>10, <2>2
    <3>2. files[t][i].uuid \in Nat /\ files[t][i].uuid <= uuids
        BY <1>15, <3>1
    <3> QED BY <1>2, <1>5, <3>1, <3>2
  <2> QED BY <2>1, <2>2
<1>17. Sessions!ForksApart'
  <2>1. ASSUME NEW t \in DOMAIN files' \cap DOMAIN forked'
        PROVE  \E o \in {0, 1} : \A i \in DOMAIN forked'[t] :
                 /\ o + i \in DOMAIN files'[t]
                 /\ files'[t][o + i].type = forked'[t][i].type
                 /\ files'[t][o + i].said = forked'[t][i].said
    <3>1. CASE t = new
      <4>1. \A i \in 1 .. n : /\ k + i \in 1 .. k + n
                              /\ lines[k + i].type = original[i].type
                              /\ lines[k + i].said = original[i].said
        <5>1. \A i \in 1 .. n : k + i \in 1 .. k + n
            BY <1>5
        <5> QED BY <1>3, <1>4, <1>6, <5>1
      <4>2. DOMAIN forked'[t] = 1 .. n /\ DOMAIN files'[t] = 1 .. k + n
          BY <1>5, <1>6, <1>10, <3>1
      <4>3. files'[t] = lines /\ forked'[t] = original
          BY <1>10, <3>1
      <4> QED BY <1>5, <4>1, <4>2, <4>3
    <3>2. CASE t # new
      <4>1. /\ t \in DOMAIN files \cap DOMAIN forked
            /\ files'[t] = files[t] /\ forked'[t] = forked[t]
          BY <1>10, <2>1, <3>2
      <4> QED BY <4>1 DEF SessionInv, Sessions!ForksApart
    <3> QED BY <3>1, <3>2
  <2>2. ASSUME NEW t \in DOMAIN files', NEW r \in DOMAIN files',
               NEW i \in DOMAIN files'[t], NEW j \in DOMAIN files'[r],
               files'[t][i].uuid = files'[r][j].uuid, files'[t][i].uuid # 0
        PROVE  <<t, i>> = <<r, j>>
    <3>1. \A v \in DOMAIN files' : v = new \/ (v \in DOMAIN files /\ files'[v] = files[v])
        BY <1>10
    <3>2. CASE t = new /\ r = new
      <4>1. /\ i \in DOMAIN lines /\ j \in DOMAIN lines
            /\ lines[i].uuid = lines[j].uuid /\ lines[i].uuid # 0
          BY <1>10, <2>2, <3>2
      <4>2. i = j
          BY <1>2, <1>5, <1>14, <4>1
      <4> QED BY <3>2, <4>2
    <3>3. ASSUME NEW v \in DOMAIN files, NEW x \in DOMAIN files[v], NEW y \in DOMAIN lines
          PROVE  lines[y].uuid = files[v][x].uuid => lines[y].uuid = 0
      <4>1. files[v][x].uuid \in Nat /\ files[v][x].uuid <= uuids
          BY <1>15
      <4> QED BY <1>2, <1>14, <4>1
    <3>4. CASE t = new /\ r # new
        BY <1>10, <2>2, <3>1, <3>3, <3>4
    <3>5. CASE t # new /\ r = new
        BY <1>10, <2>2, <3>1, <3>3, <3>5
    <3>6. CASE t # new /\ r # new
        BY <2>2, <3>1, <3>6 DEF SessionInv, Sessions!ForksApart
    <3> QED BY <3>2, <3>4, <3>5, <3>6
  <2> QED BY <2>1, <2>2 DEF Sessions!ForksApart
<1> QED BY <1>11, <1>13, <1>16, <1>17 DEF SessionInv

LEMMA SessionCorrect ==
  ASSUME SessionInv, Sessions!Next \/ UNCHANGED sessionVars
  PROVE  SessionInv'
<1>1. CASE Sessions!Next
  <2>1. PICK s \in Sessions!Ids :
          \/ Sessions!AppendMessage(s)
          \/ \E title \in Titles : Sessions!RenameSession(s, title)
          \/ \E tag \in Tags \cup {None} : Sessions!TagSession(s, tag)
          \/ Sessions!DeleteSession(s)
          \/ \E new \in Sessions!Ids, u \in 0 .. uuids, title \in Titles \cup {None} :
               Sessions!ForkSession(s, new, u, title)
      BY <1>1 DEF Sessions!Next, None
  <2> QED BY <2>1, AppendMessageCorrect, RenameTagCorrect, DeleteCorrect, ForkCorrect
<1>2. CASE UNCHANGED sessionVars
    BY <1>2 DEF sessionVars, SessionInv, LinesInv, TitleInv, UUIDInv, IsNamed,
       Sessions!ForksApart
<1> QED BY <1>1, <1>2

(***************************************************************************)
(* ListSessions and GetSessionInfo show the last title given to a session   *)
(* as long as its line is among those of the head or the tail; a fork keeps *)
(* the lines it was asked for, and no UUID of a message is given twice,     *)
(* whatever is appended, renamed, tagged, deleted and forked (ForkSession,  *)
(* appendLine, readSessionInfo).                                            *)
(***************************************************************************)
THEOREM SessionFilesCorrect == Spec => []SessionFilesHold
<1>1. SessionInv => SessionFilesHold
    BY TitlesMean DEF SessionFilesHold, SessionInv
<1>2. SessionInv /\ [Next]_vars => SessionInv'
    BY SessionStep, SessionCorrect
<1> QED BY <1>1, <1>2, SessionInit, PTL DEF Spec
=============================================================================
