------------------------------ MODULE IcdLemmas ------------------------------
(***************************************************************************)
(* Facts about the sessions of IcdSession, for every sequence of packets: what *)
(* appending one packet does to the packets of a kind, to their number and to   *)
(* the last telemetry, and when the order allows the next packet.  The proofs  *)
(* about the code that sends sessions instantiate this module.               *)
(***************************************************************************)
EXTENDS IcdSession, FiniteSetTheorems, WellFoundedInduction, TLAPS

\* A packet more: what Append does to a sequence of packets.
LEMMA LongerBy ==
    ASSUME NEW S, NEW ps \in Seq(S), NEW p \in S
    PROVE  /\ Append(ps, p) \in Seq(S) /\ Len(ps) \in Nat
           /\ Len(Append(ps, p)) = Len(ps) + 1
           /\ DOMAIN ps = 1 .. Len(ps) /\ DOMAIN Append(ps, p) = 1 .. Len(ps) + 1
           /\ \A k \in 1 .. Len(ps) : Append(ps, p)[k] = ps[k]
           /\ Append(ps, p)[Len(ps) + 1] = p /\ Last(Append(ps, p)) = p
BY DEF Last

\* Append adds its position to the packets of its kind, and to no other kind.
LEMMA OfAppend ==
    ASSUME NEW S, NEW ps \in Seq(S), NEW p \in S, NEW id
    PROVE  /\ p.id = id => Of(Append(ps, p), id) = Of(ps, id) \cup {Len(ps) + 1}
           /\ p.id # id => Of(Append(ps, p), id) = Of(ps, id)
           /\ Len(ps) + 1 \notin Of(ps, id)
           /\ Of(ps, id) \subseteq 1 .. Len(ps)
<1>1. \A n \in Nat : \A k \in 1 .. n + 1 : k \in 1 .. n \/ k = n + 1
  OBVIOUS
<1>2. \A n \in Nat : n + 1 \notin 1 .. n /\ n + 1 \in 1 .. n + 1
  OBVIOUS
<1>3. \A n \in Nat : \A k \in 1 .. n : k \in 1 .. n + 1 /\ k # n + 1
  OBVIOUS
<1> QED BY <1>1, <1>2, <1>3, LongerBy DEF Of

\* A packet of a kind was there before, or it is the one appended.
LEMMA NewOf ==
    ASSUME NEW S, NEW ps \in Seq(S), NEW p \in S, NEW id, NEW k \in Of(Append(ps, p), id)
    PROVE  k \in Of(ps, id) \/ (k = Len(ps) + 1 /\ p.id = id)
<1>1. CASE p.id = id
  BY <1>1, OfAppend
<1>2. CASE p.id # id
  BY <1>2, OfAppend
<1> QED BY <1>1, <1>2

\* Append counts one more of its kind, and no more of any other.
LEMMA CountAppend ==
    ASSUME NEW S, NEW ps \in Seq(S), NEW p \in S, NEW id
    PROVE  /\ Count(ps, id) \in Nat
           /\ p.id = id => Count(Append(ps, p), id) = Count(ps, id) + 1
           /\ p.id # id => Count(Append(ps, p), id) = Count(ps, id)
<1>1. IsFiniteSet(Of(ps, id))
  <2>1. Len(ps) \in Int /\ 1 \in Int
    BY LongerBy
  <2>2. IsFiniteSet(1 .. Len(ps))
    BY <2>1, FS_Interval
  <2> QED BY <2>2, OfAppend, FS_Subset
<1>2. Count(ps, id) \in Nat
  BY <1>1, FS_CardinalityType DEF Count
<1>3. Cardinality(Of(ps, id) \cup {Len(ps) + 1}) = Cardinality(Of(ps, id)) + 1
  BY <1>1, OfAppend, FS_AddElement
<1>4. CASE p.id = id
  <2>1. Of(Append(ps, p), id) = Of(ps, id) \cup {Len(ps) + 1}
    BY <1>4, OfAppend
  <2>2. Cardinality(Of(Append(ps, p), id)) = Cardinality(Of(ps, id)) + 1
    BY <1>3, <2>1
  <2> QED BY <1>2, <1>4, <2>2 DEF Count
<1>5. CASE p.id # id
  BY <1>2, <1>5, OfAppend DEF Count
<1> QED BY <1>4, <1>5

\* The telemetry before a position, and the latest of it.
Before(ps, k) == {j \in Of(ps, "IMAGER_TELEMETRY") : j < k}

IsLatest(ps, k, j) == j \in Before(ps, k) /\ \A m \in Before(ps, k) : m <= j

\* The time of the last telemetry before a position is that of the latest such packet.
LEMMA TimeOfLatest ==
    ASSUME NEW S, NEW ps \in Seq(S), NEW k \in Int
    PROVE  /\ Before(ps, k) = {} => LastTelemetry(ps, k) = 0
           /\ \A j : IsLatest(ps, k, j) => LastTelemetry(ps, k) = ps[j].imager_time
<1>1. CASE Before(ps, k) = {}
  BY <1>1 DEF Before, LastTelemetry, IsLatest
<1>2. ASSUME NEW j, IsLatest(ps, k, j) PROVE LastTelemetry(ps, k) = ps[j].imager_time
  <2> DEFINE c == CHOOSE i \in Before(ps, k) : \A m \in Before(ps, k) : m <= i
  <2>1. c \in Before(ps, k) /\ (\A m \in Before(ps, k) : m <= c)
    BY <1>2 DEF IsLatest
  <2>2. LastTelemetry(ps, k) = ps[c].imager_time
    BY <2>1 DEF Before, LastTelemetry
  <2> HIDE DEF c
  <2>3. c <= j /\ j <= c
    BY <1>2, <2>1 DEF IsLatest
  <2>4. Before(ps, k) \subseteq 1 .. Len(ps) /\ Len(ps) \in Nat
    BY DEF Of, Before
  <2>5. c \in Nat /\ j \in Nat
    BY <1>2, <2>1, <2>4 DEF IsLatest
  <2>6. c = j
    BY <2>3, <2>5
  <2> QED BY <2>2, <2>6
<1> QED BY <1>1, <1>2 DEF IsLatest

\* Which telemetry precedes a position, when one more packet is there.
LEMMA BeforeAppend ==
    ASSUME NEW S, NEW ps \in Seq(S), NEW p \in S, NEW k \in Int
    PROVE  /\ k <= Len(ps) + 1 => Before(Append(ps, p), k) = Before(ps, k)
           /\ p.id # "IMAGER_TELEMETRY" => Before(Append(ps, p), k) = Before(ps, k)
           /\ k > Len(ps) => Before(ps, k) = Before(ps, Len(ps) + 1)
           /\ k > Len(ps) + 1 /\ p.id = "IMAGER_TELEMETRY"
              => IsLatest(Append(ps, p), k, Len(ps) + 1)
           /\ \A j \in Before(ps, k) : Append(ps, p)[j] = ps[j]
<1> DEFINE T(s) == Of(s, "IMAGER_TELEMETRY")
<1>1. /\ T(ps) \subseteq 1 .. Len(ps) /\ Len(ps) \in Nat
      /\ p.id = "IMAGER_TELEMETRY" => T(Append(ps, p)) = T(ps) \cup {Len(ps) + 1}
      /\ p.id # "IMAGER_TELEMETRY" => T(Append(ps, p)) = T(ps)
      /\ \A j \in 1 .. Len(ps) : Append(ps, p)[j] = ps[j]
  BY LongerBy, OfAppend
<1> HIDE DEF T
<1>2. \A j \in T(ps) : j \in Nat /\ j <= Len(ps)
  BY <1>1
<1>3. \A s, i : Before(s, i) = {j \in T(s) : j < i}
  BY DEF Before, T
<1>4. k <= Len(ps) + 1 => Before(Append(ps, p), k) = Before(ps, k)
  <2>1. \A n \in Nat : k <= n + 1 => ~(n + 1 < k)
    OBVIOUS
  <2>2. k <= Len(ps) + 1 => \A j : j \in T(Append(ps, p)) /\ j < k <=> j \in T(ps) /\ j < k
    BY <1>1, <2>1
  <2> QED BY <1>3, <2>2
<1>5. k > Len(ps) => Before(ps, k) = Before(ps, Len(ps) + 1)
  <2>1. \A n \in Nat : k > n => \A j \in Nat : j <= n => j < k /\ j < n + 1
    OBVIOUS
  <2>2. k > Len(ps) => \A j \in T(ps) : j < k /\ j < Len(ps) + 1
    BY <1>1, <1>2, <2>1
  <2> QED BY <1>3, <2>2
<1>6. k > Len(ps) + 1 /\ p.id = "IMAGER_TELEMETRY"
      => IsLatest(Append(ps, p), k, Len(ps) + 1)
  BY <1>1, <1>2, <1>3 DEF IsLatest
<1> QED BY <1>1, <1>3, <1>4, <1>5, <1>6

\* A finite set of positions has a largest.
LEMMA LargestNumber ==
    ASSUME NEW n \in Nat, NEW B \in SUBSET (1 .. n), B # {}
    PROVE  \E j \in B : \A m \in B : m <= j
<1> DEFINE T == {n - x : x \in B}
<1>1. T \subseteq Nat /\ T # {}
  <2>1. \A x \in 1 .. n : n - x \in Nat
    OBVIOUS
  <2> QED BY <2>1
<1>2. PICK y \in T : \A z \in T : ~ (<<z, y>> \in OpToRel(<, Nat))
  <2> HIDE DEF T
  <2> QED BY <1>1, NatLessThanWellFounded, WFMin
<1>3. \A z \in T : ~(z < y)
  BY <1>1, <1>2 DEF OpToRel
<1>4. PICK j \in B : y = n - j
  OBVIOUS
<1>5. ASSUME NEW m \in B PROVE m <= j
  <2>1. ~(n - m < n - j) /\ m \in Nat /\ j \in Nat
    BY <1>3, <1>4
  <2> QED BY <2>1
<1> QED BY <1>5

\* When telemetry precedes a position, one of it is the latest.
LEMMA SomeIsLatest ==
    ASSUME NEW S, NEW ps \in Seq(S), NEW k, Before(ps, k) # {}
    PROVE  \E j : IsLatest(ps, k, j)
<1>1. Before(ps, k) \subseteq 1 .. Len(ps) /\ Len(ps) \in Nat
  BY DEF Before, Of
<1> QED BY <1>1, LargestNumber DEF IsLatest

\* Append changes the last telemetry of no position up to its own.
LEMMA LastTelemetryAppend ==
    ASSUME NEW S, NEW ps \in Seq(S), NEW p \in S
    PROVE  /\ \A k \in 1 .. Len(ps) + 1 :
                 LastTelemetry(Append(ps, p), k) = LastTelemetry(ps, k)
           /\ LastTelemetry(Append(ps, p), Len(ps) + 2)
              = IF p.id = "IMAGER_TELEMETRY" THEN p.imager_time
                ELSE LastTelemetry(ps, Len(ps) + 1)
<1> DEFINE qs == Append(ps, p)
           n  == Len(ps)
<1>1. qs \in Seq(S) /\ n \in Nat /\ qs[n + 1] = p
  BY LongerBy
<1>2. ASSUME NEW a \in Int, NEW b \in Int, Before(qs, a) = Before(ps, b),
             \A j \in Before(ps, b) : qs[j] = ps[j]
      PROVE  LastTelemetry(qs, a) = LastTelemetry(ps, b)
  <2>1. CASE Before(ps, b) = {}
    BY <1>1, <1>2, <2>1, TimeOfLatest
  <2>2. CASE Before(ps, b) # {}
    <3>1. PICK j : IsLatest(ps, b, j)
      BY <2>2, SomeIsLatest
    <3>2. IsLatest(qs, a, j) /\ qs[j] = ps[j]
      BY <1>2, <3>1 DEF IsLatest
    <3> QED BY <1>1, <3>1, <3>2, TimeOfLatest
  <2> QED BY <2>1, <2>2
<1>3. \A k \in Int : k <= n + 1 \/ p.id # "IMAGER_TELEMETRY"
          => LastTelemetry(qs, k) = LastTelemetry(ps, k)
  BY <1>2, BeforeAppend
<1>4. ASSUME p.id = "IMAGER_TELEMETRY", NEW k \in Int, k > n + 1
      PROVE  LastTelemetry(qs, k) = p.imager_time
  <2>1. IsLatest(qs, k, n + 1)
    BY <1>4, BeforeAppend
  <2> QED BY <1>1, <2>1, TimeOfLatest
<1>5. LastTelemetry(ps, n + 2) = LastTelemetry(ps, n + 1)
  <2>1. Before(ps, n + 2) = Before(ps, n + 1) /\ n + 2 \in Int /\ n + 1 \in Int
    BY <1>1, BeforeAppend
  <2>2. CASE Before(ps, n + 1) = {}
    BY <2>1, <2>2, TimeOfLatest
  <2>3. CASE Before(ps, n + 1) # {}
    <3>1. PICK j : IsLatest(ps, n + 1, j)
      BY <2>3, SomeIsLatest
    <3>2. IsLatest(ps, n + 2, j)
      BY <2>1, <3>1 DEF IsLatest
    <3> QED BY <2>1, <3>1, <3>2, TimeOfLatest
  <2> QED BY <2>2, <2>3
<1>6. n + 2 \in Int /\ n + 2 > n + 1 /\ \A k \in 1 .. n + 1 : k \in Int /\ k <= n + 1
  BY <1>1
<1> HIDE DEF qs, n
<1>7. LastTelemetry(qs, n + 2) = IF p.id = "IMAGER_TELEMETRY" THEN p.imager_time
                                 ELSE LastTelemetry(ps, n + 1)
  BY <1>3, <1>4, <1>5, <1>6
<1> QED BY <1>3, <1>6, <1>7 DEF qs, n

(***************************************************************************)
(* A session as it grows.                                                   *)
(***************************************************************************)
\* The packets begin as the opening does.
Opened(ps) == \A k \in DOMAIN ps : k <= 5 => ps[k].id = Opening[k]

\* Cadence while no final telemetry has been sent: all telemetry was due.
OnTime(ps) ==
    /\ \A k \in Of(ps, "EXPOSURE_START") :
          ps[k].imager_time - LastTelemetry(ps, k) < Interval
    /\ \A k \in Of(ps, "IMAGER_TELEMETRY") :
          ps[k].imager_time - LastTelemetry(ps, k) >= Interval

\* A session past its opening and not at its end, with what was counted so far.
InSession(ps, exposures, lines, time) ==
    /\ Opened(ps) /\ Len(ps) >= 5 /\ OnTime(ps)
    /\ Last(ps).id # "SESSION_END" /\ Count(ps, "SESSION_END") = 0
    /\ Count(ps, "EXPOSURE_START") = exposures
    /\ Count(ps, "LINE_DATA") = lines
    /\ LastTelemetry(ps, Len(ps) + 1) = time

\* The opening has no packet of a line and no end.
LEMMA OpeningIds ==
    ASSUME NEW k \in 1 .. 5
    PROVE  Opening[k] \notin {"EXPOSURE_START", "LINE_DATA", "IMAGER_TELEMETRY", "SESSION_END"}
BY DEF Opening

\* The next packet of the opening may be sent, and the fifth starts the session.
LEMMA OpeningAppend ==
    ASSUME NEW S, NEW ps \in Seq(S), NEW p \in S, Opened(ps), Len(ps) < 5,
           p.id = Opening[Len(ps) + 1]
    PROVE  /\ Allowed(ps, p) /\ Opened(Append(ps, p))
           /\ Len(ps) = 4 => InSession(Append(ps, p), 0, 0, 0)
           /\ OnCadence(Append(ps, p)) /\ Of(Append(ps, p), "SESSION_END") = {}
<1> DEFINE qs == Append(ps, p)
<1>1. /\ qs \in Seq(S) /\ Len(ps) \in Nat /\ Len(qs) = Len(ps) + 1
      /\ DOMAIN ps = 1 .. Len(ps) /\ DOMAIN qs = 1 .. Len(ps) + 1
      /\ \A k \in 1 .. Len(ps) : qs[k] = ps[k]
      /\ qs[Len(ps) + 1] = p /\ Last(qs) = p
  BY LongerBy
<1> HIDE DEF qs
<1>2. \A k \in DOMAIN qs : k \in 1 .. 5 /\ qs[k].id = Opening[k]
  <2>1. \A k \in DOMAIN qs : k \in 1 .. 5 /\ (k \in DOMAIN ps \/ k = Len(ps) + 1)
    BY <1>1
  <2> QED BY <1>1, <2>1 DEF Opened
<1>3. ASSUME NEW id \in {"EXPOSURE_START", "LINE_DATA", "IMAGER_TELEMETRY", "SESSION_END"}
      PROVE  Of(qs, id) = {}
  BY <1>2, OpeningIds DEF Of
<1>4. Opened(qs)
  BY <1>2 DEF Opened
<1>5. Allowed(ps, p)
  BY DEF Allowed, Opening
<1>6. OnTime(qs) /\ OnCadence(qs)
  BY <1>3 DEF OnTime, OnCadence
<1>7. ASSUME Len(ps) = 4 PROVE InSession(qs, 0, 0, 0)
  <2>1. Count(qs, "EXPOSURE_START") = 0 /\ Count(qs, "LINE_DATA") = 0
        /\ Count(qs, "SESSION_END") = 0
    BY <1>3, FS_EmptySet DEF Count
  <2>2. Last(qs).id # "SESSION_END" /\ Len(qs) >= 5
    BY <1>1, <1>7 DEF Opening
  <2>3. Before(qs, Len(qs) + 1) = {} /\ Len(qs) + 1 \in Int
    BY <1>1, <1>3 DEF Before
  <2>4. LastTelemetry(qs, Len(qs) + 1) = 0
    BY <1>1, <2>3, TimeOfLatest
  <2> QED BY <1>4, <1>6, <2>1, <2>2, <2>4 DEF InSession
<1> QED BY <1>3, <1>4, <1>5, <1>6, <1>7 DEF qs

\* What later packets do not change: the first five, and what was counted of other kinds.
LEMMA KeptAppend ==
    ASSUME NEW S, NEW ps \in Seq(S), NEW p \in S, Opened(ps), Len(ps) >= 5
    PROVE  LET qs == Append(ps, p) IN
           /\ qs \in Seq(S) /\ Len(qs) >= 5 /\ Len(qs) = Len(ps) + 1 /\ Opened(qs)
           /\ Last(qs) = p /\ Bands(qs) = Bands(ps) /\ Lines(qs) = Lines(ps)
           /\ qs[1] = ps[1]
<1>1. \A n \in Nat : n >= 5 => /\ 1 \in 1 .. n /\ 3 \in 1 .. n /\ 5 \in 1 .. n /\ n + 1 >= 5
                               /\ ~(n + 1 <= 5)
                               /\ \A k \in 1 .. n + 1 : k <= 5 => k \in 1 .. n
  OBVIOUS
<1> QED BY <1>1, LongerBy DEF Opened, Bands, Lines

\* Telemetry that is due, an exposure that it is not due for, and line data.
LEMMA SessionAppend ==
    ASSUME NEW S, NEW ps \in Seq(S), NEW p \in S, NEW e \in Nat, NEW c \in Nat, NEW t,
           InSession(ps, e, c, t),
           p.id \in {"IMAGER_TELEMETRY", "EXPOSURE_START", "LINE_DATA"},
           p.id = "IMAGER_TELEMETRY" => p.imager_time - t >= Interval,
           p.id = "EXPOSURE_START" => p.imager_time - t < Interval
    PROVE  InSession(Append(ps, p),
                     IF p.id = "EXPOSURE_START" THEN e + 1 ELSE e,
                     IF p.id = "LINE_DATA" THEN c + 1 ELSE c,
                     IF p.id = "IMAGER_TELEMETRY" THEN p.imager_time ELSE t)
<1> DEFINE qs == Append(ps, p)
<1>1. /\ Len(ps) \in Nat /\ Len(qs) = Len(ps) + 1
      /\ \A k \in 1 .. Len(ps) : qs[k] = ps[k]
      /\ qs[Len(ps) + 1] = p
  BY LongerBy
<1>2. Opened(qs) /\ Len(qs) >= 5 /\ Last(qs) = p
  BY KeptAppend DEF InSession
<1>3. /\ \A k \in 1 .. Len(ps) + 1 : LastTelemetry(qs, k) = LastTelemetry(ps, k)
      /\ LastTelemetry(qs, Len(ps) + 2)
         = IF p.id = "IMAGER_TELEMETRY" THEN p.imager_time ELSE t
      /\ LastTelemetry(ps, Len(ps) + 1) = t
  BY LastTelemetryAppend DEF InSession
<1>4. /\ Count(qs, "EXPOSURE_START") = IF p.id = "EXPOSURE_START" THEN e + 1 ELSE e
      /\ Count(qs, "LINE_DATA") = IF p.id = "LINE_DATA" THEN c + 1 ELSE c
      /\ Count(qs, "SESSION_END") = 0
  BY CountAppend DEF InSession
<1>5. ASSUME NEW id
      PROVE  /\ Of(ps, id) \subseteq 1 .. Len(ps)
             /\ \A k \in Of(qs, id) : k \in Of(ps, id) \/ (k = Len(ps) + 1 /\ p.id = id)
  <2> HIDE DEF qs
  <2>1. qs = Append(ps, p)
    BY DEF qs
  <2> QED BY <2>1, OfAppend, NewOf
<1> HIDE DEF qs
<1>6. \A k \in 1 .. Len(ps) : k \in 1 .. Len(ps) + 1
  BY <1>1
<1>7. Len(ps) + 1 \in 1 .. Len(ps) + 1 /\ Len(qs) + 1 = Len(ps) + 2
  BY <1>1
<1>8. OnTime(qs)
  <2>1. ASSUME NEW k \in Of(qs, "EXPOSURE_START")
        PROVE  qs[k].imager_time - LastTelemetry(qs, k) < Interval
    BY <1>1, <1>3, <1>5, <1>6, <1>7, <2>1 DEF InSession, OnTime
  <2>2. ASSUME NEW k \in Of(qs, "IMAGER_TELEMETRY")
        PROVE  qs[k].imager_time - LastTelemetry(qs, k) >= Interval
    BY <1>1, <1>3, <1>5, <1>6, <1>7, <2>2 DEF InSession, OnTime
  <2> QED BY <2>1, <2>2 DEF OnTime
<1>9. LastTelemetry(qs, Len(qs) + 1) = IF p.id = "IMAGER_TELEMETRY" THEN p.imager_time ELSE t
  BY <1>3, <1>7
<1>10. Last(qs).id # "SESSION_END"
  BY <1>2
<1>11. InSession(qs, IF p.id = "EXPOSURE_START" THEN e + 1 ELSE e,
                     IF p.id = "LINE_DATA" THEN c + 1 ELSE c,
                     IF p.id = "IMAGER_TELEMETRY" THEN p.imager_time ELSE t)
  BY <1>2, <1>4, <1>8, <1>9, <1>10 DEF InSession
<1> QED BY <1>11 DEF qs

\* While the session runs, all of its telemetry was due.
LEMMA SessionOnCadence ==
    ASSUME NEW ps, OnTime(ps)
    PROVE  OnCadence(ps)
BY DEF OnTime, OnCadence

\* The final telemetry need not be due; it and the end of the session keep the cadence.
LEMMA ClosingAppend ==
    ASSUME NEW S, NEW ps \in Seq(S), NEW p \in S, OnCadence(ps),
           p.id \in {"IMAGER_TELEMETRY", "SESSION_END"}
    PROVE  /\ OnCadence(Append(ps, p))
           /\ Count(Append(ps, p), "EXPOSURE_START") = Count(ps, "EXPOSURE_START")
           /\ Count(Append(ps, p), "LINE_DATA") = Count(ps, "LINE_DATA")
<1> DEFINE qs == Append(ps, p)
<1>1. /\ Len(ps) \in Nat /\ \A k \in 1 .. Len(ps) : qs[k] = ps[k]
  BY LongerBy
<1>2. \A k \in 1 .. Len(ps) : k \in 1 .. Len(ps) + 1 /\ ~(k > Len(ps) + 1) /\ k < Len(ps) + 1
  BY <1>1
<1>3. \A k \in 1 .. Len(ps) : LastTelemetry(qs, k) = LastTelemetry(ps, k)
  BY <1>2, LastTelemetryAppend
<1>4. /\ Of(qs, "EXPOSURE_START") = Of(ps, "EXPOSURE_START")
      /\ Of(qs, "LINE_DATA") = Of(ps, "LINE_DATA")
      /\ Of(ps, "EXPOSURE_START") \subseteq 1 .. Len(ps)
      /\ Of(ps, "IMAGER_TELEMETRY") \subseteq 1 .. Len(ps)
      /\ \A k \in Of(qs, "IMAGER_TELEMETRY") :
            k \in Of(ps, "IMAGER_TELEMETRY") \/ k = Len(ps) + 1
  <2>1. p.id # "EXPOSURE_START" /\ p.id # "LINE_DATA"
    OBVIOUS
  <2>2. Of(qs, "EXPOSURE_START") = Of(ps, "EXPOSURE_START")
    BY <2>1, OfAppend
  <2>3. Of(qs, "LINE_DATA") = Of(ps, "LINE_DATA")
    BY <2>1, OfAppend
  <2> QED BY <2>2, <2>3, OfAppend, NewOf
<1> HIDE DEF qs
<1>5. OnCadence(qs)
  BY <1>1, <1>2, <1>3, <1>4 DEF OnCadence
<1> QED BY <1>4, <1>5 DEF Count, qs

(***************************************************************************)
(* What may be sent.                                                        *)
(***************************************************************************)
\* Row-major numbering: line and band of the packets before the end of a line.
LEMMA MulApart ==
    ASSUME NEW n \in Nat, NEW l \in Nat, NEW b \in Nat, b < n
    PROVE  /\ l * n + b # (l + 1) * n /\ l * n + b \in Nat
           /\ (l * n + b) \div n = l /\ (l * n + b) % n = b
           /\ b + 1 = n => l * n + b + 1 = (l + 1) * n
<1>1. (l + 1) * n = l * n + n /\ l * n \in Nat
  OBVIOUS
<1>2. l * n + b \in Nat /\ l * n + b # l * n + n
  BY <1>1
<1> DEFINE x == l * n + b
           q == x \div n
           r == x % n
<1>3. x \in Nat /\ n \in Nat /\ n > 0
  BY <1>2
<1>4. q \in Nat /\ r \in Nat /\ r < n /\ x = q * n + r
  <2> HIDE DEF x
  <2>1. \A a \in Nat : \A m \in Nat : m > 0 => /\ a \div m \in Nat /\ a % m \in Nat /\ a % m < m
                                               /\ a = (a \div m) * m + (a % m)
    OBVIOUS
  <2> QED BY <1>3, <2>1
<1> HIDE DEF q, r
<1>5. q = l
  <2>1. ASSUME q < l PROVE FALSE
    <3>1. q + 1 <= l
      BY <1>4, <2>1
    <3>2. (q + 1) * n <= l * n
      BY <1>3, <1>4, <3>1
    <3>3. (q + 1) * n = q * n + n
      BY <1>3, <1>4
    <3> QED BY <1>1, <1>3, <1>4, <3>2, <3>3
  <2>2. ASSUME q > l PROVE FALSE
    <3>1. l + 1 <= q
      BY <1>4, <2>2
    <3>2. (l + 1) * n <= q * n
      BY <1>3, <1>4, <3>1
    <3> QED BY <1>1, <1>3, <1>4, <3>2
  <2> QED BY <1>4, <2>1, <2>2
<1>6. r = b
  BY <1>1, <1>4, <1>5
<1> QED BY <1>1, <1>2, <1>5, <1>6 DEF q, r

\* Between two lines: telemetry; an exposure, unless it was the last line.
LEMMA AllowedBetween ==
    ASSUME NEW ps, NEW l \in Nat, NEW t, InSession(ps, l, l * Bands(ps), t), NEW p,
           \/ p.id = "IMAGER_TELEMETRY"
           \/ p.id = "EXPOSURE_START" /\ l # Lines(ps)
    PROVE  Allowed(ps, p)
<1>1. BetweenLines(ps)
  BY DEF InSession, BetweenLines
<1>2. p.id = "EXPOSURE_START" => ~AllLines(ps)
  BY DEF InSession, AllLines
<1>3. ~(Len(ps) < Len(Opening))
  BY DEF InSession, Opening
<1>4. Last(ps).id # "SESSION_END"
  BY DEF InSession
<1> QED BY <1>1, <1>2, <1>3, <1>4 DEF Allowed

\* In a line: its bands, in order.
LEMMA AllowedInLine ==
    ASSUME NEW ps, NEW n \in Nat, NEW l \in Nat, NEW b \in Nat, b < n, Bands(ps) = n, NEW t,
           InSession(ps, l + 1, l * n + b, t), NEW p,
           p.id = "LINE_DATA", p.line_number = l, p.spectral_band = b
    PROVE  Allowed(ps, p)
<1>1. ~BetweenLines(ps)
  BY MulApart DEF InSession, BetweenLines
<1>2. NextLineData(ps, p)
  <2>1. Count(ps, "LINE_DATA") = l * n + b
    BY DEF InSession
  <2>2. (l * n + b) \div n = l /\ (l * n + b) % n = b
    BY MulApart
  <2> QED BY <2>1, <2>2 DEF NextLineData
<1>3. ~(Len(ps) < Len(Opening)) /\ Last(ps).id # "SESSION_END"
  BY DEF InSession, Opening
<1> QED BY <1>1, <1>2, <1>3 DEF Allowed

\* After the final telemetry: the end of the session.
LEMMA AllowedAtEnd ==
    ASSUME NEW ps, Len(ps) >= 5, AllLines(ps), Last(ps).id = "IMAGER_TELEMETRY", NEW p,
           p.id = "SESSION_END", p.session_id = ps[1].session_id
    PROVE  Allowed(ps, p)
<1>1. ~(Len(ps) < Len(Opening))
  BY DEF Opening
<1> QED BY <1>1 DEF Allowed

\* A packet that may be sent is one that may be received.
LEMMA SentIsReceived ==
    ASSUME NEW S, packets \in Seq(S), NEW p \in S, packets' = Append(packets, p),
           Allowed(packets, p)
    PROVE  Next
<1>1. Len(packets') = Len(packets) + 1 /\ Last(packets') = p
  BY LongerBy DEF Last
<1> QED BY <1>1 DEF Next, Receive
=============================================================================
