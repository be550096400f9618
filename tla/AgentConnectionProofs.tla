----------------------- MODULE AgentConnectionProofs -----------------------
(***************************************************************************)
(* Proofs about AgentConnection, for every capacity of the two channels    *)
(* and every number of builds, notices and lost connections:               *)
(*                                                                         *)
(*   - ConnectionTypeCorrect: every state is well typed;                   *)
(*   - ReportsArriveInOrder: no gap, no mixture and no repetition;         *)
(*   - ReportsArrive: nothing is lost while no connection is.              *)
(*                                                                         *)
(* What the server has received, the send channel and what the loop is     *)
(* about to send are one sequence, Outgoing, and while the connection is   *)
(* up it is in order as a whole: Send and Write only move what is in it.   *)
(* The loop adds to its end only, and what it adds comes later than all    *)
(* of it since the builds arrive in rising order.                          *)
(***************************************************************************)
EXTENDS AgentConnection, SequenceTheorems, TLAPS

-----------------------------------------------------------------------------
(* The builds on their way to the loop.                                    *)

Down == Builds \cup {Notice}

BuildsIn(s) == {s[i] : i \in DOMAIN s} \ {Notice}

Rising(s) ==
  \A i, k \in DOMAIN s : i < k /\ s[i] # Notice /\ s[k] # Notice => s[i] < s[k]

AllLess(S, T) == \A x \in S, y \in T : x < y

Holds == reader \in {"delivering", "late"}

Held == IF Holds THEN {unread} \ {Notice} ELSE {}

\* They come in the order of their numbers, after the one the loop knows.
BuildsRise ==
  /\ Rising(recvQ) /\ Rising(wire)
  /\ AllLess({build}, BuildsIn(recvQ))
  /\ AllLess({build} \cup BuildsIn(recvQ), Held)
  /\ AllLess({build} \cup BuildsIn(recvQ) \cup Held, BuildsIn(wire))
  /\ {build} \cup BuildsIn(recvQ) \cup Held \cup BuildsIn(wire) \subseteq 0..sent

-----------------------------------------------------------------------------
(* The reports on their way to the server.                                 *)

Has(s, m) == \E i \in DOMAIN s : s[i] = m

\* ReportsInOrder, for messages among which there may be pings.
InOrder(s) ==
  /\ \A i, k \in DOMAIN s : i < k /\ s[i][2] # 0 /\ s[k][2] # 0 => Precedes(s[i], s[k])
  /\ \A k \in DOMAIN s, b \in Builds, n \in {2, 3} :
       s[k] = Lifecycle(b)[n] => \E i \in 1..(k - 1) : s[i] = Lifecycle(b)[n - 1]

UpTo(s, n) == \A i \in DOMAIN s : s[i][2] <= n

Outgoing == (received \o sendQ) \o todo

\* The build that runs has been announced, and not more.
BuildAnnounced ==
  /\ Has(Outgoing, Lifecycle(build)[1])
  /\ ~ Has(Outgoing, Lifecycle(build)[2])
  /\ ~ Has(Outgoing, Lifecycle(build)[3])

ReportsSound ==
  /\ InOrder(received) /\ UpTo(received, build)
  /\ \A i \in DOMAIN received : received[i][2] # 0
  /\ link = "up" => InOrder(Outgoing) /\ UpTo(Outgoing, build)
  /\ link = "up" /\ at = "build" => BuildAnnounced

-----------------------------------------------------------------------------
(* Where a build can be as long as nothing was lost.                       *)

AllReported(b) == \A n \in 1..3 : Has(Outgoing, Lifecycle(b)[n])

OnItsWay(b) ==
  \/ b \in BuildsIn(recvQ) \cup Held \cup BuildsIn(wire)
  \/ at = "build" /\ build = b
  \/ AllReported(b)

NotYetConnected == at = "dial" /\ link = "reset" /\ sent = 0

Left == at = "stopped" /\ link = "reset"

Connected ==
  /\ at \in {"select", "build"} /\ link = "up" /\ ~ done
  /\ reader \in {"reading", "delivering"} /\ writer = "running"
  /\ \A b \in 1..sent : OnItsWay(b)

NothingLost == breaks = 0 /\ stalls = 0 => NotYetConnected \/ Left \/ Connected

-----------------------------------------------------------------------------
(* Messages.                                                               *)

LEMMA LifecycleIs ==
  ASSUME NEW b
  PROVE  /\ Lifecycle(b)[1] = <<"Building", b>>
         /\ Lifecycle(b)[2] = <<"Completing", b>>
         /\ Lifecycle(b)[3] = <<"Completed", b>>
         /\ \A n \in 1..3 : Lifecycle(b)[n][2] = b
<1>1. /\ Lifecycle(b)[1] = <<"Building", b>>
      /\ Lifecycle(b)[2] = <<"Completing", b>>
      /\ Lifecycle(b)[3] = <<"Completed", b>>
  BY DEF Lifecycle, Report
<1>2. \A n \in 1..3 : n = 1 \/ n = 2 \/ n = 3
  OBVIOUS
<1> QED BY <1>1, <1>2

LEMMA DownAreNat == Down \subseteq Nat /\ Builds \subseteq Nat \ {0} /\ Notice = 0
BY BoundAssumption DEF Down, Builds, Notice

LEMMA UpMsgIs ==
  ASSUME NEW m \in UpMsg
  PROVE  /\ m[2] \in Nat /\ m = <<m[1], m[2]>>
         /\ m[2] # 0 => /\ m[2] \in Builds
                        /\ \E n \in 1..3 : m = Lifecycle(m[2])[n]
         /\ m[2] = 0 => m \in {Join, Ping}
<1>1. CASE m \in {Join, Ping}
  BY <1>1 DEF Join, Ping
<1>2. CASE m \in {"Building", "Completing", "Completed"} \X Builds
  <2>1. m[2] \in Builds /\ m = <<m[1], m[2]>> /\ m[1] \in {"Building", "Completing", "Completed"}
    BY <1>2
  <2>2. \E n \in 1..3 : m = Lifecycle(m[2])[n]
    <3>1. 1 \in 1..3 /\ 2 \in 1..3 /\ 3 \in 1..3
      OBVIOUS
    <3> QED BY <2>1, <3>1, LifecycleIs
  <2> QED BY <2>1, <2>2, DownAreNat
<1> QED BY <1>1, <1>2 DEF UpMsg

LEMMA ReportsAreUpMsgs ==
  /\ Join \in UpMsg /\ Ping \in UpMsg /\ Join[2] = 0 /\ Ping[2] = 0
  /\ \A b \in Builds, n \in 1..3 : Lifecycle(b)[n] \in UpMsg
<1>1. Join \in UpMsg /\ Ping \in UpMsg /\ Join[2] = 0 /\ Ping[2] = 0
  BY DEF UpMsg, Join, Ping
<1>2. ASSUME NEW b \in Builds, NEW n \in 1..3
      PROVE  Lifecycle(b)[n] \in UpMsg
  <2>1. n = 1 \/ n = 2 \/ n = 3
    OBVIOUS
  <2>2. \A w \in {"Building", "Completing", "Completed"} : <<w, b>> \in UpMsg
    BY DEF UpMsg
  <2>3. \/ Lifecycle(b)[n] = <<"Building", b>>
        \/ Lifecycle(b)[n] = <<"Completing", b>>
        \/ Lifecycle(b)[n] = <<"Completed", b>>
    BY <2>1, LifecycleIs
  <2> QED BY <2>2, <2>3
<1> QED BY <1>1, <1>2

\* Reports of one build precede each other as in its lifecycle.
LEMMA LifecyclePrecedes ==
  ASSUME NEW b, NEW i \in 1..3, NEW k \in 1..3, i < k
  PROVE  Precedes(Lifecycle(b)[i], Lifecycle(b)[k])
<1>1. i = 1 \/ i = 2
  OBVIOUS
<1>2. k = 2 \/ k = 3
  OBVIOUS
<1>3. Step["Building"] = 1 /\ Step["Completing"] = 2 /\ Step["Completed"] = 3
  BY DEF Step
<1> QED BY <1>1, <1>2, <1>3, LifecycleIs DEF Precedes

-----------------------------------------------------------------------------
(* Sequences of builds.                                                    *)

LEMMA TailOf ==
  ASSUME NEW S, NEW s \in Seq(S), s # <<>>
  PROVE  /\ Head(s) \in S /\ Tail(s) \in Seq(S) /\ Head(s) = s[1]
         /\ Len(s) \in Nat \ {0} /\ DOMAIN s = 1..Len(s) /\ Len(Tail(s)) = Len(s) - 1
         /\ DOMAIN Tail(s) = 1..(Len(s) - 1)
         /\ \A i \in 1..(Len(s) - 1) : Tail(s)[i] = s[i + 1]
<1>1. Len(s) \in Nat \ {0} /\ DOMAIN s = 1..Len(s)
  BY EmptySeq, LenProperties
<1>2. /\ Head(s) \in S /\ Tail(s) \in Seq(S) /\ Len(Tail(s)) = Len(s) - 1
      /\ \A i \in 1..Len(Tail(s)) : Tail(s)[i] = s[i + 1]
  BY HeadTailProperties
<1>3. Head(s) = s[1]
  BY <1>1
<1>4. DOMAIN Tail(s) = 1..(Len(s) - 1)
  BY <1>2, LenProperties
<1> QED BY <1>1, <1>2, <1>3, <1>4

LEMMA BuildsInDown ==
  ASSUME NEW s \in Seq(Down)
  PROVE  BuildsIn(s) \subseteq Builds
<1>1. \A i \in DOMAIN s : s[i] \in Down
  BY LenProperties, ElementOfSeq
<1> QED BY <1>1 DEF BuildsIn, Down

LEMMA RisingTail ==
  ASSUME NEW s \in Seq(Down), s # <<>>
  PROVE  /\ Tail(s) \in Seq(Down) /\ Head(s) \in Down
         /\ BuildsIn(s) = BuildsIn(Tail(s)) \cup ({Head(s)} \ {Notice})
         /\ Rising(s) => Rising(Tail(s)) /\ AllLess({Head(s)} \ {Notice}, BuildsIn(Tail(s)))
<1> DEFINE t == Tail(s)
<1>1. PICK n \in Nat : Len(s) = n + 1
  BY TailOf
<1>2. /\ t \in Seq(Down) /\ Head(s) \in Down /\ Head(s) = s[1]
      /\ DOMAIN s = 1..n + 1 /\ DOMAIN t = 1..n
      /\ \A i \in 1..n : t[i] = s[i + 1]
  BY <1>1, TailOf
<1> HIDE DEF t
<1>3. /\ \A i \in 1..n : i + 1 \in 1..n + 1 /\ i + 1 > 1
      /\ \A i \in 1..n + 1 : i = 1 \/ (i - 1 \in 1..n /\ (i - 1) + 1 = i)
      /\ 1 \in 1..n + 1
  OBVIOUS
<1>4. BuildsIn(s) = BuildsIn(t) \cup ({Head(s)} \ {Notice})
  <2>1. ASSUME NEW x \in BuildsIn(s)
        PROVE  x \in BuildsIn(t) \cup ({Head(s)} \ {Notice})
    <3>1. PICK i \in 1..n + 1 : x = s[i] /\ x # Notice
      BY <1>2 DEF BuildsIn
    <3>2. CASE i = 1
      BY <3>1, <3>2, <1>2
    <3>3. CASE i - 1 \in 1..n /\ (i - 1) + 1 = i
      <4>1. t[i - 1] = x
        BY <3>1, <3>3, <1>2
      <4> QED BY <3>1, <3>3, <4>1, <1>2 DEF BuildsIn
    <3> QED BY <3>2, <3>3, <1>3
  <2>2. ASSUME NEW x \in BuildsIn(t) \cup ({Head(s)} \ {Notice})
        PROVE  x \in BuildsIn(s)
    BY <1>2, <1>3 DEF BuildsIn
  <2> QED BY <2>1, <2>2
<1>5. ASSUME Rising(s)
      PROVE  Rising(t) /\ AllLess({Head(s)} \ {Notice}, BuildsIn(t))
  <2>1. ASSUME NEW i \in 1..n, NEW k \in 1..n, i < k, t[i] # Notice, t[k] # Notice
        PROVE  t[i] < t[k]
    <3>1. i + 1 \in 1..n + 1 /\ k + 1 \in 1..n + 1 /\ i + 1 < k + 1
      BY <2>1
    <3> QED BY <1>5, <2>1, <3>1, <1>2 DEF Rising
  <2>2. ASSUME NEW k \in 1..n, s[1] # Notice, t[k] # Notice
        PROVE  s[1] < t[k]
    <3>1. 1 \in 1..n + 1 /\ k + 1 \in 1..n + 1 /\ 1 < k + 1
      OBVIOUS
    <3> QED BY <1>5, <2>2, <3>1, <1>2 DEF Rising
  <2> QED BY <2>1, <2>2, <1>2 DEF Rising, AllLess, BuildsIn
<1> QED BY <1>2, <1>4, <1>5 DEF t

LEMMA AppendOf ==
  ASSUME NEW S, NEW s \in Seq(S), NEW e \in S
  PROVE  \E n \in Nat : /\ Len(s) = n /\ DOMAIN s = 1..n
                        /\ Append(s, e) \in Seq(S) /\ Len(Append(s, e)) = n + 1
                        /\ DOMAIN Append(s, e) = 1..n + 1 /\ Append(s, e)[n + 1] = e
                        /\ \A i \in 1..n : Append(s, e)[i] = s[i] /\ s[i] \in S
<1>1. PICK n \in Nat : Len(s) = n
  BY LenProperties
<1>2. /\ DOMAIN s = 1..n /\ Append(s, e) \in Seq(S) /\ Len(Append(s, e)) = n + 1
      /\ Append(s, e)[n + 1] = e /\ \A i \in 1..n : Append(s, e)[i] = s[i]
  BY <1>1, AppendProperties, LenProperties
<1>3. DOMAIN Append(s, e) = 1..n + 1
  BY <1>2, LenProperties
<1>4. \A i \in 1..n : s[i] \in S
  BY <1>1, ElementOfSeq
<1> QED BY <1>1, <1>2, <1>3, <1>4

LEMMA RisingAppend ==
  ASSUME NEW s \in Seq(Down), NEW e \in Down
  PROVE  /\ Append(s, e) \in Seq(Down)
         /\ BuildsIn(Append(s, e)) = BuildsIn(s) \cup ({e} \ {Notice})
         /\ Rising(s) /\ AllLess(BuildsIn(s), {e} \ {Notice}) => Rising(Append(s, e))
<1> DEFINE t == Append(s, e)
<1>1. PICK n \in Nat : /\ DOMAIN s = 1..n /\ DOMAIN t = 1..n + 1 /\ t[n + 1] = e
                       /\ t \in Seq(Down) /\ \A i \in 1..n : t[i] = s[i]
  BY AppendOf
<1> HIDE DEF t
<1>2. /\ \A i \in 1..n + 1 : i \in 1..n \/ i = n + 1
      /\ n + 1 \in 1..n + 1 /\ 1..n \subseteq 1..n + 1
  OBVIOUS
<1>3. BuildsIn(t) = BuildsIn(s) \cup ({e} \ {Notice})
  <2>1. ASSUME NEW x \in BuildsIn(t)
        PROVE  x \in BuildsIn(s) \cup ({e} \ {Notice})
    BY <1>1, <1>2 DEF BuildsIn
  <2>2. ASSUME NEW x \in BuildsIn(s) \cup ({e} \ {Notice})
        PROVE  x \in BuildsIn(t)
    BY <1>1, <1>2 DEF BuildsIn
  <2> QED BY <2>1, <2>2
<1>4. ASSUME Rising(s), AllLess(BuildsIn(s), {e} \ {Notice})
      PROVE  Rising(t)
  <2>1. ASSUME NEW i \in 1..n + 1, NEW k \in 1..n + 1, i < k, t[i] # Notice, t[k] # Notice
        PROVE  t[i] < t[k]
    <3>1. i \in 1..n
      BY <2>1
    <3>2. CASE k \in 1..n
      BY <1>4, <2>1, <3>1, <3>2, <1>1 DEF Rising
    <3>3. CASE k = n + 1
      <4>1. s[i] \in BuildsIn(s) /\ e \in {e} \ {Notice}
        BY <2>1, <3>1, <3>3, <1>1 DEF BuildsIn
      <4> QED BY <1>4, <3>1, <3>3, <4>1, <1>1 DEF AllLess
    <3> QED BY <3>2, <3>3, <1>2
  <2> QED BY <2>1, <1>1 DEF Rising
<1> QED BY <1>1, <1>3, <1>4 DEF t

LEMMA RisingPrefix ==
  ASSUME NEW s \in Seq(Down), NEW n \in 0..Len(s)
  PROVE  /\ SubSeq(s, 1, n) \in Seq(Down)
         /\ BuildsIn(SubSeq(s, 1, n)) \subseteq BuildsIn(s)
         /\ Rising(s) => Rising(SubSeq(s, 1, n))
<1> DEFINE t == SubSeq(s, 1, n)
<1>1. Len(s) \in Nat /\ n \in Nat /\ n <= Len(s) /\ DOMAIN s = 1..Len(s)
  BY LenProperties
<1>2. \A i \in 1..n : s[i] \in Down
  BY <1>1, ElementOfSeq
<1>3. /\ t \in Seq(Down) /\ Len(t) = IF 1 <= n THEN n - 1 + 1 ELSE 0
      /\ \A i \in 1..n - 1 + 1 : t[i] = s[1 + i - 1]
  BY <1>1, <1>2, SubSeqProperties
<1>4. Len(t) = n /\ DOMAIN t = 1..n
  BY <1>1, <1>3, LenProperties
<1>5. \A i \in 1..n : t[i] = s[i] /\ i \in DOMAIN s
  BY <1>1, <1>3
<1> HIDE DEF t
<1> QED BY <1>3, <1>4, <1>5 DEF Rising, BuildsIn, t

LEMMA NoBuilds ==
  /\ <<>> \in Seq(Down) /\ BuildsIn(<<>>) = {} /\ Rising(<<>>)
<1>1. <<>> \in Seq(Down) /\ DOMAIN <<>> = {}
  OBVIOUS
<1> QED BY <1>1 DEF BuildsIn, Rising

-----------------------------------------------------------------------------
(* Sequences of messages to the server.                                    *)

LEMMA MoveOne ==
  ASSUME NEW S, NEW r \in Seq(S), NEW s \in Seq(S), s # <<>>
  PROVE  Append(r, Head(s)) \o Tail(s) = r \o s
<1>1. Head(s) \in S /\ Tail(s) \in Seq(S) /\ <<Head(s)>> \in Seq(S)
  BY TailOf
<1>2. Append(r, Head(s)) = r \o <<Head(s)>>
  BY <1>1, AppendIsConcat
<1>3. (r \o <<Head(s)>>) \o Tail(s) = r \o (<<Head(s)>> \o Tail(s))
  BY <1>1, ConcatAssociative
<1>4. <<Head(s)>> \o Tail(s) = s
  <2> DEFINE u == <<Head(s)>> \o Tail(s)
  <2>1. Len(s) \in Nat \ {0} /\ Head(s) = s[1] /\ Len(Tail(s)) = Len(s) - 1
        /\ \A i \in 1..(Len(s) - 1) : Tail(s)[i] = s[i + 1]
    BY TailOf
  <2>2. Len(<<Head(s)>>) = 1 /\ <<Head(s)>>[1] = Head(s)
    OBVIOUS
  <2>3. /\ u \in Seq(S) /\ Len(u) = 1 + (Len(s) - 1)
        /\ \A i \in 1..1 + (Len(s) - 1) :
             u[i] = IF i <= 1 THEN <<Head(s)>>[i] ELSE Tail(s)[i - 1]
    BY <1>1, <2>1, <2>2, ConcatProperties
  <2> HIDE DEF u
  <2>4. Len(u) = Len(s)
    BY <2>1, <2>3
  <2>5. ASSUME NEW i \in 1..Len(u)
        PROVE  u[i] = s[i]
    <3>1. CASE i = 1
      BY <3>1, <2>1, <2>2, <2>3, <2>4
    <3>2. CASE i # 1
      <4>1. i - 1 \in 1..(Len(s) - 1) /\ (i - 1) + 1 = i /\ ~ (i <= 1)
        BY <3>2, <2>1, <2>4
      <4> QED BY <4>1, <2>1, <2>3, <2>4
    <3> QED BY <3>1, <3>2
  <2> QED BY <2>3, <2>4, <2>5, SeqEqual DEF u
<1> QED BY <1>2, <1>3, <1>4

\* The elements of three sequences, one after the other.
LEMMA ThreeJoined ==
  ASSUME NEW S, NEW r \in Seq(S), NEW s \in Seq(S), NEW t \in Seq(S)
  PROVE  /\ (r \o s) \o t \in Seq(S)
         /\ DOMAIN ((r \o s) \o t) = 1..Len(r) + Len(s) + Len(t)
         /\ \A i \in 1..Len(r) + Len(s) + Len(t) :
              ((r \o s) \o t)[i] = IF i <= Len(r) THEN r[i]
                                   ELSE IF i <= Len(r) + Len(s) THEN s[i - Len(r)]
                                   ELSE t[i - (Len(r) + Len(s))]
<1>1. Len(r) \in Nat /\ Len(s) \in Nat /\ Len(t) \in Nat
  BY LenProperties
<1>2. /\ r \o s \in Seq(S) /\ Len(r \o s) = Len(r) + Len(s)
      /\ \A i \in 1..Len(r) + Len(s) :
           (r \o s)[i] = IF i <= Len(r) THEN r[i] ELSE s[i - Len(r)]
  BY ConcatProperties
<1> DEFINE q == r \o s
<1> HIDE DEF q
<1>3. /\ q \o t \in Seq(S) /\ Len(q \o t) = Len(q) + Len(t)
      /\ \A i \in 1..Len(q) + Len(t) :
           (q \o t)[i] = IF i <= Len(q) THEN q[i] ELSE t[i - Len(q)]
  BY <1>2, ConcatProperties DEF q
<1>4. DOMAIN (q \o t) = 1..Len(r) + Len(s) + Len(t)
  BY <1>2, <1>3, LenProperties DEF q
<1>5. ASSUME NEW i \in 1..Len(r) + Len(s) + Len(t)
      PROVE  (q \o t)[i] = IF i <= Len(r) THEN r[i]
                           ELSE IF i <= Len(r) + Len(s) THEN s[i - Len(r)]
                           ELSE t[i - (Len(r) + Len(s))]
  <2>1. CASE i <= Len(r) + Len(s)
    <3>1. i \in 1..Len(r) + Len(s)
      BY <2>1, <1>1
    <3> QED BY <3>1, <2>1, <1>1, <1>2, <1>3 DEF q
  <2>2. CASE ~ (i <= Len(r) + Len(s))
    BY <2>2, <1>1, <1>2, <1>3 DEF q
  <2> QED BY <2>1, <2>2
<1> QED BY <1>3, <1>4, <1>5 DEF q

LEMMA HasJoined ==
  ASSUME NEW S, NEW r \in Seq(S), NEW s \in Seq(S), NEW t \in Seq(S), NEW m
  PROVE  Has((r \o s) \o t, m) <=> Has(r, m) \/ Has(s, m) \/ Has(t, m)
<1> DEFINE u == (r \o s) \o t
<1>1. /\ Len(r) \in Nat /\ Len(s) \in Nat /\ Len(t) \in Nat
      /\ DOMAIN r = 1..Len(r) /\ DOMAIN s = 1..Len(s) /\ DOMAIN t = 1..Len(t)
  BY LenProperties
<1>2. /\ DOMAIN u = 1..Len(r) + Len(s) + Len(t)
      /\ \A i \in 1..Len(r) + Len(s) + Len(t) :
           u[i] = IF i <= Len(r) THEN r[i]
                  ELSE IF i <= Len(r) + Len(s) THEN s[i - Len(r)]
                  ELSE t[i - (Len(r) + Len(s))]
  BY ThreeJoined
<1> HIDE DEF u
<1>3. ASSUME Has(u, m)
      PROVE  Has(r, m) \/ Has(s, m) \/ Has(t, m)
  <2>1. PICK i \in 1..Len(r) + Len(s) + Len(t) : u[i] = m
    BY <1>2, <1>3 DEF Has
  <2>2. CASE i <= Len(r)
    <3>1. i \in 1..Len(r)
      BY <2>2, <1>1
    <3> QED BY <3>1, <2>1, <2>2, <1>1, <1>2 DEF Has
  <2>3. CASE ~ (i <= Len(r)) /\ i <= Len(r) + Len(s)
    <3>1. i - Len(r) \in 1..Len(s)
      BY <2>3, <1>1
    <3> QED BY <3>1, <2>1, <2>3, <1>1, <1>2 DEF Has
  <2>4. CASE ~ (i <= Len(r) + Len(s))
    <3>1. i - (Len(r) + Len(s)) \in 1..Len(t) /\ ~ (i <= Len(r))
      BY <2>4, <1>1
    <3> QED BY <3>1, <2>1, <2>4, <1>1, <1>2 DEF Has
  <2> QED BY <2>2, <2>3, <2>4
<1>4. ASSUME Has(r, m)
      PROVE  Has(u, m)
  <2>1. PICK i \in 1..Len(r) : r[i] = m
    BY <1>1, <1>4 DEF Has
  <2>2. i \in 1..Len(r) + Len(s) + Len(t) /\ i <= Len(r)
    BY <1>1
  <2> QED BY <2>1, <2>2, <1>2 DEF Has
<1>5. ASSUME Has(s, m)
      PROVE  Has(u, m)
  <2>1. PICK i \in 1..Len(s) : s[i] = m
    BY <1>1, <1>5 DEF Has
  <2>2. /\ Len(r) + i \in 1..Len(r) + Len(s) + Len(t) /\ ~ (Len(r) + i <= Len(r))
        /\ Len(r) + i <= Len(r) + Len(s) /\ (Len(r) + i) - Len(r) = i
    BY <1>1
  <2>3. u[Len(r) + i] = m
    BY <2>1, <2>2, <1>2
  <2> QED BY <2>2, <2>3, <1>2 DEF Has
<1>6. ASSUME Has(t, m)
      PROVE  Has(u, m)
  <2>1. PICK i \in 1..Len(t) : t[i] = m
    BY <1>1, <1>6 DEF Has
  <2> DEFINE k == Len(r) + Len(s) + i
  <2>2. /\ k \in 1..Len(r) + Len(s) + Len(t) /\ ~ (k <= Len(r))
        /\ ~ (k <= Len(r) + Len(s)) /\ k - (Len(r) + Len(s)) = i
    BY <1>1
  <2>3. u[k] = m
    BY <2>1, <2>2, <1>2
  <2> QED BY <2>2, <2>3, <1>2 DEF Has
<1> QED BY <1>3, <1>4, <1>5, <1>6 DEF u

LEMMA HasTail ==
  ASSUME NEW S, NEW s \in Seq(S), s # <<>>, NEW m
  PROVE  Has(s, m) <=> Has(Tail(s), m) \/ Head(s) = m
<1>1. PICK n \in Nat : Len(s) = n + 1
  BY TailOf
<1>2. /\ DOMAIN s = 1..n + 1 /\ DOMAIN Tail(s) = 1..n /\ Head(s) = s[1]
      /\ \A i \in 1..n : Tail(s)[i] = s[i + 1]
  BY <1>1, TailOf
<1>3. /\ \A i \in 1..n : i + 1 \in 1..n + 1
      /\ \A i \in 1..n + 1 : i = 1 \/ (i - 1 \in 1..n /\ (i - 1) + 1 = i)
      /\ 1 \in 1..n + 1
  OBVIOUS
<1>4. ASSUME Has(s, m)
      PROVE  Has(Tail(s), m) \/ Head(s) = m
  <2>1. PICK i \in 1..n + 1 : s[i] = m
    BY <1>2, <1>4 DEF Has
  <2>2. CASE i = 1
    BY <2>1, <2>2, <1>2
  <2>3. CASE i - 1 \in 1..n /\ (i - 1) + 1 = i
    <3>1. Tail(s)[i - 1] = m
      BY <2>1, <2>3, <1>2
    <3> QED BY <2>3, <3>1, <1>2 DEF Has
  <2> QED BY <2>2, <2>3, <1>3
<1>5. ASSUME Has(Tail(s), m) \/ Head(s) = m
      PROVE  Has(s, m)
  BY <1>2, <1>3, <1>5 DEF Has
<1> QED BY <1>4, <1>5

LEMMA HasAppend ==
  ASSUME NEW S, NEW s \in Seq(S), NEW e \in S, NEW m
  PROVE  Has(Append(s, e), m) <=> Has(s, m) \/ e = m
<1>1. PICK n \in Nat : /\ DOMAIN s = 1..n /\ DOMAIN Append(s, e) = 1..n + 1
                       /\ Append(s, e)[n + 1] = e
                       /\ \A i \in 1..n : Append(s, e)[i] = s[i]
  BY AppendOf
<1>2. /\ \A i \in 1..n + 1 : i \in 1..n \/ i = n + 1
      /\ n + 1 \in 1..n + 1 /\ 1..n \subseteq 1..n + 1
  OBVIOUS
<1> DEFINE t == Append(s, e)
<1> HIDE DEF t
<1> QED BY <1>1, <1>2 DEF Has, t

LEMMA FewerUpTo ==
  ASSUME NEW s, NEW t, NEW n, UpTo(s, n), \A m : Has(t, m) => Has(s, m)
  PROVE  UpTo(t, n)
BY DEF UpTo, Has

\* Whatever is left out, if only pings are missing between what stays, the
\* order does not suffer.
LEMMA InOrderEmbeds ==
  ASSUME NEW s \in Seq(UpMsg), NEW t \in Seq(UpMsg), InOrder(s),
         NEW f \in [DOMAIN t -> DOMAIN s],
         \A i \in DOMAIN t : t[i] = s[f[i]],
         \A i, k \in DOMAIN t : i < k => f[i] < f[k],
         \A k \in DOMAIN t, j \in DOMAIN s :
           j < f[k] /\ s[j][2] # 0 => \E i \in DOMAIN t : f[i] = j /\ i < k
  PROVE  InOrder(t)
<1>1. DOMAIN s = 1..Len(s) /\ DOMAIN t = 1..Len(t) /\ Len(s) \in Nat /\ Len(t) \in Nat
  BY LenProperties
<1>2. ASSUME NEW i \in DOMAIN t, NEW k \in DOMAIN t, i < k, t[i][2] # 0, t[k][2] # 0
      PROVE  Precedes(t[i], t[k])
  <2>1. f[i] \in DOMAIN s /\ f[k] \in DOMAIN s /\ f[i] < f[k]
    BY <1>2
  <2> QED BY <2>1, <1>2 DEF InOrder
<1>3. ASSUME NEW k \in DOMAIN t, NEW b \in Builds, NEW n \in {2, 3}, t[k] = Lifecycle(b)[n]
      PROVE  \E i \in 1..(k - 1) : t[i] = Lifecycle(b)[n - 1]
  <2>1. f[k] \in DOMAIN s /\ s[f[k]] = Lifecycle(b)[n]
    BY <1>3
  <2>2. PICK j \in 1..(f[k] - 1) : s[j] = Lifecycle(b)[n - 1]
    BY <2>1 DEF InOrder
  <2>3. j \in DOMAIN s /\ j < f[k]
    BY <2>1, <1>1
  <2>4. n - 1 \in 1..3
    OBVIOUS
  <2>5. s[j][2] # 0
    BY <2>2, <2>4, LifecycleIs, DownAreNat
  <2>6. PICK i \in DOMAIN t : f[i] = j /\ i < k
    BY <2>3, <2>5
  <2>7. i \in 1..(k - 1) /\ t[i] = s[j]
    BY <2>6, <1>1
  <2> QED BY <2>2, <2>7
<1> QED BY <1>2, <1>3 DEF InOrder

LEMMA InOrderPrefix ==
  ASSUME NEW r \in Seq(UpMsg), NEW s \in Seq(UpMsg), NEW t \in Seq(UpMsg),
         InOrder((r \o s) \o t)
  PROVE  InOrder(r)
<1> DEFINE u == (r \o s) \o t
<1>1. /\ Len(r) \in Nat /\ Len(s) \in Nat /\ Len(t) \in Nat /\ DOMAIN r = 1..Len(r)
  BY LenProperties
<1>2. /\ u \in Seq(UpMsg) /\ DOMAIN u = 1..Len(r) + Len(s) + Len(t)
      /\ \A i \in 1..Len(r) + Len(s) + Len(t) :
           u[i] = IF i <= Len(r) THEN r[i]
                  ELSE IF i <= Len(r) + Len(s) THEN s[i - Len(r)]
                  ELSE t[i - (Len(r) + Len(s))]
  BY ThreeJoined
<1>3. InOrder(u)
  OBVIOUS
<1> HIDE DEF u
<1> DEFINE f == [i \in DOMAIN r |-> i]
<1>4. \A i \in DOMAIN r : i \in DOMAIN u /\ u[i] = r[i] /\ f[i] = i
  BY <1>1, <1>2
<1>5. f \in [DOMAIN r -> DOMAIN u] /\ \A i \in DOMAIN r : r[i] = u[f[i]]
  BY <1>4
<1>6. \A i, k \in DOMAIN r : i < k => f[i] < f[k]
  BY <1>4
<1>7. \A k \in DOMAIN r, j \in DOMAIN u :
        j < f[k] /\ u[j][2] # 0 => \E i \in DOMAIN r : f[i] = j /\ i < k
  <2>1. ASSUME NEW k \in DOMAIN r, NEW j \in DOMAIN u, j < f[k]
        PROVE  f[j] = j /\ j \in DOMAIN r /\ j < k
    BY <2>1, <1>1, <1>2, <1>4
  <2> QED BY <2>1
<1> HIDE DEF f
<1>8. u \in Seq(UpMsg)
  BY <1>2
<1> QED BY <1>3, <1>5, <1>6, <1>7, <1>8, InOrderEmbeds

LEMMA InOrderWithout ==
  ASSUME NEW r \in Seq(UpMsg), NEW s \in Seq(UpMsg), NEW t \in Seq(UpMsg),
         s # <<>>, Head(s)[2] = 0, InOrder((r \o s) \o t)
  PROVE  InOrder((r \o Tail(s)) \o t)
<1> DEFINE u == (r \o s) \o t
           v == (r \o Tail(s)) \o t
<1>0. Len(r) \in Nat /\ Len(t) \in Nat /\ Len(s) \in Nat \ {0}
  BY TailOf, LenProperties
<1>1. PICK a \in Nat, b \in Nat, c \in Nat : Len(r) = a /\ Len(s) = b + 1 /\ Len(t) = c
  <2>1. Len(s) - 1 \in Nat /\ Len(s) = (Len(s) - 1) + 1
    BY <1>0
  <2> QED BY <1>0, <2>1
<1>2. /\ Tail(s) \in Seq(UpMsg) /\ Len(Tail(s)) = b /\ s[1][2] = 0
      /\ \A i \in 1..b : Tail(s)[i] = s[i + 1]
  <2>1. b + 1 - 1 = b
    OBVIOUS
  <2> QED BY <1>1, <2>1, TailOf
<1>3. /\ u \in Seq(UpMsg) /\ DOMAIN u = 1..a + (b + 1) + c
      /\ \A i \in 1..a + (b + 1) + c :
           u[i] = IF i <= a THEN r[i]
                  ELSE IF i <= a + (b + 1) THEN s[i - a] ELSE t[i - (a + (b + 1))]
  <2>1. /\ u \in Seq(UpMsg) /\ DOMAIN u = 1..Len(r) + Len(s) + Len(t)
        /\ \A i \in 1..Len(r) + Len(s) + Len(t) :
             u[i] = IF i <= Len(r) THEN r[i]
                    ELSE IF i <= Len(r) + Len(s) THEN s[i - Len(r)]
                    ELSE t[i - (Len(r) + Len(s))]
    BY ThreeJoined
  <2> HIDE DEF u
  <2> QED BY <1>1, <2>1
<1>4. /\ v \in Seq(UpMsg) /\ DOMAIN v = 1..a + b + c
      /\ \A i \in 1..a + b + c :
           v[i] = IF i <= a THEN r[i]
                  ELSE IF i <= a + b THEN Tail(s)[i - a] ELSE t[i - (a + b)]
  <2> DEFINE q == Tail(s)
  <2>1. q \in Seq(UpMsg) /\ Len(q) = b
    BY <1>2
  <2>2. /\ v \in Seq(UpMsg) /\ DOMAIN v = 1..Len(r) + Len(q) + Len(t)
        /\ \A i \in 1..Len(r) + Len(q) + Len(t) :
             v[i] = IF i <= Len(r) THEN r[i]
                    ELSE IF i <= Len(r) + Len(q) THEN q[i - Len(r)]
                    ELSE t[i - (Len(r) + Len(q))]
    BY <2>1, ThreeJoined
  <2> HIDE DEF q, v
  <2>3. /\ v \in Seq(UpMsg) /\ DOMAIN v = 1..a + b + c
        /\ \A i \in 1..a + b + c :
             v[i] = IF i <= a THEN r[i]
                    ELSE IF i <= a + b THEN q[i - a] ELSE t[i - (a + b)]
    BY <1>1, <2>1, <2>2
  <2> QED BY <2>3 DEF q
<1>5. InOrder(u)
  OBVIOUS
<1> HIDE DEF u, v
<1> DEFINE f == [i \in DOMAIN v |-> IF i <= a THEN i ELSE i + 1]
<1>f. /\ DOMAIN f = DOMAIN v
      /\ \A i \in DOMAIN v : f[i] = IF i <= a THEN i ELSE i + 1
  OBVIOUS
<1>d. DOMAIN v = 1..a + b + c /\ DOMAIN u = 1..a + (b + 1) + c
  BY <1>3, <1>4
<1>e. f = [i \in DOMAIN f |-> f[i]]
  OBVIOUS
<1> HIDE DEF f
<1>6. ASSUME NEW i \in DOMAIN v
      PROVE  f[i] \in DOMAIN u /\ v[i] = u[f[i]]
  <2>1. CASE i <= a
    <3>1. i \in 1..a + (b + 1) + c /\ f[i] = i
      BY <2>1, <1>d, <1>f
    <3>2. u[i] = r[i] /\ i \in DOMAIN u
      BY <2>1, <3>1, <1>3
    <3>3. v[i] = r[i]
      BY <2>1, <1>4
    <3> QED BY <3>1, <3>2, <3>3
  <2>2. CASE ~ (i <= a)
    <3>1. /\ i \in 1..a + b + c /\ f[i] = i + 1 /\ i + 1 \in 1..a + (b + 1) + c
          /\ ~ (i + 1 <= a)
      BY <2>2, <1>d, <1>f
    <3>2. CASE i <= a + b
      <4>0. i - a \in 1..b
        <5>1. i \in Int /\ a < i /\ i <= a + b
          BY <2>2, <3>1, <3>2
        <5> QED BY <5>1
      <4>1. i \in Int
        BY <3>1
      <4>2. (i - a) + 1 = (i + 1) - a /\ i + 1 <= a + (b + 1)
        BY <3>2, <4>1
      <4>3. u[i + 1] = s[(i + 1) - a] /\ i + 1 \in DOMAIN u
        BY <3>1, <4>2, <1>3
      <4>4. v[i] = Tail(s)[i - a]
        BY <2>2, <3>1, <3>2, <1>4
      <4>5. Tail(s)[i - a] = s[(i - a) + 1]
        BY <4>0, <1>2
      <4> QED BY <3>1, <4>2, <4>3, <4>4, <4>5
    <3>3. CASE ~ (i <= a + b)
      <4>1. i - (a + b) = (i + 1) - (a + (b + 1)) /\ ~ (i + 1 <= a + (b + 1))
        BY <3>1, <3>3
      <4>2. u[i + 1] = t[(i + 1) - (a + (b + 1))] /\ i + 1 \in DOMAIN u
        BY <3>1, <4>1, <1>3
      <4>3. v[i] = t[i - (a + b)]
        BY <2>2, <3>1, <3>3, <1>4
      <4> QED BY <3>1, <4>1, <4>2, <4>3
    <3> QED BY <3>2, <3>3
  <2> QED BY <2>1, <2>2
<1>7. f \in [DOMAIN v -> DOMAIN u] /\ \A i \in DOMAIN v : v[i] = u[f[i]]
  BY <1>6, <1>e, <1>f
<1>8. \A i, k \in DOMAIN v : i < k => f[i] < f[k]
  BY <1>d, <1>f
<1>9. ASSUME NEW k \in DOMAIN v, NEW j \in DOMAIN u, j < f[k], u[j][2] # 0
      PROVE  \E i \in DOMAIN v : f[i] = j /\ i < k
  <2>0. k \in 1..a + b + c /\ j \in 1..a + (b + 1) + c
    BY <1>d
  <2>00. f[k] = k \/ f[k] = k + 1
    BY <1>f
  <2>1. CASE j <= a
    <3>1. j \in DOMAIN v /\ j < k
      BY <2>0, <2>1, <1>d, <1>f, <1>9
    <3>2. f[j] = j
      BY <2>1, <3>1, <1>f
    <3> QED BY <3>1, <3>2
  <2>2. CASE j = a + 1
    <3>1. u[j] = s[1]
      <4>1. ~ (j <= a) /\ j <= a + (b + 1) /\ j - a = 1
        BY <2>2
      <4>2. u[j] = s[j - a]
        BY <2>0, <4>1, <1>3
      <4> QED BY <4>1, <4>2
    <3> QED BY <3>1, <1>2, <1>9
  <2>3. CASE j > a + 1
    <3>0. j \in Int /\ k \in Int /\ j < k + 1
      BY <2>0, <2>00, <1>9
    <3>1. j - 1 \in DOMAIN v /\ j - 1 < k /\ ~ (j - 1 <= a) /\ (j - 1) + 1 = j
      <4>1. 1 <= j - 1 /\ j - 1 < k /\ ~ (j - 1 <= a) /\ (j - 1) + 1 = j /\ j - 1 \in Int
        BY <2>3, <3>0
      <4>2. k \in Int /\ k <= a + b + c
        BY <2>0
      <4>3. j - 1 \in 1..a + b + c
        BY <4>1, <4>2
      <4> QED BY <4>1, <4>3, <1>d
    <3>2. f[j - 1] = j
      BY <3>1, <1>f
    <3> QED BY <3>1, <3>2
  <2> QED BY <2>0, <2>1, <2>2, <2>3
<1>10. u \in Seq(UpMsg) /\ v \in Seq(UpMsg)
  BY <1>3, <1>4
<1>11. \A k \in DOMAIN v, j \in DOMAIN u :
         j < f[k] /\ u[j][2] # 0 => \E i \in DOMAIN v : f[i] = j /\ i < k
  BY <1>9
<1>12. InOrder(v)
  BY <1>5, <1>7, <1>8, <1>10, <1>11, InOrderEmbeds
<1> QED BY <1>12 DEF v

LEMMA InOrderExtends ==
  ASSUME NEW s \in Seq(UpMsg), NEW e \in UpMsg, InOrder(s),
         e[2] # 0 =>
           /\ \A m : Has(s, m) /\ m[2] # 0 => Precedes(m, e)
           /\ \A b \in Builds, n \in {2, 3} :
                e = Lifecycle(b)[n] => Has(s, Lifecycle(b)[n - 1])
  PROVE  InOrder(Append(s, e))
<1> DEFINE t == Append(s, e)
<1>1. PICK n \in Nat : /\ DOMAIN s = 1..n /\ DOMAIN t = 1..n + 1 /\ t[n + 1] = e
                       /\ \A i \in 1..n : t[i] = s[i]
  BY AppendOf
<1> HIDE DEF t
<1>2. /\ \A i \in 1..n + 1 : i \in 1..n \/ i = n + 1
      /\ n + 1 \in 1..n + 1 /\ 1..n \subseteq 1..n + 1
  OBVIOUS
<1>3. ASSUME NEW i \in DOMAIN t, NEW k \in DOMAIN t, i < k, t[i][2] # 0, t[k][2] # 0
      PROVE  Precedes(t[i], t[k])
  <2>1. i \in 1..n
    BY <1>1, <1>3
  <2>2. CASE k \in 1..n
    BY <2>1, <2>2, <1>1, <1>3 DEF InOrder
  <2>3. CASE k = n + 1
    <3>1. t[i] = s[i] /\ Has(s, s[i]) /\ t[k] = e
      BY <2>1, <2>3, <1>1 DEF Has
    <3> QED BY <3>1, <1>3
  <2> QED BY <2>2, <2>3, <1>1, <1>2
<1>4. ASSUME NEW k \in DOMAIN t, NEW b \in Builds, NEW l \in {2, 3}, t[k] = Lifecycle(b)[l]
      PROVE  \E i \in 1..(k - 1) : t[i] = Lifecycle(b)[l - 1]
  <2>1. CASE k \in 1..n
    <3>1. PICK i \in 1..(k - 1) : s[i] = Lifecycle(b)[l - 1]
      BY <2>1, <1>1, <1>4 DEF InOrder
    <3>2. i \in 1..n
      BY <2>1
    <3> QED BY <3>1, <3>2, <1>1
  <2>2. CASE k = n + 1
    <3>1. e = Lifecycle(b)[l] /\ l \in 1..3
      BY <2>2, <1>1, <1>4
    <3>2. e[2] # 0
      BY <3>1, LifecycleIs, DownAreNat
    <3>3. Has(s, Lifecycle(b)[l - 1])
      BY <3>1, <3>2
    <3>4. PICK i \in 1..n : s[i] = Lifecycle(b)[l - 1]
      BY <3>3, <1>1 DEF Has
    <3>5. i \in 1..(k - 1)
      BY <2>2
    <3> QED BY <3>4, <3>5, <1>1
  <2> QED BY <2>1, <2>2, <1>1, <1>2
<1>5. InOrder(t)
  BY <1>3, <1>4 DEF InOrder
<1> QED BY <1>5 DEF t

-----------------------------------------------------------------------------
(* The types.                                                              *)

LoopRuns == TypeOK /\ (at = "build" => build # Notice)

LEMMA InitType == Init => LoopRuns
<1> SUFFICES ASSUME Init
             PROVE  LoopRuns
  OBVIOUS
<1>1. <<>> \in Seq(UpMsg) /\ <<>> \in Seq(Builds \cup {Notice}) /\ Len(<<>>) = 0
  BY EmptySeq
<1>2. /\ sendQ \in Seq(UpMsg) /\ todo \in Seq(UpMsg) /\ received \in Seq(UpMsg)
      /\ recvQ \in Seq(Builds \cup {Notice}) /\ wire \in Seq(Builds \cup {Notice})
  BY <1>1 DEF Init
<1>3. Len(sendQ) = 0 /\ Len(todo) = 0 /\ Len(recvQ) = 0
  BY <1>1 DEF Init
<1>4. Len(sendQ) <= SendCap /\ Len(todo) <= 2 /\ Len(recvQ) <= RecvCap
  BY <1>3, CapacityAssumption
<1>5. /\ sent \in 0..MaxBuilds /\ notices \in 0..MaxNotices /\ breaks \in 0..MaxBreaks
      /\ stalls \in Nat
  BY BoundAssumption DEF Init
<1> QED BY <1>2, <1>4, <1>5 DEF Init, LoopRuns, TypeOK

LEMMA OneMessage == \A m \in UpMsg : <<m>> \in Seq(UpMsg) /\ Len(<<m>>) = 1
OBVIOUS

LEMMA TypeStep ==
  ASSUME LoopRuns, [Next]_vars
  PROVE  LoopRuns'
<1> USE DEF LoopRuns, TypeOK
<1>0. /\ <<>> \in Seq(UpMsg) /\ <<>> \in Seq(Builds \cup {Notice}) /\ Len(<<>>) = 0
      /\ Join \in UpMsg /\ Ping \in UpMsg
      /\ MaxBuilds \in Nat /\ MaxNotices \in Nat /\ MaxBreaks \in Nat
      /\ SendCap \in Nat /\ RecvCap \in Nat
      /\ Len(sendQ) \in Nat /\ Len(recvQ) \in Nat /\ Len(todo) \in Nat
  BY EmptySeq, ReportsAreUpMsgs, CapacityAssumption, BoundAssumption, LenProperties
<1>00. /\ <<Join>> \in Seq(UpMsg) /\ Len(<<Join>>) = 1
       /\ <<Ping>> \in Seq(UpMsg) /\ Len(<<Ping>>) = 1
  BY ReportsAreUpMsgs, OneMessage
<1>1. CASE LoopStep
  <2>1. CASE Connect
    <3>1. todo' \in Seq(UpMsg) /\ Len(todo') <= 2
      BY <2>1, <1>00 DEF Connect
    <3>2. sendQ' \in Seq(UpMsg) /\ recvQ' \in Seq(Builds \cup {Notice})
      BY <2>1, <1>0 DEF Connect
    <3>3. Len(sendQ') <= SendCap /\ Len(recvQ') <= RecvCap
      BY <2>1, <1>0 DEF Connect
    <3>4. wire' \in Seq(Builds \cup {Notice})
      BY <2>1, <1>0 DEF Connect
    <3> QED BY <2>1, <3>1, <3>2, <3>3, <3>4 DEF Connect, counters
  <2>2. CASE Send
    <3>1. Head(todo) \in UpMsg /\ Tail(todo) \in Seq(UpMsg) /\ Len(Tail(todo)) = Len(todo) - 1
      BY <2>2, TailOf DEF Send
    <3>2. /\ Append(sendQ, Head(todo)) \in Seq(UpMsg)
          /\ Len(Append(sendQ, Head(todo))) = Len(sendQ) + 1
      BY <3>1, AppendProperties
    <3> QED BY <2>2, <3>1, <3>2, <1>0 DEF Send, pumpVars, netVars, counters
  <2>3. CASE ReadNotice
    <3>1. Tail(recvQ) \in Seq(Builds \cup {Notice}) /\ Len(Tail(recvQ)) = Len(recvQ) - 1
      BY <2>3, TailOf DEF ReadNotice
    <3> QED BY <2>3, <3>1, <1>0 DEF ReadNotice, loopVars, pumpVars, netVars, counters
  <2>4. CASE StartBuild
    <3>1. /\ Tail(recvQ) \in Seq(Builds \cup {Notice}) /\ Len(Tail(recvQ)) = Len(recvQ) - 1
          /\ Head(recvQ) \in Builds
      BY <2>4, TailOf DEF StartBuild
    <3>2. Report("Building", Head(recvQ)) \in UpMsg
      BY <3>1 DEF Report, UpMsg
    <3>3. todo' \in Seq(UpMsg) /\ Len(todo') <= 2
      <4> DEFINE e == Report("Building", Head(recvQ))
      <4>1. e \in UpMsg /\ todo' = <<e>>
        BY <2>4, <3>2 DEF StartBuild
      <4> HIDE DEF e
      <4>2. <<e>> \in Seq(UpMsg) /\ Len(<<e>>) = 1
        BY <4>1, OneMessage
      <4> QED BY <4>1, <4>2
    <3>4. build' \in Builds /\ at' = "build"
      BY <2>4, <3>1 DEF StartBuild
    <3>5. recvQ' \in Seq(Builds \cup {Notice}) /\ Len(recvQ') <= RecvCap
      BY <2>4, <3>1, <1>0 DEF StartBuild
    <3>6. build' # Notice
      BY <3>4, DownAreNat
    <3> QED BY <2>4, <3>3, <3>4, <3>5, <3>6, <1>0 DEF StartBuild, pumpVars, netVars, counters
  <2>5. CASE FinishBuild
    <3> DEFINE c == Report("Completing", build)
               d == Report("Completed", build)
    <3>1. c \in UpMsg /\ d \in UpMsg
      BY <2>5 DEF Report, UpMsg, FinishBuild
    <3>2. todo' = <<c, d>>
      BY <2>5 DEF FinishBuild
    <3> HIDE DEF c, d
    <3>3. todo' \in Seq(UpMsg) /\ Len(todo') = 2
      BY <3>1, <3>2
    <3> QED BY <2>5, <3>3, <1>0 DEF FinishBuild, pumpVars, queues, netVars, counters
  <2>6. CASE LoseConnection
    BY <2>6, <1>0 DEF LoseConnection, Close, pumpVars, queues, counters
  <2> QED BY <1>1, <2>1, <2>2, <2>3, <2>4, <2>5, <2>6 DEF LoopStep
<1>2. CASE Tick
  BY <1>2 DEF Tick, pumpVars, queues, netVars, counters
<1>3. CASE SendPing
  <2>1. todo' \in Seq(UpMsg) /\ Len(todo') <= 2
    BY <1>3, <1>00 DEF SendPing
  <2> QED BY <1>3, <2>1 DEF SendPing, AtSelect, pumpVars, queues, netVars, counters
<1>4. CASE StopLoop
  BY <1>4, <1>0 DEF StopLoop, Close, pumpVars, queues, counters
<1>5. CASE ReaderStep
  <2>1. CASE Read
    <3>1. Tail(wire) \in Seq(Builds \cup {Notice}) /\ Head(wire) \in Builds \cup {Notice}
      BY <2>1, TailOf DEF Read
    <3> QED BY <2>1, <3>1 DEF Read, loopVars, queues, counters
  <2>2. CASE Deliver
    <3>1. /\ Append(recvQ, unread) \in Seq(Builds \cup {Notice})
          /\ Len(Append(recvQ, unread)) = Len(recvQ) + 1
      BY AppendProperties
    <3> QED BY <2>2, <3>1, <1>0 DEF Deliver, loopVars, netVars, counters
  <2>3. CASE ReaderStops
    BY <2>3 DEF ReaderStops, loopVars, queues, netVars, counters
  <2>4. CASE ReadFails
    BY <2>4 DEF ReadFails, loopVars, queues, netVars, counters
  <2> QED BY <1>5, <2>1, <2>2, <2>3, <2>4 DEF ReaderStep
<1>6. CASE ReadDeadlinePasses
  BY <1>6 DEF ReadDeadlinePasses, loopVars, queues, netVars
<1>7. CASE WriterStep
  <2>1. CASE Write
    <3>1. Tail(sendQ) \in Seq(UpMsg) /\ Len(Tail(sendQ)) = Len(sendQ) - 1 /\ Head(sendQ) \in UpMsg
      BY <2>1, TailOf DEF Write
    <3>2. Append(received, Head(sendQ)) \in Seq(UpMsg)
      BY <3>1, AppendProperties
    <3> QED BY <2>1, <3>1, <3>2, <1>0 DEF Write, loopVars, pumpVars, counters
  <2>2. CASE WriteFails
    <3>1. sendQ' = sendQ \/ (sendQ # <<>> /\ sendQ' = Tail(sendQ))
      BY <2>2 DEF WriteFails
    <3>2. sendQ' \in Seq(UpMsg) /\ Len(sendQ') <= SendCap
      <4>1. ASSUME sendQ # <<>>
            PROVE  Tail(sendQ) \in Seq(UpMsg) /\ Len(Tail(sendQ)) = Len(sendQ) - 1
        BY <4>1, TailOf
      <4>2. CASE sendQ' = sendQ
        BY <4>2
      <4>3. CASE sendQ # <<>> /\ sendQ' = Tail(sendQ)
        BY <4>1, <4>3, <1>0
      <4> QED BY <3>1, <4>2, <4>3
    <3> QED BY <2>2, <3>2 DEF WriteFails, loopVars, netVars, counters
  <2>3. CASE WriterStops
    BY <2>3 DEF WriterStops, loopVars, queues, netVars, counters
  <2> QED BY <1>7, <2>1, <2>2, <2>3 DEF WriterStep
<1>8. CASE SendBuild
  <2>1. sent + 1 \in Builds /\ sent' \in 0..MaxBuilds
    BY <1>8, <1>0 DEF SendBuild, Builds
  <2>2. wire' \in Seq(Builds \cup {Notice})
    BY <1>8, <2>1, AppendProperties DEF SendBuild
  <2> QED BY <1>8, <2>1, <2>2 DEF SendBuild, loopVars, pumpVars, queues
<1>9. CASE SendNotice
  <2>1. notices' \in 0..MaxNotices
    BY <1>9, <1>0 DEF SendNotice
  <2>2. wire' \in Seq(Builds \cup {Notice})
    BY <1>9, AppendProperties DEF SendNotice
  <2> QED BY <1>9, <2>1, <2>2 DEF SendNotice, loopVars, pumpVars, queues
<1>10. CASE Break
  <2>1. breaks' \in 0..MaxBreaks
    BY <1>10, <1>0 DEF Break
  <2>2. wire' \in Seq(Builds \cup {Notice})
    BY <1>10, RisingPrefix DEF Break, Down
  <2> QED BY <1>10, <2>1, <2>2 DEF Break, loopVars, pumpVars, queues
<1>11. CASE NoticeReset
  BY <1>11 DEF NoticeReset, loopVars, pumpVars, queues, counters
<1>12. CASE CancelContext
  BY <1>12 DEF CancelContext, pumpVars, queues, netVars, counters
<1>13. CASE UNCHANGED vars
  BY <1>13 DEF vars, loopVars, pumpVars, queues, netVars, counters
<1> QED
  BY <1>1, <1>2, <1>3, <1>4, <1>5, <1>6, <1>7, <1>8, <1>9, <1>10, <1>11, <1>12, <1>13 DEF Next

-----------------------------------------------------------------------------
(* The builds arrive in rising order.                                      *)

LEMMA InitRise == Init => BuildsRise
<1> SUFFICES ASSUME Init
             PROVE  BuildsRise
  OBVIOUS
<1>1. /\ BuildsIn(recvQ) = {} /\ Rising(recvQ) /\ BuildsIn(wire) = {} /\ Rising(wire)
      /\ Held = {} /\ build = 0 /\ sent = 0
  BY NoBuilds DEF Init, Held, Holds, Notice
<1> QED BY <1>1 DEF BuildsRise, AllLess

\* Nothing else touches them.
LEMMA IncomingWriters ==
  ASSUME [Next]_vars
  PROVE  \/ UNCHANGED <<recvQ, wire, reader, unread, build, sent>>
         \/ Connect \/ ReadNotice \/ StartBuild \/ LoseConnection \/ StopLoop
         \/ Read \/ Deliver \/ ReaderStops \/ ReadFails \/ ReadDeadlinePasses
         \/ SendBuild \/ SendNotice \/ Break
<1>1. CASE LoopStep
  BY <1>1 DEF LoopStep, Send, FinishBuild, pumpVars, queues, netVars, counters
<1>2. CASE WriterStep
  BY <1>2 DEF WriterStep, Write, WriteFails, WriterStops, loopVars, pumpVars, queues, netVars,
              counters
<1>3. CASE Tick \/ SendPing \/ NoticeReset \/ CancelContext
  BY <1>3 DEF Tick, SendPing, NoticeReset, CancelContext, loopVars, pumpVars, queues, netVars,
              counters
<1>4. CASE UNCHANGED vars
  BY <1>4 DEF vars, loopVars, pumpVars, queues, netVars, counters
<1> QED BY <1>1, <1>2, <1>3, <1>4 DEF Next, ReaderStep

LEMMA RiseStep ==
  ASSUME LoopRuns, BuildsRise, [Next]_vars
  PROVE  BuildsRise'
<1>1. /\ recvQ \in Seq(Down) /\ wire \in Seq(Down) /\ unread \in Down /\ build \in Down
      /\ BuildsIn(recvQ) \subseteq Nat /\ BuildsIn(wire) \subseteq Nat /\ Held \subseteq Nat
      /\ build \in Nat /\ sent \in Nat
  <2>1. recvQ \in Seq(Down) /\ wire \in Seq(Down) /\ unread \in Down /\ build \in Down
    BY DEF LoopRuns, TypeOK, Down
  <2>2. BuildsIn(recvQ) \subseteq Nat /\ BuildsIn(wire) \subseteq Nat
    BY <2>1, BuildsInDown, DownAreNat
  <2>3. Held \subseteq Nat /\ build \in Nat
    BY <2>1, DownAreNat DEF Held
  <2>4. sent \in Nat
    BY BoundAssumption DEF LoopRuns, TypeOK
  <2> QED BY <2>1, <2>2, <2>3, <2>4
<1>2. CASE UNCHANGED <<recvQ, wire, reader, unread, build, sent>>
  BY <1>2 DEF BuildsRise, Held, Holds
<1>3. CASE Connect
  <2>1. /\ BuildsIn(recvQ') = {} /\ Rising(recvQ') /\ BuildsIn(wire') = {} /\ Rising(wire')
    BY <1>3, NoBuilds DEF Connect
  <2>2. Held' = {} /\ build' = build /\ sent' = sent
    BY <1>3 DEF Connect, Held, Holds, counters
  <2> QED BY <2>1, <2>2 DEF BuildsRise, AllLess
<1>4. CASE ReadNotice
  <2>1. /\ BuildsIn(recvQ') = BuildsIn(recvQ) /\ Rising(recvQ')
    BY <1>4, <1>1, RisingTail DEF ReadNotice, BuildsRise
  <2>2. Held' = Held /\ build' = build /\ sent' = sent /\ wire' = wire
    BY <1>4 DEF ReadNotice, Held, Holds, loopVars, pumpVars, netVars, counters
  <2> QED BY <2>1, <2>2 DEF BuildsRise
<1>5. CASE StartBuild
  <2>1. /\ BuildsIn(recvQ) = BuildsIn(recvQ') \cup {build'} /\ Rising(recvQ')
        /\ AllLess({build'}, BuildsIn(recvQ'))
    <3>1. {Head(recvQ)} \ {Notice} = {Head(recvQ)}
      BY <1>5 DEF StartBuild
    <3> QED BY <1>5, <1>1, <3>1, RisingTail DEF StartBuild, BuildsRise
  <2>2. Held' = Held /\ sent' = sent /\ wire' = wire
    BY <1>5 DEF StartBuild, Held, Holds, pumpVars, netVars, counters
  <2> QED BY <2>1, <2>2 DEF BuildsRise, AllLess
<1>6. CASE LoseConnection \/ StopLoop
  <2>1. recvQ' = recvQ /\ Held' = Held /\ build' = build /\ sent' = sent /\ wire' = <<>>
    BY <1>6 DEF LoseConnection, StopLoop, Close, Held, Holds, pumpVars, queues, counters
  <2>2. BuildsIn(wire') = {} /\ Rising(wire')
    BY <2>1, NoBuilds
  <2> QED BY <2>1, <2>2 DEF BuildsRise, AllLess
<1>7. CASE Read
  <2>1. /\ BuildsIn(wire) = BuildsIn(wire') \cup ({unread'} \ {Notice}) /\ Rising(wire')
        /\ AllLess({unread'} \ {Notice}, BuildsIn(wire'))
    BY <1>7, <1>1, RisingTail DEF Read, BuildsRise
  <2>2. /\ Held' = {unread'} \ {Notice}
        /\ recvQ' = recvQ /\ build' = build /\ sent' = sent
    BY <1>7 DEF Read, Held, Holds, loopVars, queues, counters
  <2> QED BY <2>1, <2>2 DEF BuildsRise, AllLess
<1>8. CASE Deliver
  <2>1. /\ Held = {unread} \ {Notice} /\ Held' = {}
        /\ recvQ' = Append(recvQ, unread)
        /\ wire' = wire /\ build' = build /\ sent' = sent
    BY <1>8 DEF Deliver, Held, Holds, loopVars, netVars, counters
  <2>2. AllLess(BuildsIn(recvQ), {unread} \ {Notice})
    BY <2>1 DEF BuildsRise, AllLess
  <2>3. BuildsIn(recvQ') = BuildsIn(recvQ) \cup Held /\ Rising(recvQ')
    BY <1>1, <2>1, <2>2, RisingAppend DEF BuildsRise
  <2> QED BY <2>1, <2>3 DEF BuildsRise, AllLess
<1>9. CASE ReaderStops \/ ReadFails
  <2>1. /\ Held' = {} /\ recvQ' = recvQ /\ wire' = wire /\ build' = build /\ sent' = sent
    BY <1>9 DEF ReaderStops, ReadFails, Held, Holds, loopVars, queues, netVars, counters
  <2> QED BY <2>1 DEF BuildsRise, AllLess
<1>10. CASE ReadDeadlinePasses
  <2>1. /\ Held' = Held /\ recvQ' = recvQ /\ wire' = wire /\ build' = build /\ sent' = sent
    BY <1>10 DEF ReadDeadlinePasses, Held, Holds, loopVars, queues, netVars
  <2> QED BY <2>1 DEF BuildsRise
<1>11. CASE SendBuild
  <2>1. /\ Held' = Held /\ recvQ' = recvQ /\ build' = build
        /\ sent' = sent + 1 /\ wire' = Append(wire, sent + 1)
    BY <1>11 DEF SendBuild, Held, Holds, loopVars, pumpVars, queues
  <2>2. sent + 1 \in Down
    BY <1>1, <1>11, BoundAssumption DEF SendBuild, Down, Builds
  <2>3. AllLess(BuildsIn(wire), {sent + 1} \ {Notice})
    BY <1>1 DEF BuildsRise, AllLess
  <2>4. BuildsIn(wire') = BuildsIn(wire) \cup ({sent + 1} \ {Notice}) /\ Rising(wire')
    BY <1>1, <2>1, <2>2, <2>3, RisingAppend DEF BuildsRise
  <2>5. BuildsIn(wire') \subseteq BuildsIn(wire) \cup {sent'}
    BY <2>1, <2>4
  <2>6. AllLess({build} \cup BuildsIn(recvQ) \cup Held, BuildsIn(wire'))
    BY <1>1, <2>1, <2>5 DEF BuildsRise, AllLess
  <2>7. {build} \cup BuildsIn(recvQ) \cup Held \cup BuildsIn(wire') \subseteq 0..sent'
    BY <1>1, <2>1, <2>5 DEF BuildsRise
  <2> QED BY <2>1, <2>4, <2>6, <2>7 DEF BuildsRise
<1>12. CASE SendNotice
  <2>1. /\ Held' = Held /\ recvQ' = recvQ /\ build' = build /\ sent' = sent
        /\ wire' = Append(wire, Notice)
    BY <1>12 DEF SendNotice, Held, Holds, loopVars, pumpVars, queues
  <2>2. BuildsIn(wire') = BuildsIn(wire) \cup ({Notice} \ {Notice})
    BY <1>1, <2>1, RisingAppend DEF Down
  <2>3. Rising(wire')
    <3>1. AllLess(BuildsIn(wire), {Notice} \ {Notice})
      BY DEF AllLess
    <3> QED BY <1>1, <2>1, <3>1, RisingAppend DEF Down, BuildsRise
  <2> QED BY <2>1, <2>2, <2>3 DEF BuildsRise
<1>13. CASE Break
  <2>1. Held' = Held /\ recvQ' = recvQ /\ build' = build /\ sent' = sent
    BY <1>13 DEF Break, Held, Holds, loopVars, pumpVars, queues
  <2>2. BuildsIn(wire') \subseteq BuildsIn(wire) /\ Rising(wire')
    BY <1>1, <1>13, RisingPrefix DEF Break, BuildsRise
  <2> QED BY <2>1, <2>2 DEF BuildsRise, AllLess
<1> QED
  BY <1>2, <1>3, <1>4, <1>5, <1>6, <1>7, <1>8, <1>9, <1>10, <1>11, <1>12, <1>13,
     IncomingWriters

-----------------------------------------------------------------------------
(* The reports stay in order.                                              *)

LEMMA Extended ==
  ASSUME NEW S, NEW q \in Seq(S), NEW e \in S, NEW f \in S
  PROVE  /\ q \o <<>> = q
         /\ q \o <<e>> = Append(q, e) /\ Append(q, e) \in Seq(S)
         /\ q \o <<e, f>> = Append(Append(q, e), f)
<1>1. q \o <<>> = q
  BY ConcatEmptySeq
<1>2. q \o <<e>> = Append(q, e) /\ Append(q, e) \in Seq(S)
  BY AppendIsConcat, AppendProperties
<1>3. Append(Append(q, e), f) = Append(q, e) \o <<f>>
  BY <1>2, AppendIsConcat
<1>4. <<e>> \in Seq(S) /\ <<f>> \in Seq(S)
  OBVIOUS
<1>5. (q \o <<e>>) \o <<f>> = q \o (<<e>> \o <<f>>)
  BY <1>4, ConcatAssociative, SMTT(30)
<1>6. <<e>> \o <<f>> = <<e, f>>
  <2>1. Append(<<e>>, f) = <<e>> \o <<f>>
    BY <1>4, AppendIsConcat
  <2>2. Append(<<e>>, f) = <<e, f>>
    <3>1. /\ Append(<<e>>, f) \in Seq(S) /\ Len(Append(<<e>>, f)) = 2
          /\ Append(<<e>>, f)[1] = e /\ Append(<<e>>, f)[2] = f
      BY <1>4, AppendProperties
    <3>2. /\ <<e, f>> \in Seq(S) /\ Len(<<e, f>>) = 2
          /\ <<e, f>>[1] = e /\ <<e, f>>[2] = f
      OBVIOUS
    <3>3. \A i \in 1..2 : i = 1 \/ i = 2
      OBVIOUS
    <3> QED BY <3>1, <3>2, <3>3, SeqEqual
  <2> QED BY <2>1, <2>2
<1> QED BY <1>1, <1>2, <1>3, <1>5, <1>6

LEMMA QueuesTyped ==
  ASSUME LoopRuns
  PROVE  /\ received \in Seq(UpMsg) /\ sendQ \in Seq(UpMsg) /\ todo \in Seq(UpMsg)
         /\ received \o sendQ \in Seq(UpMsg) /\ Outgoing \in Seq(UpMsg)
         /\ build \in Nat /\ (at = "build" => build \in Builds)
<1>1. /\ received \in Seq(UpMsg) /\ sendQ \in Seq(UpMsg) /\ todo \in Seq(UpMsg)
      /\ build \in Builds \cup {Notice} /\ (at = "build" => build # Notice)
  BY DEF LoopRuns, TypeOK
<1>2. received \o sendQ \in Seq(UpMsg)
  BY <1>1, ConcatProperties
<1>3. Outgoing \in Seq(UpMsg)
  BY <1>1, <1>2, ConcatProperties DEF Outgoing
<1> QED BY <1>1, <1>2, <1>3, DownAreNat

LEMMA JoinedTwice == \A r, s, t \in Seq(UpMsg) : (r \o s) \o t = r \o (s \o t)
<1> TAKE r, s, t \in Seq(UpMsg)
<1> QED BY ConcatAssociative, SMTT(30)

LEMMA SendMoves ==
  ASSUME LoopRuns, Send
  PROVE  Outgoing' = Outgoing
<1> DEFINE longer == Append(sendQ, Head(todo))
           rest == Tail(todo)
<1>1. /\ received \in Seq(UpMsg) /\ sendQ \in Seq(UpMsg) /\ todo \in Seq(UpMsg)
      /\ todo # <<>> /\ received' = received /\ sendQ' = longer /\ todo' = rest
  BY QueuesTyped DEF Send, netVars
<1>2. longer \in Seq(UpMsg) /\ rest \in Seq(UpMsg)
  BY <1>1, TailOf, AppendProperties
<1>3. longer \o rest = sendQ \o todo
  BY <1>1, MoveOne
<1>4. received \in Seq(UpMsg) /\ sendQ \in Seq(UpMsg) /\ todo \in Seq(UpMsg)
  BY <1>1
<1>5. (received \o longer) \o rest = received \o (longer \o rest)
  <2>1. \A x, y, z \in Seq(UpMsg) : (x \o y) \o z = x \o (y \o z)
    BY JoinedTwice
  <2> HIDE DEF longer, rest
  <2>2. \A z \in Seq(UpMsg) : (received \o longer) \o z = received \o (longer \o z)
    BY <1>2, <1>4, <2>1, Zenon
  <2> QED BY <1>2, <2>2, Zenon
<1>6. (received \o sendQ) \o todo = received \o (sendQ \o todo)
  BY <1>4, JoinedTwice, Zenon
<1> HIDE DEF longer, rest
<1> QED BY <1>1, <1>3, <1>5, <1>6 DEF Outgoing

LEMMA WriteMoves ==
  ASSUME LoopRuns, Write, link = "up"
  PROVE  /\ sendQ # <<>> /\ Head(sendQ) \in UpMsg
         /\ Head(sendQ)[2] # 0 =>
              received' = Append(received, Head(sendQ)) /\ Outgoing' = Outgoing
         /\ Head(sendQ)[2] = 0 =>
              received' = received /\ Outgoing' = (received \o Tail(sendQ)) \o todo
<1>1. /\ received \in Seq(UpMsg) /\ sendQ \in Seq(UpMsg) /\ sendQ # <<>>
      /\ sendQ' = Tail(sendQ) /\ todo' = todo
  BY QueuesTyped DEF Write, loopVars
<1>2. CASE Head(sendQ)[2] # 0
  <2>1. received' = Append(received, Head(sendQ))
    BY <1>2 DEF Write
  <2>2. received' \o sendQ' = received \o sendQ
    BY <1>1, <2>1, MoveOne
  <2> QED BY <1>1, <1>2, <2>1, <2>2, TailOf DEF Outgoing
<1>3. CASE Head(sendQ)[2] = 0
  <2>1. received' = received
    BY <1>3 DEF Write
  <2> QED BY <1>1, <1>3, <2>1, TailOf DEF Outgoing
<1> QED BY <1>2, <1>3

LEMMA PingWritten ==
  ASSUME LoopRuns, Write, link = "up", Head(sendQ)[2] = 0
  PROVE  /\ InOrder(Outgoing) => InOrder(Outgoing')
         /\ \A m : Has(Outgoing', m) => Has(Outgoing, m)
         /\ \A m : m[2] # 0 /\ Has(Outgoing, m) => Has(Outgoing', m)
<1>1. /\ received \in Seq(UpMsg) /\ sendQ \in Seq(UpMsg) /\ todo \in Seq(UpMsg)
      /\ sendQ # <<>> /\ Outgoing' = (received \o Tail(sendQ)) \o todo
      /\ Tail(sendQ) \in Seq(UpMsg)
  BY QueuesTyped, WriteMoves, TailOf
<1>2. InOrder(Outgoing) => InOrder(Outgoing')
  BY <1>1, InOrderWithout DEF Outgoing
<1>3. ASSUME NEW m
      PROVE  /\ Has(Outgoing, m) <=> Has(received, m) \/ Has(sendQ, m) \/ Has(todo, m)
             /\ Has(Outgoing', m) <=> Has(received, m) \/ Has(Tail(sendQ), m) \/ Has(todo, m)
             /\ Has(sendQ, m) <=> Has(Tail(sendQ), m) \/ Head(sendQ) = m
  <2>1. Has(Outgoing, m) <=> Has(received, m) \/ Has(sendQ, m) \/ Has(todo, m)
    BY <1>1, HasJoined DEF Outgoing
  <2>2. Has((received \o Tail(sendQ)) \o todo, m)
          <=> Has(received, m) \/ Has(Tail(sendQ), m) \/ Has(todo, m)
    BY <1>1, HasJoined
  <2>3. Has(sendQ, m) <=> Has(Tail(sendQ), m) \/ Head(sendQ) = m
    BY <1>1, HasTail
  <2> QED BY <1>1, <2>1, <2>2, <2>3
<1> QED BY <1>2, <1>3

\* What the loop adds, it adds at the end.
LEMMA LoopAppends ==
  ASSUME LoopRuns
  PROVE  /\ Connect => Outgoing' = Append(received, Join)
         /\ SendPing => Outgoing' = Append(Outgoing, Ping)
         /\ StartBuild => /\ build' \in Builds
                          /\ Outgoing' = Append(Outgoing, Lifecycle(build')[1])
         /\ FinishBuild =>
              Outgoing' = Append(Append(Outgoing, Lifecycle(build)[2]), Lifecycle(build)[3])
<1>1. /\ received \in Seq(UpMsg) /\ sendQ \in Seq(UpMsg) /\ received \o sendQ \in Seq(UpMsg)
      /\ Join \in UpMsg /\ Ping \in UpMsg /\ 1 \in 1..3 /\ 2 \in 1..3 /\ 3 \in 1..3
  BY QueuesTyped, ReportsAreUpMsgs
<1>2. ASSUME Connect
      PROVE  Outgoing' = Append(received, Join)
  <2>1. Outgoing' = (received \o <<>>) \o <<Join>>
    BY <1>2 DEF Connect, Outgoing
  <2> QED BY <1>1, <2>1, Extended
<1>3. todo = <<>> => Outgoing = received \o sendQ
  BY <1>1, Extended DEF Outgoing
<1>4. ASSUME SendPing
      PROVE  Outgoing' = Append(Outgoing, Ping)
  <2>1. todo = <<>> /\ Outgoing' = (received \o sendQ) \o <<Ping>>
    BY <1>4 DEF SendPing, AtSelect, Outgoing, queues, netVars
  <2>2. (received \o sendQ) \o <<Ping>> = Append(received \o sendQ, Ping)
    BY <1>1, Extended
  <2> QED BY <1>3, <2>1, <2>2
<1>5. ASSUME StartBuild
      PROVE  /\ build' \in Builds
             /\ Outgoing' = Append(Outgoing, Lifecycle(build')[1])
  <2>1. build' \in Builds
    BY <1>5, TailOf DEF StartBuild, LoopRuns, TypeOK
  <2>2. todo = <<>> /\ todo' = <<Lifecycle(build')[1]>>
    BY <1>5, LifecycleIs DEF StartBuild, AtSelect, Report
  <2>3. Outgoing' = (received \o sendQ) \o <<Lifecycle(build')[1]>>
    BY <1>5, <2>2 DEF StartBuild, Outgoing, netVars
  <2>4. Lifecycle(build')[1] \in UpMsg
    BY <1>1, <2>1, ReportsAreUpMsgs
  <2> DEFINE q == received \o sendQ
             e == Lifecycle(build')[1]
  <2>5. q \in Seq(UpMsg) /\ e \in UpMsg
    BY <1>1, <2>4
  <2> HIDE DEF q, e
  <2>6. q \o <<e>> = Append(q, e)
    BY <2>5, Extended
  <2> QED BY <1>3, <2>1, <2>2, <2>3, <2>6 DEF q, e
<1>6. ASSUME FinishBuild
      PROVE  Outgoing' = Append(Append(Outgoing, Lifecycle(build)[2]), Lifecycle(build)[3])
  <2>1. build \in Builds
    BY <1>6, QueuesTyped DEF FinishBuild
  <2>2. todo = <<>> /\ todo' = <<Lifecycle(build)[2], Lifecycle(build)[3]>>
    BY <1>6, LifecycleIs DEF FinishBuild, Report
  <2>3. Outgoing' = (received \o sendQ) \o <<Lifecycle(build)[2], Lifecycle(build)[3]>>
    BY <1>6, <2>2 DEF FinishBuild, Outgoing, queues, netVars
  <2>4. Lifecycle(build)[2] \in UpMsg /\ Lifecycle(build)[3] \in UpMsg
    BY <1>1, <2>1, ReportsAreUpMsgs
  <2> DEFINE q == received \o sendQ
             c == Lifecycle(build)[2]
             d == Lifecycle(build)[3]
  <2>5. q \in Seq(UpMsg) /\ c \in UpMsg /\ d \in UpMsg
    BY <1>1, <2>4
  <2> HIDE DEF q, c, d
  <2>6. q \o <<c, d>> = Append(Append(q, c), d)
    BY <2>5, Extended
  <2> QED BY <1>3, <2>2, <2>3, <2>6 DEF q, c, d
<1> QED BY <1>2, <1>4, <1>5, <1>6

LEMMA OutgoingWriters ==
  ASSUME [Next]_vars
  PROVE  \/ UNCHANGED <<received, sendQ, todo, link, build, at>>
         \/ Connect \/ Send \/ SendPing \/ StartBuild \/ FinishBuild
         \/ LoseConnection \/ StopLoop \/ Write \/ WriteFails \/ Break \/ NoticeReset
<1>1. CASE LoopStep
  BY <1>1 DEF LoopStep, ReadNotice, loopVars, netVars
<1>2. CASE ReaderStep
  BY <1>2 DEF ReaderStep, Read, Deliver, ReaderStops, ReadFails, loopVars, queues, netVars
<1>3. CASE WriterStep
  BY <1>3 DEF WriterStep, WriterStops, loopVars, queues, netVars
<1>4. CASE Tick \/ ReadDeadlinePasses \/ SendBuild \/ SendNotice \/ CancelContext
  BY <1>4 DEF Tick, ReadDeadlinePasses, SendBuild, SendNotice, CancelContext, loopVars, queues,
              netVars
<1>5. CASE UNCHANGED vars
  BY <1>5 DEF vars, loopVars, queues, netVars
<1> QED BY <1>1, <1>2, <1>3, <1>4, <1>5 DEF Next

LEMMA UpToHas ==
  ASSUME NEW s, NEW n
  PROVE  UpTo(s, n) <=> \A m : Has(s, m) => m[2] <= n
BY DEF UpTo, Has

\* The reports of the next build follow those of the ones before.
LEMMA AnnounceInOrder ==
  ASSUME NEW s \in Seq(UpMsg), NEW b \in Builds, NEW n \in Nat, n < b, InOrder(s), UpTo(s, n)
  PROVE  /\ InOrder(Append(s, Lifecycle(b)[1])) /\ UpTo(Append(s, Lifecycle(b)[1]), b)
         /\ Has(Append(s, Lifecycle(b)[1]), Lifecycle(b)[1])
         /\ ~ Has(Append(s, Lifecycle(b)[1]), Lifecycle(b)[2])
         /\ ~ Has(Append(s, Lifecycle(b)[1]), Lifecycle(b)[3])
<1> DEFINE e == Lifecycle(b)[1]
<1>1. e \in UpMsg /\ e[2] = b /\ b \in Nat /\ e = <<"Building", b>>
  <2>1. 1 \in 1..3
    OBVIOUS
  <2> QED BY <2>1, ReportsAreUpMsgs, LifecycleIs, DownAreNat
<1>2. \A c \in Builds, k \in {2, 3} : e # Lifecycle(c)[k]
  BY <1>1, LifecycleIs
<1> HIDE DEF e
<1>3. \A m : Has(s, m) => m \in UpMsg /\ m[2] \in Nat /\ m[2] <= n
  <2>1. \A i \in DOMAIN s : s[i] \in UpMsg /\ s[i][2] \in Nat
    BY ElementOfSeq, LenProperties, UpMsgIs
  <2> QED BY <2>1 DEF Has, UpTo
<1>4. \A m : Has(s, m) => Precedes(m, e)
  BY <1>1, <1>3 DEF Precedes
<1>5. InOrder(Append(s, e))
  BY <1>1, <1>2, <1>4, InOrderExtends
<1>6. \A m : Has(Append(s, e), m) <=> Has(s, m) \/ e = m
  BY <1>1, HasAppend
<1>7. UpTo(Append(s, e), b)
  <2>1. \A m : Has(Append(s, e), m) => m[2] <= b
    BY <1>1, <1>3, <1>6
  <2> QED BY <2>1, UpToHas
<1>8. ASSUME NEW k \in {2, 3}
      PROVE  ~ Has(Append(s, e), Lifecycle(b)[k])
  <2>1. Lifecycle(b)[k][2] = b
    BY LifecycleIs
  <2>2. ~ Has(s, Lifecycle(b)[k])
    BY <2>1, <1>1, <1>3
  <2> QED BY <2>2, <1>2, <1>6
<1> QED BY <1>5, <1>6, <1>7, <1>8 DEF e

LEMMA CompleteInOrder ==
  ASSUME NEW s \in Seq(UpMsg), NEW b \in Builds, InOrder(s), UpTo(s, b),
         Has(s, Lifecycle(b)[1]), ~ Has(s, Lifecycle(b)[2]), ~ Has(s, Lifecycle(b)[3])
  PROVE  /\ InOrder(Append(Append(s, Lifecycle(b)[2]), Lifecycle(b)[3]))
         /\ UpTo(Append(Append(s, Lifecycle(b)[2]), Lifecycle(b)[3]), b)
<1> DEFINE c == Lifecycle(b)[2]
           d == Lifecycle(b)[3]
           t == Append(s, c)
           u == Append(t, d)
<1>1. /\ c \in UpMsg /\ d \in UpMsg /\ c[2] = b /\ d[2] = b /\ b \in Nat /\ b # 0
      /\ c = <<"Completing", b>> /\ d = <<"Completed", b>>
  <2>1. 2 \in 1..3 /\ 3 \in 1..3
    OBVIOUS
  <2> QED BY <2>1, ReportsAreUpMsgs, LifecycleIs, DownAreNat
<1>2. t \in Seq(UpMsg)
  BY <1>1, AppendProperties
<1>3. /\ \A m : Has(t, m) <=> Has(s, m) \/ c = m
      /\ \A m : Has(u, m) <=> Has(t, m) \/ d = m
  <2> HIDE DEF c, d
  <2>1. \A m : Has(t, m) <=> Has(s, m) \/ c = m
    BY <1>1, HasAppend
  <2> HIDE DEF t
  <2>2. \A m : Has(u, m) <=> Has(t, m) \/ d = m
    BY <1>1, <1>2, HasAppend
  <2> QED BY <2>1, <2>2
<1>4. \A m : Has(s, m) => m \in UpMsg /\ m[2] \in Nat /\ m[2] <= b
  <2>1. \A i \in DOMAIN s : s[i] \in UpMsg /\ s[i][2] \in Nat
    BY ElementOfSeq, LenProperties, UpMsgIs
  <2> QED BY <2>1 DEF Has, UpTo
<1>5. /\ \A a \in Builds, k \in {2, 3} : c = Lifecycle(a)[k] => a = b /\ k = 2
      /\ \A a \in Builds, k \in {2, 3} : d = Lifecycle(a)[k] => a = b /\ k = 3
  BY <1>1, LifecycleIs
<1>6. Precedes(c, d) /\ Precedes(Lifecycle(b)[1], c) /\ Precedes(Lifecycle(b)[1], d)
  <2>1. 1 \in 1..3 /\ 2 \in 1..3 /\ 3 \in 1..3 /\ 1 < 2 /\ 2 < 3 /\ 1 < 3
    OBVIOUS
  <2> QED BY <2>1, LifecyclePrecedes
<1>7. ASSUME NEW m, Has(s, m), m[2] # 0
      PROVE  Precedes(m, c) /\ Precedes(m, d)
  <2>1. CASE m[2] < b
    BY <2>1, <1>1 DEF Precedes
  <2>2. CASE m[2] = b
    <3>1. PICK k \in 1..3 : m = Lifecycle(b)[k]
      BY <2>2, <1>4, <1>7, UpMsgIs
    <3>2. k = 1 \/ k = 2 \/ k = 3
      OBVIOUS
    <3>3. m = Lifecycle(b)[1]
      BY <3>1, <3>2, <1>7
    <3> QED BY <3>3, <1>6
  <2> QED BY <2>1, <2>2, <1>1, <1>4, <1>7
<1> HIDE DEF t
<1>8. InOrder(t)
  <2>1. \A a \in Builds, k \in {2, 3} :
          c = Lifecycle(a)[k] => Has(s, Lifecycle(a)[k - 1])
    <3>1. 2 - 1 = 1
      OBVIOUS
    <3> QED BY <3>1, <1>5
  <2>2. \A m : Has(s, m) /\ m[2] # 0 => Precedes(m, c)
    BY <1>7
  <2> HIDE DEF c
  <2> QED BY <2>1, <2>2, <1>1, InOrderExtends DEF t
<1>9. InOrder(u)
  <2>1. \A a \in Builds, k \in {2, 3} :
          d = Lifecycle(a)[k] => Has(t, Lifecycle(a)[k - 1])
    <3>1. 3 - 1 = 2
      OBVIOUS
    <3> QED BY <3>1, <1>3, <1>5
  <2>2. \A m : Has(t, m) /\ m[2] # 0 => Precedes(m, d)
    BY <1>3, <1>6, <1>7
  <2> HIDE DEF d
  <2> QED BY <2>1, <2>2, <1>1, <1>2, <1>8, InOrderExtends
<1>10. UpTo(u, b)
  <2>1. \A m : Has(u, m) => m[2] <= b
    BY <1>1, <1>3, <1>4
  <2> HIDE DEF u
  <2> QED BY <2>1, UpToHas
<1> QED BY <1>9, <1>10 DEF t

LEMMA InitReports == Init => ReportsSound
<1> SUFFICES ASSUME Init
             PROVE  ReportsSound
  OBVIOUS
<1>1. received = <<>> /\ link = "reset" /\ at = "dial"
  BY DEF Init
<1>2. DOMAIN received = {}
  BY <1>1
<1> QED BY <1>1, <1>2 DEF ReportsSound, InOrder, UpTo

LEMMA ReportsStep ==
  ASSUME LoopRuns, LoopRuns', BuildsRise, ReportsSound, [Next]_vars
  PROVE  ReportsSound'
<1>1. /\ received \in Seq(UpMsg) /\ sendQ \in Seq(UpMsg) /\ todo \in Seq(UpMsg)
      /\ Outgoing \in Seq(UpMsg) /\ build \in Nat /\ (at = "build" => build \in Builds)
  BY QueuesTyped
<1>3. CASE UNCHANGED <<received, sendQ, todo, link, build, at>>
  BY <1>3 DEF ReportsSound, BuildAnnounced, Outgoing
<1>4. CASE Connect
  <2>1. /\ received' = received /\ build' = build /\ link' = "up" /\ at' = "select"
        /\ Outgoing' = Append(received, Join) /\ Join \in UpMsg /\ Join[2] = 0
    BY <1>4, LoopAppends, ReportsAreUpMsgs DEF Connect
  <2>2. InOrder(Outgoing')
    BY <1>1, <2>1, InOrderExtends DEF ReportsSound
  <2>3. UpTo(Outgoing', build')
    <3>1. \A m : Has(Outgoing', m) => Has(received, m) \/ Join = m
      BY <1>1, <2>1, HasAppend
    <3>2. \A m : Has(received, m) => m[2] <= build
      BY UpToHas DEF ReportsSound
    <3>3. \A m : Has(Outgoing', m) => m[2] <= build
      BY <1>1, <2>1, <3>1, <3>2
    <3> QED BY <2>1, <3>3, UpToHas
  <2> QED BY <2>1, <2>2, <2>3 DEF ReportsSound
<1>5. CASE Send
  <2>1. Outgoing' = Outgoing /\ UNCHANGED <<received, link, build, at>>
    BY <1>5, SendMoves DEF Send, netVars
  <2> QED BY <2>1 DEF ReportsSound, BuildAnnounced
<1>6. CASE SendPing
  <2>1. /\ UNCHANGED <<received, link, build, at>> /\ at = "select"
        /\ Outgoing' = Append(Outgoing, Ping) /\ Ping \in UpMsg /\ Ping[2] = 0
    BY <1>6, LoopAppends, ReportsAreUpMsgs DEF SendPing, AtSelect, netVars
  <2>2. ASSUME link = "up"
        PROVE  InOrder(Outgoing') /\ UpTo(Outgoing', build')
    <3>1. InOrder(Outgoing) /\ UpTo(Outgoing, build)
      BY <2>2 DEF ReportsSound
    <3>2. InOrder(Outgoing')
      BY <1>1, <2>1, <3>1, InOrderExtends
    <3>3. \A m : Has(Outgoing', m) => Has(Outgoing, m) \/ Ping = m
      BY <1>1, <2>1, HasAppend
    <3>4. \A m : Has(Outgoing, m) => m[2] <= build
      BY <3>1, UpToHas
    <3>5. \A m : Has(Outgoing', m) => m[2] <= build
      BY <1>1, <2>1, <3>3, <3>4
    <3> QED BY <2>1, <3>2, <3>5, UpToHas
  <2> QED BY <2>1, <2>2 DEF ReportsSound
<1>7. CASE StartBuild
  <2>1. /\ UNCHANGED <<received, link>> /\ at' = "build" /\ build' \in Builds
        /\ Outgoing' = Append(Outgoing, Lifecycle(build')[1])
    BY <1>7, LoopAppends DEF StartBuild, netVars
  <2>2. build < build' /\ build' \in Nat
    <3>1. /\ recvQ \in Seq(Down) /\ recvQ # <<>> /\ build' = Head(recvQ)
          /\ Head(recvQ) # Notice
      BY <1>7 DEF StartBuild, LoopRuns, TypeOK, Down
    <3>2. build' \in BuildsIn(recvQ)
      BY <3>1, RisingTail
    <3> QED BY <2>1, <3>2, DownAreNat DEF BuildsRise, AllLess
  <2>3. UpTo(received, build')
    <3>1. \A m : Has(received, m) => m \in UpMsg
      BY <1>1, ElementOfSeq, LenProperties DEF Has
    <3>2. \A m : Has(received, m) => m[2] \in Nat /\ m[2] <= build
      BY <3>1, UpMsgIs, UpToHas DEF ReportsSound
    <3>3. \A m : Has(received, m) => m[2] <= build'
      BY <1>1, <2>2, <3>2
    <3> QED BY <3>3, UpToHas
  <2>4. ASSUME link = "up"
        PROVE  InOrder(Outgoing') /\ UpTo(Outgoing', build') /\ BuildAnnounced'
    <3>1. InOrder(Outgoing) /\ UpTo(Outgoing, build)
      BY <2>4 DEF ReportsSound
    <3> QED BY <1>1, <2>1, <2>2, <3>1, AnnounceInOrder DEF BuildAnnounced
  <2> QED BY <2>1, <2>3, <2>4 DEF ReportsSound
<1>8. CASE FinishBuild
  <2>1. /\ UNCHANGED <<received, link, build>> /\ at' = "select" /\ build \in Builds
        /\ Outgoing' = Append(Append(Outgoing, Lifecycle(build)[2]), Lifecycle(build)[3])
    BY <1>1, <1>8, LoopAppends DEF FinishBuild, netVars
  <2>2. ASSUME link = "up"
        PROVE  InOrder(Outgoing') /\ UpTo(Outgoing', build')
    <3>1. InOrder(Outgoing) /\ UpTo(Outgoing, build) /\ BuildAnnounced
      BY <1>8, <2>2 DEF ReportsSound, FinishBuild
    <3> QED BY <1>1, <2>1, <3>1, CompleteInOrder DEF BuildAnnounced
  <2> QED BY <2>1, <2>2 DEF ReportsSound
<1>9. CASE LoseConnection \/ StopLoop
  <2>1. UNCHANGED <<received, build>> /\ link' = "reset" /\ at' # "build"
    BY <1>9 DEF LoseConnection, StopLoop, Close
  <2> QED BY <2>1 DEF ReportsSound
<1>10. CASE Write /\ link = "up"
  <2>1. /\ UNCHANGED <<link, build, at>> /\ InOrder(Outgoing) /\ UpTo(Outgoing, build)
        /\ (at = "build" => BuildAnnounced)
    BY <1>10 DEF Write, loopVars, ReportsSound
  <2>2. CASE Head(sendQ)[2] # 0
    <3>1. /\ received' = Append(received, Head(sendQ)) /\ Outgoing' = Outgoing
          /\ Head(sendQ) \in UpMsg
      BY <1>10, <2>2, WriteMoves
    <3>2. InOrder(received')
      <4>1. (InOrder(Outgoing) => InOrder(received))'
        <5>1. /\ received' \in Seq(UpMsg) /\ sendQ' \in Seq(UpMsg) /\ todo' \in Seq(UpMsg)
          BY DEF LoopRuns, TypeOK
        <5>2. InOrder((received' \o sendQ') \o todo') => InOrder(received')
          BY <5>1, InOrderPrefix
        <5> QED BY <5>2 DEF Outgoing
      <4> QED BY <2>1, <3>1, <4>1
    <3>3. UpTo(received', build')
      <4>1. \A m : Has(received', m) => Has(Outgoing', m)
        <5>1. /\ received' \in Seq(UpMsg) /\ sendQ' \in Seq(UpMsg) /\ todo' \in Seq(UpMsg)
          BY DEF LoopRuns, TypeOK
        <5>2. \A m : Has(received', m) => Has((received' \o sendQ') \o todo', m)
          BY <5>1, HasJoined
        <5> QED BY <5>2 DEF Outgoing
      <4> QED BY <2>1, <3>1, <4>1, FewerUpTo
    <3>4. \A i \in DOMAIN received' : received'[i][2] # 0
      <4>1. \A m : Has(received', m) => Has(received, m) \/ Head(sendQ) = m
        BY <1>1, <3>1, HasAppend
      <4>2. \A m : Has(received, m) => m[2] # 0
        BY DEF ReportsSound, Has
      <4>3. \A m : Has(received', m) => m[2] # 0
        BY <2>2, <4>1, <4>2
      <4> QED BY <4>3 DEF Has
    <3> QED BY <2>1, <3>1, <3>2, <3>3, <3>4 DEF ReportsSound, BuildAnnounced
  <2>3. CASE Head(sendQ)[2] = 0
    <3>1. /\ received' = received /\ InOrder(Outgoing')
          /\ \A m : Has(Outgoing', m) => Has(Outgoing, m)
          /\ \A m : m[2] # 0 /\ Has(Outgoing, m) => Has(Outgoing', m)
      BY <1>10, <2>1, <2>3, WriteMoves, PingWritten
    <3>2. UpTo(Outgoing', build')
      BY <2>1, <3>1, FewerUpTo
    <3>3. at = "build" => BuildAnnounced'
      <4>1. 1 \in 1..3
        OBVIOUS
      <4>2. at = "build" => Lifecycle(build)[1][2] # 0
        BY <1>1, <4>1, LifecycleIs, DownAreNat
      <4>3. build' = build
        BY <2>1
      <4> QED BY <2>1, <3>1, <4>2, <4>3 DEF BuildAnnounced
    <3> QED BY <2>1, <3>1, <3>2, <3>3 DEF ReportsSound
  <2> QED BY <2>2, <2>3
<1>11. CASE (Write /\ link # "up") \/ WriteFails
  <2>1. UNCHANGED <<received, link, build, at>> /\ link # "up"
    BY <1>11 DEF Write, WriteFails, loopVars, netVars
  <2> QED BY <2>1 DEF ReportsSound
<1>12. CASE Break \/ NoticeReset
  <2>1. UNCHANGED <<received, build, at>> /\ link' # "up"
    BY <1>12 DEF Break, NoticeReset, loopVars
  <2> QED BY <2>1 DEF ReportsSound
<1> QED
  BY <1>3, <1>4, <1>5, <1>6, <1>7, <1>8, <1>9, <1>10, <1>11, <1>12, OutgoingWriters

-----------------------------------------------------------------------------
(* Nothing is lost as long as no connection is.                            *)

LEMMA InitLost == Init => NothingLost
BY DEF Init, NothingLost, NotYetConnected

LEMMA LossesCounted ==
  ASSUME LoopRuns, [Next]_vars
  PROVE  /\ breaks' = 0 /\ stalls' = 0 => breaks = 0 /\ stalls = 0
         /\ UNCHANGED breaks \/ Break
         /\ UNCHANGED stalls \/ ReadDeadlinePasses
         /\ Break \/ ReadDeadlinePasses => ~ (breaks' = 0 /\ stalls' = 0)
<1>1. UNCHANGED breaks \/ Break
  <2>1. CASE LoopStep
    BY <2>1 DEF LoopStep, Connect, Send, ReadNotice, StartBuild, FinishBuild, LoseConnection, Close,
                counters
  <2>2. CASE ReaderStep \/ WriterStep
    BY <2>2 DEF ReaderStep, Read, Deliver, ReaderStops, ReadFails, WriterStep, Write, WriteFails,
                WriterStops, counters
  <2>3. CASE Tick \/ SendPing \/ StopLoop \/ ReadDeadlinePasses \/ SendBuild \/ SendNotice
             \/ NoticeReset \/ CancelContext
    BY <2>3 DEF Tick, SendPing, StopLoop, Close, ReadDeadlinePasses, SendBuild, SendNotice,
                NoticeReset, CancelContext, counters
  <2>4. CASE UNCHANGED vars
    BY <2>4 DEF vars, counters
  <2> QED BY <2>1, <2>2, <2>3, <2>4 DEF Next
<1>2. UNCHANGED stalls \/ ReadDeadlinePasses
  <2>1. CASE LoopStep
    BY <2>1 DEF LoopStep, Connect, Send, ReadNotice, StartBuild, FinishBuild, LoseConnection, Close,
                counters
  <2>2. CASE ReaderStep \/ WriterStep
    BY <2>2 DEF ReaderStep, Read, Deliver, ReaderStops, ReadFails, WriterStep, Write, WriteFails,
                WriterStops, counters
  <2>3. CASE Tick \/ SendPing \/ StopLoop \/ Break \/ SendBuild \/ SendNotice
             \/ NoticeReset \/ CancelContext
    BY <2>3 DEF Tick, SendPing, StopLoop, Close, Break, SendBuild, SendNotice,
                NoticeReset, CancelContext, counters
  <2>4. CASE UNCHANGED vars
    BY <2>4 DEF vars, counters
  <2> QED BY <2>1, <2>2, <2>3, <2>4 DEF Next
<1>3. breaks \in Nat /\ stalls \in Nat
  BY BoundAssumption DEF LoopRuns, TypeOK
<1>4. Break => breaks' = breaks + 1
  BY DEF Break
<1>5. ReadDeadlinePasses => stalls' = stalls + 1
  BY DEF ReadDeadlinePasses
<1> QED BY <1>1, <1>2, <1>3, <1>4, <1>5

\* What happens before the first connection, and after the last.
LEMMA UnconnectedStep ==
  ASSUME [Next]_vars, NotYetConnected \/ Left
  PROVE  \/ (NotYetConnected \/ Left)'
         \/ Connect /\ NotYetConnected
<1> USE DEF NotYetConnected, Left
<1>1. CASE LoopStep
  BY <1>1 DEF LoopStep, Connect, Send, ReadNotice, StartBuild, FinishBuild, LoseConnection,
              AtSelect, loopVars, netVars, counters
<1>2. CASE ReaderStep \/ WriterStep
  BY <1>2 DEF ReaderStep, Read, Deliver, ReaderStops, ReadFails, WriterStep, Write, WriteFails,
              WriterStops, loopVars, netVars, counters
<1>3. CASE Tick \/ SendPing \/ StopLoop
  BY <1>3 DEF Tick, SendPing, StopLoop, Close, netVars, counters
<1>4. CASE ReadDeadlinePasses \/ SendBuild \/ SendNotice \/ Break \/ NoticeReset \/ CancelContext
  BY <1>4 DEF ReadDeadlinePasses, SendBuild, SendNotice, Break, NoticeReset, CancelContext,
              loopVars, netVars, counters
<1>5. CASE UNCHANGED vars
  BY <1>5 DEF vars, loopVars, netVars, counters
<1> QED BY <1>1, <1>2, <1>3, <1>4, <1>5 DEF Next

\* A connection that is neither lost nor left goes on.
LEMMA ConnectedStep ==
  ASSUME [Next]_vars, Connected, ~ Break, ~ ReadDeadlinePasses, ~ StopLoop
  PROVE  /\ (at \in {"select", "build"})' /\ link' = "up" /\ ~ done'
         /\ (reader \in {"reading", "delivering"})' /\ writer' = "running"
         /\ ~ LoseConnection /\ ~ Connect /\ ~ ReaderStops /\ ~ ReadFails /\ ~ WriteFails
         /\ (at = "build" => FinishBuild \/ UNCHANGED <<at, build>>)
         /\ UNCHANGED sent \/ SendBuild
<1> USE DEF Connected
<1>1. CASE LoopStep
  BY <1>1 DEF LoopStep, Connect, Send, ReadNotice, StartBuild, FinishBuild, LoseConnection,
              ReaderStops, ReadFails, WriteFails,
              AtSelect, loopVars, pumpVars, netVars, counters
<1>2. CASE ReaderStep
  BY <1>2 DEF ReaderStep, Read, Deliver, ReaderStops, ReadFails, Connect, LoseConnection, WriteFails,
              loopVars, netVars, counters
<1>3. CASE WriterStep
  BY <1>3 DEF WriterStep, Write, WriteFails, WriterStops, Connect, LoseConnection, ReaderStops,
              ReadFails, loopVars, pumpVars, netVars, counters
<1>4. CASE Tick \/ SendPing \/ SendBuild \/ SendNotice \/ NoticeReset \/ CancelContext
  BY <1>4 DEF Tick, SendPing, SendBuild, SendNotice, NoticeReset, CancelContext, Connect,
              LoseConnection, ReaderStops, ReadFails, WriteFails, AtSelect, loopVars, pumpVars,
              netVars, counters
<1>5. CASE UNCHANGED vars
  BY <1>5 DEF vars, loopVars, pumpVars, netVars, counters, Connect, LoseConnection, ReaderStops,
              ReadFails, WriteFails
<1> QED BY <1>1, <1>2, <1>3, <1>4, <1>5 DEF Next

Incoming == BuildsIn(recvQ) \cup Held \cup BuildsIn(wire)

\* It delivers every build.
LEMMA IncomingStays ==
  ASSUME LoopRuns, [Next]_vars, Connected, ~ Break, ~ ReadDeadlinePasses, ~ StopLoop
  PROVE  /\ Incoming \subseteq Incoming' \/ StartBuild
         /\ StartBuild => Incoming \subseteq Incoming' \cup {build'} /\ at' = "build"
         /\ SendBuild => sent' = sent + 1 /\ sent + 1 \in Incoming'
<1>1. recvQ \in Seq(Down) /\ wire \in Seq(Down) /\ unread \in Down
  BY DEF LoopRuns, TypeOK, Down
<1>2. CASE UNCHANGED <<recvQ, wire, reader, unread, build, sent>>
  <2>1. ~ SendBuild
    BY <1>2, BoundAssumption DEF SendBuild, LoopRuns, TypeOK
  <2>2. ~ StartBuild
    <3>1. ASSUME recvQ # <<>>
          PROVE  Len(Tail(recvQ)) = Len(recvQ) - 1 /\ Len(recvQ) \in Nat
      BY <1>1, <3>1, TailOf
    <3> QED BY <1>2, <3>1 DEF StartBuild
  <2>3. Incoming' = Incoming
    BY <1>2 DEF Incoming, Held, Holds
  <2> QED BY <2>1, <2>2, <2>3
<1>3. CASE ReadNotice
  <2>1. /\ Held' = Held /\ wire' = wire /\ sent' = sent
        /\ BuildsIn(recvQ') = BuildsIn(recvQ)
    BY <1>1, <1>3, RisingTail DEF ReadNotice, Held, Holds, loopVars, pumpVars, netVars, counters
  <2>2. ~ SendBuild /\ ~ StartBuild
    BY <1>3, <2>1, BoundAssumption DEF SendBuild, StartBuild, ReadNotice, LoopRuns, TypeOK
  <2> QED BY <2>1, <2>2 DEF Incoming
<1>4. CASE StartBuild
  <2>1. /\ Held' = Held /\ wire' = wire /\ sent' = sent /\ build' = Head(recvQ) /\ at' = "build"
        /\ BuildsIn(recvQ) \subseteq BuildsIn(recvQ') \cup {build'}
    BY <1>1, <1>4, RisingTail DEF StartBuild, Held, Holds, pumpVars, netVars, counters
  <2>2. ~ SendBuild
    BY <2>1, BoundAssumption DEF SendBuild, LoopRuns, TypeOK
  <2> QED BY <1>4, <2>1, <2>2 DEF Incoming
<1>5. CASE Read
  <2>1. /\ Held \subseteq {} /\ Held' = {unread'} \ {Notice} /\ recvQ' = recvQ /\ sent' = sent
        /\ BuildsIn(wire) = BuildsIn(wire') \cup ({unread'} \ {Notice})
        /\ at' = at /\ at # "build" => at' # "build"
    BY <1>1, <1>5, RisingTail DEF Read, Held, Holds, loopVars, queues, counters
  <2>2. ~ SendBuild
    BY <2>1, BoundAssumption DEF SendBuild, LoopRuns, TypeOK
  <2>3. ~ StartBuild
    BY <1>5 DEF Read, StartBuild, pumpVars
  <2> QED BY <2>1, <2>2, <2>3 DEF Incoming
<1>6. CASE Deliver
  <2>1. /\ Held = {unread} \ {Notice} /\ wire' = wire /\ sent' = sent
        /\ BuildsIn(recvQ') = BuildsIn(recvQ) \cup ({unread} \ {Notice})
    BY <1>1, <1>6, RisingAppend DEF Deliver, Held, Holds, loopVars, netVars, counters
  <2>2. ~ SendBuild
    BY <2>1, BoundAssumption DEF SendBuild, LoopRuns, TypeOK
  <2>3. ~ StartBuild
    BY <1>6 DEF Deliver, StartBuild, AtSelect, loopVars
  <2> QED BY <2>1, <2>2, <2>3 DEF Incoming
<1>7. CASE SendBuild
  <2>1. /\ Held' = Held /\ recvQ' = recvQ /\ sent' = sent + 1 /\ wire' = Append(wire, sent + 1)
    BY <1>7 DEF SendBuild, Held, Holds, loopVars, pumpVars, queues
  <2>2. sent + 1 \in Down \ {Notice}
    BY <1>7, BoundAssumption DEF SendBuild, LoopRuns, TypeOK, Down, Builds, Notice
  <2>3. BuildsIn(wire') = BuildsIn(wire) \cup {sent + 1}
    BY <1>1, <2>1, <2>2, RisingAppend
  <2>4. ~ StartBuild
    BY <1>7 DEF SendBuild, StartBuild, AtSelect, loopVars
  <2> QED BY <2>1, <2>3, <2>4 DEF Incoming
<1>8. CASE SendNotice
  <2>1. /\ Held' = Held /\ recvQ' = recvQ /\ sent' = sent
        /\ BuildsIn(wire') = BuildsIn(wire) \cup ({Notice} \ {Notice})
    BY <1>1, <1>8, RisingAppend DEF SendNotice, Held, Holds, loopVars, pumpVars, queues, Down
  <2>2. ~ SendBuild
    BY <2>1, BoundAssumption DEF SendBuild, LoopRuns, TypeOK
  <2>3. ~ StartBuild
    BY <1>8 DEF SendNotice, StartBuild, AtSelect, loopVars
  <2> QED BY <2>1, <2>2, <2>3 DEF Incoming
<1>9. ~ LoseConnection /\ ~ Connect /\ ~ ReaderStops /\ ~ ReadFails
  BY ConnectedStep
<1> QED BY <1>2, <1>3, <1>4, <1>5, <1>6, <1>7, <1>8, <1>9, IncomingWriters

\* It keeps every report.
LEMMA OutgoingStays ==
  ASSUME LoopRuns, [Next]_vars, Connected, ~ Break, ~ ReadDeadlinePasses, ~ StopLoop
  PROVE  \A m : m[2] # 0 /\ Has(Outgoing, m) => Has(Outgoing', m)
<1>1. Outgoing \in Seq(UpMsg) /\ (at = "build" => build \in Builds)
  BY QueuesTyped
<1>2. CASE UNCHANGED <<received, sendQ, todo, link, build, at>> \/ Send
  <2>1. Outgoing' = Outgoing
    BY <1>2, SendMoves DEF Outgoing
  <2> QED BY <2>1
<1>3. CASE SendPing
  <2>1. PICK e \in UpMsg : Outgoing' = Append(Outgoing, e)
    BY <1>3, LoopAppends, ReportsAreUpMsgs
  <2> QED BY <1>1, <2>1, HasAppend
<1>4. CASE StartBuild
  <2>1. 1 \in 1..3
    OBVIOUS
  <2>2. PICK e \in UpMsg : Outgoing' = Append(Outgoing, e)
    BY <1>4, <2>1, LoopAppends, ReportsAreUpMsgs
  <2> QED BY <1>1, <2>2, HasAppend
<1>5. CASE FinishBuild
  <2>1. 2 \in 1..3 /\ 3 \in 1..3 /\ build \in Builds
    BY <1>1, <1>5 DEF FinishBuild
  <2>2. PICK c \in UpMsg, d \in UpMsg : Outgoing' = Append(Append(Outgoing, c), d)
    BY <1>5, <2>1, LoopAppends, ReportsAreUpMsgs
  <2>3. Append(Outgoing, c) \in Seq(UpMsg)
    BY <1>1, AppendProperties
  <2> QED BY <1>1, <2>2, <2>3, HasAppend
<1>6. CASE Write
  <2>1. link = "up"
    BY DEF Connected
  <2>2. CASE Head(sendQ)[2] # 0
    BY <1>6, <2>1, <2>2, WriteMoves
  <2>3. CASE Head(sendQ)[2] = 0
    BY <1>6, <2>1, <2>3, PingWritten
  <2> QED BY <2>2, <2>3
<1>7. ~ LoseConnection /\ ~ Connect /\ ~ WriteFails /\ ~ NoticeReset
  BY ConnectedStep DEF Connected, NoticeReset
<1> QED BY <1>2, <1>3, <1>4, <1>5, <1>6, <1>7, OutgoingWriters

LEMMA LostStep ==
  ASSUME LoopRuns, ReportsSound, NothingLost, [Next]_vars
  PROVE  NothingLost'
<1> SUFFICES ASSUME breaks' = 0, stalls' = 0
             PROVE  (NotYetConnected \/ Left \/ Connected)'
  BY DEF NothingLost
<1>1. breaks = 0 /\ stalls = 0 /\ ~ Break /\ ~ ReadDeadlinePasses
  BY LossesCounted
<1>2. CASE NotYetConnected \/ Left
  <2>1. ASSUME Connect, NotYetConnected
        PROVE  Connected'
    BY <2>1 DEF Connect, NotYetConnected, Connected, counters
  <2> QED BY <1>2, <2>1, UnconnectedStep
<1>3. CASE Connected /\ StopLoop
  BY <1>3 DEF StopLoop, Close, Left
<1>4. CASE Connected /\ ~ StopLoop
  <2>1. /\ (at \in {"select", "build"})' /\ link' = "up" /\ ~ done'
        /\ (reader \in {"reading", "delivering"})' /\ writer' = "running"
        /\ (at = "build" => FinishBuild \/ UNCHANGED <<at, build>>)
        /\ UNCHANGED sent \/ SendBuild
    BY <1>1, <1>4, ConnectedStep
  <2>2. /\ Incoming \subseteq Incoming' \/ StartBuild
        /\ StartBuild => Incoming \subseteq Incoming' \cup {build'} /\ at' = "build"
        /\ SendBuild => sent' = sent + 1 /\ sent + 1 \in Incoming'
    BY <1>1, <1>4, IncomingStays
  <2>3. \A m : m[2] # 0 /\ Has(Outgoing, m) => Has(Outgoing', m)
    BY <1>1, <1>4, OutgoingStays
  <2>4. ASSUME NEW b \in 1..sent'
        PROVE  OnItsWay(b)'
    <3>1. sent \in Nat
      BY BoundAssumption DEF LoopRuns, TypeOK
    <3>2. CASE b \in 1..sent
      <4>1. OnItsWay(b)
        BY <1>4, <3>2 DEF Connected
      <4>2. CASE b \in Incoming
        BY <2>2, <4>2 DEF OnItsWay, Incoming
      <4>3. CASE at = "build" /\ build = b
        <5>1. CASE UNCHANGED <<at, build>>
          BY <4>3, <5>1 DEF OnItsWay
        <5>2. CASE FinishBuild
          <6>1. /\ Outgoing \in Seq(UpMsg) /\ b \in Builds
            BY <4>3, QueuesTyped
          <6>2. Has(Outgoing, Lifecycle(b)[1])
            BY <1>4, <4>3 DEF ReportsSound, Connected, BuildAnnounced
          <6> DEFINE c == Lifecycle(b)[2]
                     d == Lifecycle(b)[3]
          <6>3. c \in UpMsg /\ d \in UpMsg /\ Lifecycle(b)[1][2] # 0
            <7>1. 1 \in 1..3 /\ 2 \in 1..3 /\ 3 \in 1..3
              OBVIOUS
            <7> QED BY <6>1, <7>1, ReportsAreUpMsgs, LifecycleIs, DownAreNat
          <6>4. Outgoing' = Append(Append(Outgoing, c), d)
            BY <4>3, <5>2, LoopAppends
          <6>5. Has(Outgoing', c) /\ Has(Outgoing', d)
            <7> HIDE DEF c, d
            <7>1. Append(Outgoing, c) \in Seq(UpMsg)
              BY <6>1, <6>3, AppendProperties
            <7>2. Has(Append(Outgoing, c), c)
              BY <6>1, <6>3, HasAppend
            <7> QED BY <6>3, <6>4, <7>1, <7>2, HasAppend
          <6>6. Has(Outgoing', Lifecycle(b)[1])
            BY <2>3, <6>2, <6>3
          <6>7. \A n \in 1..3 : n = 1 \/ n = 2 \/ n = 3
            OBVIOUS
          <6>8. \A n \in 1..3 : Has(Outgoing', Lifecycle(b)[n])
            BY <6>5, <6>6, <6>7
          <6> QED BY <6>8 DEF OnItsWay, AllReported
        <5> QED BY <2>1, <4>3, <5>1, <5>2
      <4>4. CASE AllReported(b)
        <5>1. b # 0
          BY <3>2
        <5>2. \A n \in 1..3 : Lifecycle(b)[n][2] # 0
          BY <5>1, LifecycleIs
        <5>3. \A n \in 1..3 : Has(Outgoing', Lifecycle(b)[n])
          BY <2>3, <4>4, <5>2 DEF AllReported
        <5> QED BY <5>3 DEF OnItsWay, AllReported
      <4> QED BY <4>1, <4>2, <4>3, <4>4 DEF OnItsWay, Incoming
    <3>3. CASE b \notin 1..sent
      <4>1. SendBuild /\ b = sent + 1
        BY <2>1, <2>2, <3>1, <3>3
      <4> QED BY <2>2, <4>1 DEF OnItsWay, Incoming
    <3> QED BY <3>2, <3>3
  <2> QED BY <2>1, <2>4 DEF Connected
<1> QED BY <1>1, <1>2, <1>3, <1>4 DEF NothingLost

-----------------------------------------------------------------------------
(* The theorems.                                                           *)

AllSound == LoopRuns /\ BuildsRise /\ ReportsSound /\ NothingLost

LEMMA SoundThroughout == Spec => []AllSound
<1>1. Init => AllSound
  BY InitType, InitRise, InitReports, InitLost DEF AllSound
<1>2. AllSound /\ [Next]_vars => AllSound'
  <2> SUFFICES ASSUME AllSound, [Next]_vars
               PROVE  AllSound'
    OBVIOUS
  <2>1. LoopRuns'
    BY TypeStep DEF AllSound
  <2>2. BuildsRise' /\ ReportsSound' /\ NothingLost'
    BY <2>1, RiseStep, ReportsStep, LostStep DEF AllSound
  <2> QED BY <2>1, <2>2 DEF AllSound
<1> QED BY <1>1, <1>2, PTL DEF Spec

(***************************************************************************)
(* Every state is well typed, and no channel holds more than it can, for   *)
(* all capacities.                                                         *)
(***************************************************************************)
THEOREM ConnectionTypeCorrect == Spec => []TypeOK
<1>1. AllSound => TypeOK
  BY DEF AllSound, LoopRuns
<1> QED BY <1>1, SoundThroughout, PTL

(***************************************************************************)
(* However many connections are lost, and whatever with them, the server   *)
(* receives the reports of a build without a gap, one build after the      *)
(* other.                                                                  *)
(***************************************************************************)
THEOREM ReportsArriveInOrder == Spec => []ReportsInOrder
<1>1. AllSound => ReportsInOrder
  BY DEF AllSound, ReportsSound, InOrder, ReportsInOrder
<1> QED BY <1>1, SoundThroughout, PTL

(***************************************************************************)
(* While no connection is lost and no read deadline passes, an agent that  *)
(* has nothing more to do has reported all builds to their ends, for every *)
(* number of builds and all capacities.                                    *)
(***************************************************************************)
THEOREM ReportsArrive == Spec => []NoReportLost
<1>1. AllSound => NoReportLost
  <2> SUFFICES ASSUME AllSound, AtRest, breaks = 0, stalls = 0,
                      NEW b \in 1..sent, NEW n \in 1..3
               PROVE  Has(received, Lifecycle(b)[n])
    BY DEF NoReportLost, Has
  <2>1. Connected
    BY DEF AllSound, NothingLost, AtRest, AtSelect, NotYetConnected, Left
  <2>2. at = "select" /\ todo = <<>> /\ sendQ = <<>>
    BY DEF AtRest, AtSelect
  <2>3. BuildsIn(recvQ) \cup Held \cup BuildsIn(wire) = {}
    BY NoBuilds DEF AtRest, Held, Holds
  <2>4. AllReported(b)
    BY <2>1, <2>2, <2>3 DEF Connected, OnItsWay
  <2>5. Has(Outgoing, Lifecycle(b)[n])
    BY <2>4 DEF AllReported
  <2>6. Outgoing = received
    <3>1. received \in Seq(UpMsg) /\ received \o <<>> = received
      BY QueuesTyped, ConcatEmptySeq DEF AllSound
    <3> QED BY <2>2, <3>1 DEF Outgoing
  <2> QED BY <2>5, <2>6
<1> QED BY <1>1, SoundThroughout, PTL
=============================================================================
