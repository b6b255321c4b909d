----------------------------- MODULE SetupProofs -----------------------------
(***************************************************************************)
(* Proofs about SetupThreads for any number of threads, any circuits and   *)
(* any windows.                                                            *)
(***************************************************************************)
EXTENDS SetupInvariant, FiniteSetTheorems, SequenceTheorems, WellFoundedInduction, TLAPS

\* < on the natural numbers, as a set of pairs.
NatLess == {ss \in Nat \X Nat : ss[1] < ss[2]}

LEMMA LeastNat ==
    ASSUME NEW T, T \subseteq Nat, T # {}
    PROVE  \E x \in T : \A y \in T : x <= y
<1>1. NatLess = OpToRel(<, Nat)
  BY DEF OpToRel, NatLess
<1>2. PICK x \in T : \A y \in T : ~ (<<y, x>> \in NatLess)
  BY <1>1, NatLessThanWellFounded, WFMin
<1>3. ASSUME NEW y \in T PROVE x <= y
  <2>1. <<y, x>> \in Nat \X Nat /\ <<y, x>>[1] = y /\ <<y, x>>[2] = x
    OBVIOUS
  <2> QED BY <1>2, <2>1 DEF NatLess
<1> QED BY <1>3

(***************************************************************************)
(* Lists of calls.                                                         *)
(***************************************************************************)

\* A list of calls that may be made in this order.
Chain(list) ==
    /\ list \in Seq(Call)
    /\ \A k \in 1 .. Len(list) - 1 : MayFollow(list[k], list[k+1])

\* A rest of a circuit's calls that may follow a job, with no OT extension and
\* no homomorphic triples in it.
Rest(list) ==
    /\ Chain(list)
    /\ list # <<>>
    /\ list[1].op \in {"wait", "garble"}
    /\ list[Len(list)].op = "online"
    /\ \A k \in 1 .. Len(list) : ~ IsMT(list[k])

LEMMA PrependCall ==
    ASSUME NEW c \in Call, NEW list, Chain(list), list # <<>>, MayFollow(c, list[1])
    PROVE  /\ Chain(<<c>> \o list)
           /\ <<c>> \o list # <<>>
           /\ (<<c>> \o list)[1] = c
           /\ Last(<<c>> \o list) = Last(list)
           /\ (\A k \in 1 .. Len(list) : ~ IsMT(list[k])) /\ ~ IsMT(c) =>
                \A k \in 1 .. Len(<<c>> \o list) : ~ IsMT((<<c>> \o list)[k])
<1> DEFINE new == <<c>> \o list
<1>1. list \in Seq(Call) /\ <<c>> \in Seq(Call) /\ Len(<<c>>) = 1 /\ <<c>>[1] = c
  BY DEF Chain
<1>2. new \in Seq(Call) /\ Len(new) = Len(list) + 1
      /\ \A k \in 1 .. Len(list) + 1 : new[k] = IF k <= 1 THEN <<c>>[k] ELSE list[k-1]
  BY <1>1, ConcatProperties
<1>3. Len(list) \in Nat \ {0}
  BY <1>1
<1> HIDE DEF new
<1>4. new[1] = c /\ \A k \in 1 .. Len(list) : new[k+1] = list[k]
  BY <1>1, <1>2, <1>3
<1>5. ASSUME NEW k \in 1 .. Len(new) - 1 PROVE MayFollow(new[k], new[k+1])
  <2>1. CASE k = 1
    <3>1. new[k] = c /\ new[k+1] = list[1]
      BY <1>3, <1>4, <2>1
    <3> QED BY <3>1
  <2>2. CASE k # 1
    <3>1. PICK l \in 1 .. Len(list) - 1 : k = l + 1
      BY <1>2, <1>3, <2>2
    <3>2. new[k] = list[l] /\ new[k+1] = list[l+1]
      BY <1>3, <1>4, <3>1
    <3> QED BY <3>2 DEF Chain
  <2> QED BY <2>1, <2>2
<1>6. Last(new) = Last(list)
  BY <1>2, <1>3, <1>4 DEF Last
<1>7. ASSUME \A k \in 1 .. Len(list) : ~ IsMT(list[k]), ~ IsMT(c), NEW k \in 1 .. Len(new)
      PROVE  ~ IsMT(new[k])
  <2>1. CASE k = 1
    BY <1>4, <1>7, <2>1
  <2>2. CASE k # 1
    <3>1. PICK l \in 1 .. Len(list) : k = l + 1
      BY <1>2, <1>3, <2>2
    <3> QED BY <1>4, <1>7, <3>1
  <2> QED BY <2>1, <2>2
<1>8. new # <<>>
  BY <1>2, <1>3
<1>9. Chain(new)
  BY <1>2, <1>5 DEF Chain
<1> QED BY <1>4, <1>6, <1>7, <1>8, <1>9 DEF new

WaitCall == [op |-> "wait"]
WakeCall(e) == [op |-> "wake", job |-> e]

LEMMA CallKinds ==
    /\ WaitCall \in Call /\ [op |-> "online"] \in Call
    /\ [op |-> "sndkey"] \in Call /\ [op |-> "rcvkey"] \in Call
    /\ \A e \in Job : WakeCall(e) \in Call
    /\ \A d \in Bytes : [op |-> "sndtask", data |-> d] \in Call /\ [op |-> "rcvtask", data |-> d] \in Call
    /\ Garbling \subseteq Call
BY DEF Call, WaitCall, WakeCall

LEMMA ChainTail ==
    ASSUME NEW list, Chain(list), list # <<>>
    PROVE  /\ Chain(Tail(list))
           /\ Head(list) = list[1] /\ list[1] \in Call
           /\ Len(Tail(list)) = Len(list) - 1 /\ Len(list) \in Nat \ {0}
           /\ \A k \in 1 .. Len(Tail(list)) : Tail(list)[k] = list[k+1]
           /\ Tail(list) # <<>> => Last(Tail(list)) = Last(list) /\ MayFollow(list[1], Tail(list)[1])
<1>1. list \in Seq(Call)
  BY DEF Chain
<1>2. /\ Tail(list) \in Seq(Call) /\ Head(list) = list[1] /\ list[1] \in Call
      /\ Len(Tail(list)) = Len(list) - 1 /\ Len(list) \in Nat \ {0}
      /\ \A k \in 1 .. Len(Tail(list)) : Tail(list)[k] = list[k+1]
  BY <1>1
<1> DEFINE t == Tail(list)
<1>3. /\ t \in Seq(Call) /\ Len(t) = Len(list) - 1 /\ Len(list) \in Nat \ {0} /\ Len(t) \in Nat
      /\ \A k \in 1 .. Len(t) : t[k] = list[k+1]
  BY <1>2
<1> HIDE DEF t
<1>4. ASSUME NEW k \in 1 .. Len(t) - 1 PROVE MayFollow(t[k], t[k+1])
  <2>1. t[k] = list[k+1] /\ t[k+1] = list[(k+1)+1] /\ k+1 \in 1 .. Len(list) - 1
    BY <1>3
  <2> QED BY <2>1 DEF Chain
<1>5. ASSUME t # <<>> PROVE Last(t) = Last(list) /\ MayFollow(list[1], t[1])
  <2>1. Len(t) # 0
    BY <1>3, <1>5
  <2>2. t[1] = list[1+1] /\ 1 \in 1 .. Len(list) - 1 /\ t[Len(t)] = list[Len(list)]
    BY <1>3, <2>1
  <2> QED BY <2>2 DEF Last, Chain
<1> QED BY <1>2, <1>3, <1>4, <1>5 DEF Chain, t

SendCall(d) == [op |-> "sndtask", data |-> d]
ReceiveCall(d) == [op |-> "rcvtask", data |-> d]

LEMMA FourCalls ==
    ASSUME NEW S, NEW a \in S, NEW b \in S, NEW c \in S, NEW list \in Seq(S)
    PROVE  (<<a>> \o <<b>> \o <<c>>) \o list = <<a>> \o (<<b>> \o (<<c>> \o list))
<1>1. <<a>> \in Seq(S) /\ <<b>> \in Seq(S) /\ <<c>> \in Seq(S) /\ <<a>> \o <<b>> \in Seq(S)
      /\ <<c>> \o list \in Seq(S)
  OBVIOUS
<1>2. (<<a>> \o <<b>> \o <<c>>) \o list = (<<a>> \o <<b>>) \o (<<c>> \o list)
  BY <1>1, ConcatAssociative
<1>3. (<<a>> \o <<b>>) \o (<<c>> \o list) = <<a>> \o (<<b>> \o (<<c>> \o list))
  BY <1>1, ConcatAssociative
<1> QED BY <1>2, <1>3

LEMMA TaskCalls ==
    ASSUME NEW d \in Bytes, NEW list \in Seq(Call)
    PROVE  /\ AddSendTask(d) \o list = <<WaitCall>> \o (<<SendCall(d)>> \o (<<WakeCall("Send")>> \o list))
           /\ AddReceiveTask(d) \o list = <<WaitCall>> \o (<<ReceiveCall(d)>> \o (<<WakeCall("Receive")>> \o list))
<1>1. WaitCall \in Call /\ SendCall(d) \in Call /\ ReceiveCall(d) \in Call
      /\ WakeCall("Send") \in Call /\ WakeCall("Receive") \in Call
  BY CallKinds DEF SendCall, ReceiveCall, Job
<1>2. AddSendTask(d) = <<WaitCall>> \o <<SendCall(d)>> \o <<WakeCall("Send")>>
      /\ AddReceiveTask(d) = <<WaitCall>> \o <<ReceiveCall(d)>> \o <<WakeCall("Receive")>>
  BY DEF AddSendTask, AddReceiveTask, Wait, Wake, WaitCall, SendCall, ReceiveCall, WakeCall
<1> QED BY <1>1, <1>2, FourCalls

LEMMA AddTasks ==
    ASSUME NEW d \in Bytes
    PROVE  AddSendTask(d) \in Seq(Call) /\ AddReceiveTask(d) \in Seq(Call)
<1>1. WaitCall \in Call /\ SendCall(d) \in Call /\ ReceiveCall(d) \in Call
      /\ WakeCall("Send") \in Call /\ WakeCall("Receive") \in Call
  BY CallKinds DEF SendCall, ReceiveCall, Job
<1>2. AddSendTask(d) = <<WaitCall>> \o <<SendCall(d)>> \o <<WakeCall("Send")>>
      /\ AddReceiveTask(d) = <<WaitCall>> \o <<ReceiveCall(d)>> \o <<WakeCall("Receive")>>
  BY DEF AddSendTask, AddReceiveTask, Wait, Wake, WaitCall, SendCall, ReceiveCall, WakeCall
<1> QED BY <1>1, <1>2

\* A task may be added in front of what may follow a job.
LEMMA RestTask ==
    ASSUME NEW d \in Bytes, NEW list, Rest(list)
    PROVE  Rest(AddSendTask(d) \o list) /\ Rest(AddReceiveTask(d) \o list)
<1>1. Chain(list) /\ list # <<>> /\ list[1].op \in {"wait", "garble"} /\ Last(list).op = "online"
      /\ (\A k \in 1 .. Len(list) : ~ IsMT(list[k])) /\ list \in Seq(Call)
  BY DEF Rest, Last, Chain
<1>2. ASSUME NEW e \in {"Send", "Receive"},
             NEW c \in {SendCall(d), ReceiveCall(d)},
             e = "Send" <=> c = SendCall(d)
      PROVE  Rest(<<WaitCall>> \o (<<c>> \o (<<WakeCall(e)>> \o list)))
  <2> DEFINE l1 == <<WakeCall(e)>> \o list
             l2 == <<c>> \o l1
             l3 == <<WaitCall>> \o l2
  <2>1. /\ WakeCall(e) \in Call /\ c \in Call /\ WaitCall \in Call
        /\ ~ IsMT(WakeCall(e)) /\ ~ IsMT(c) /\ ~ IsMT(WaitCall)
    <3>1. e \in Job /\ e \notin MTJob
      BY DEF Job, MTJob
    <3>2. WakeCall(e) \in Call /\ WaitCall \in Call
      BY <3>1, CallKinds
    <3>3. SendCall(d) \in Call /\ ReceiveCall(d) \in Call
      BY CallKinds DEF SendCall, ReceiveCall
    <3>4. c \in Call
      BY <3>3
    <3>5. ~ IsMT(WakeCall(e))
      BY <3>1 DEF IsMT, WakeCall
    <3>6. ~ IsMT(c) /\ ~ IsMT(WaitCall)
      BY DEF IsMT, WaitCall, SendCall, ReceiveCall
    <3> QED BY <3>2, <3>4, <3>5, <3>6
  <2>2. MayFollow(WakeCall(e), list[1])
    BY <1>1 DEF MayFollow, WakeCall, IsWake
  <2>3. MayFollow(c, WakeCall(e))
    <3>1. CASE e = "Send"
      BY <1>2, <3>1 DEF MayFollow, WakeCall, IsWake, SendCall
    <3>2. CASE e = "Receive"
      <4>1. c = ReceiveCall(d)
        BY <1>2, <3>2
      <4> QED BY <4>1, <3>2 DEF MayFollow, WakeCall, IsWake, ReceiveCall
    <3> QED BY <3>1, <3>2
  <2>4. MayFollow(WaitCall, c)
    BY DEF MayFollow, WaitCall, IsWake, SendCall, ReceiveCall
  <2>5. Chain(l1) /\ l1 # <<>> /\ l1[1] = WakeCall(e) /\ Last(l1).op = "online"
        /\ \A k \in 1 .. Len(l1) : ~ IsMT(l1[k])
    BY <1>1, <2>1, <2>2, PrependCall
  <2> HIDE DEF l1
  <2>6. Chain(l2) /\ l2 # <<>> /\ l2[1] = c /\ Last(l2).op = "online"
        /\ \A k \in 1 .. Len(l2) : ~ IsMT(l2[k])
    BY <2>1, <2>3, <2>5, PrependCall
  <2> HIDE DEF l2
  <2>7. Chain(l3) /\ l3 # <<>> /\ l3[1] = WaitCall /\ Last(l3).op = "online"
        /\ \A k \in 1 .. Len(l3) : ~ IsMT(l3[k])
    BY <2>1, <2>4, <2>6, PrependCall
  <2> HIDE DEF l3
  <2>8. Rest(l3)
    BY <2>7 DEF Rest, Last, WaitCall
  <2> QED BY <2>8 DEF l3, l2, l1
<1>3. SendCall(d) # ReceiveCall(d)
  BY DEF SendCall, ReceiveCall
<1> QED BY <1>1, <1>2, <1>3, TaskCalls

(***************************************************************************)
(* Tables and outputs, and how the garbler gets on with them.              *)
(***************************************************************************)

YaoSharing == {"S_YAO", "S_YAO_REV"}

LEMMA ListIs ==
    ASSUME NEW S, NEW n \in Nat, NEW f \in [1 .. n -> S]
    PROVE  f \in Seq(S) /\ Len(f) = n
<1>1. f \in Seq(S)
  BY SeqDef
<1> QED BY <1>1, LenProperties

LEMMA TablesAre ==
    ASSUME NEW y \in YaoSharing, NEW from \in Nat, NEW to \in Nat, from <= to
    PROVE  /\ Tables(y, from, to) \in Bytes
           /\ Len(Tables(y, from, to)) = to - from
           /\ \A k \in 1 .. to - from : Tables(y, from, to)[k] = <<y, "table", from + k>>
<1>1. to - from \in Nat
  OBVIOUS
<1>2. Tables(y, from, to) \in [1 .. to - from -> {"S_YAO", "S_YAO_REV", "key"} \X {"table", "univ", "output", "key"} \X Nat]
  BY DEF Tables, YaoSharing
<1> QED BY <1>1, <1>2, ListIs DEF Tables, Bytes

LEMMA OutputsAre ==
    ASSUME NEW y \in YaoSharing, NEW n \in Nat
    PROVE  Outputs(y, n) \in Bytes /\ Len(Outputs(y, n)) = n
<1>1. Outputs(y, n) \in [1 .. n -> {"S_YAO", "S_YAO_REV", "key"} \X {"table", "univ", "output", "key"} \X Nat]
  BY DEF Outputs, YaoSharing
<1> QED BY <1>1, ListIs DEF Bytes

LEMMA UnivTablesAre ==
    ASSUME NEW y \in YaoSharing, NEW n \in Nat
    PROVE  UnivTables(y, n) \in Bytes /\ Len(UnivTables(y, n)) = n
<1>1. UnivTables(y, n) \in [1 .. n -> {"S_YAO", "S_YAO_REV", "key"} \X {"table", "univ", "output", "key"} \X Nat]
  BY DEF UnivTables, YaoSharing
<1> QED BY <1>1, ListIs DEF Bytes

LEMMA KeyIs == Key \in Bytes
  BY DEF Key, Bytes

LEMMA NoBytes == <<>> \in Bytes
  BY DEF Bytes

LEMMA NumTablesIs ==
    ASSUME NEW need \in Need, Increasing(need)
    PROVE  /\ NumTables(need) \in Nat /\ Len(need.ands) \in Nat
           /\ DOMAIN need.ands = 1 .. Len(need.ands)
           /\ \A k \in 1 .. Len(need.ands) : need.ands[k] \in Nat /\ need.ands[k] <= NumTables(need)
           /\ Len(need.ands) = 0 <=> need.ands = <<>>
           /\ need.ands # <<>> => NumTables(need) > 0
           /\ need.ands = <<>> => NumTables(need) = 0
<1> DEFINE a == need.ands
<1>1. a \in Seq(Nat \ {0})
  BY DEF Need
<1>2. Len(a) \in Nat /\ DOMAIN a = 1 .. Len(a) /\ (Len(a) = 0 <=> a = <<>>)
  BY <1>1
<1>3. \A k \in 1 .. Len(a) : a[k] \in Nat /\ a[k] > 0
  BY <1>1
<1>4. \A k, l \in 1 .. Len(a) : k < l => a[k] < a[l]
  BY <1>2 DEF Increasing
<1>5. NumTables(need) = IF a = <<>> THEN 0 ELSE a[Len(a)]
  BY DEF NumTables
<1> HIDE DEF a
<1>6. CASE a = <<>>
  BY <1>2, <1>5, <1>6 DEF a
<1>7. CASE a # <<>>
  <2>1. Len(a) \in 1 .. Len(a) /\ NumTables(need) = a[Len(a)]
    BY <1>2, <1>5, <1>7
  <2>2. ASSUME NEW k \in 1 .. Len(a) PROVE a[k] <= NumTables(need)
    <3>1. k = Len(a) \/ k < Len(a)
      <4>1. \A n \in Nat : \A l \in 1 .. n : l = n \/ l < n
        OBVIOUS
      <4> QED BY <1>2, <4>1
    <3>2. a[k] \in Nat /\ a[Len(a)] \in Nat
      BY <1>3, <2>1
    <3> QED BY <1>4, <2>1, <3>1, <3>2
  <2> QED BY <1>2, <1>3, <1>7, <2>1, <2>2 DEF a
<1> QED BY <1>6, <1>7

LEMMA GarblingIs ==
    ASSUME NEW g \in Garbling
    PROVE  /\ g.op = "garble" /\ g.sharing \in YaoSharing /\ g.need \in Need /\ g.gate \in Nat /\ g.sent \in Nat
           /\ g.gate <= Len(g.need.ands) /\ g.sent <= NumTables(g.need) /\ Increasing(g.need)
           /\ \A k \in DOMAIN g.need.ands : k > g.gate => g.sent < g.need.ands[k]
BY DEF Garbling, YaoSharing

\* What is left to garble after the next gate, whether its tables are sent or not.
LEMMA NextGarbling ==
    ASSUME NEW g \in Garbling, g.gate < Len(g.need.ands)
    PROVE  LET ctr == g.need.ands[g.gate + 1]
           IN  /\ ctr \in Nat /\ g.sent < ctr /\ ctr <= NumTables(g.need)
               /\ GarbleFrom(g.sharing, g.need, g.gate + 1, ctr) \in Garbling
               /\ GarbleFrom(g.sharing, g.need, g.gate + 1, g.sent) \in Garbling
               /\ NextWindow(g, ctr) \in Bytes
<1> DEFINE a == g.need.ands
           n == g.gate + 1
           ctr == a[n]
<1>1. /\ g.op = "garble" /\ g.sharing \in YaoSharing /\ g.need \in Need /\ g.gate \in Nat /\ g.sent \in Nat
      /\ g.gate <= Len(a) /\ g.sent <= NumTables(g.need) /\ Increasing(g.need)
      /\ \A k \in DOMAIN a : k > g.gate => g.sent < a[k]
  BY GarblingIs
<1>2. /\ NumTables(g.need) \in Nat /\ Len(a) \in Nat /\ DOMAIN a = 1 .. Len(a)
      /\ \A k \in 1 .. Len(a) : a[k] \in Nat /\ a[k] <= NumTables(g.need)
  BY <1>1, NumTablesIs
<1>3. n \in 1 .. Len(a) /\ n > g.gate /\ n \in Nat /\ n <= Len(a)
  BY <1>1, <1>2
<1>4. ctr \in Nat /\ g.sent < ctr /\ ctr <= NumTables(g.need)
  BY <1>1, <1>2, <1>3
<1>5. ASSUME NEW k \in DOMAIN a, k > n PROVE g.sent < a[k] /\ ctr < a[k]
  <2>1. k \in 1 .. Len(a) /\ k > g.gate
    BY <1>1, <1>2, <1>3, <1>5
  <2> QED BY <1>1, <1>2, <1>3, <1>5, <2>1 DEF Increasing
<1>6. ASSUME NEW s \in {g.sent, ctr}, NEW h, h = GarbleFrom(g.sharing, g.need, n, s)
      PROVE  h \in Garbling
  <2>1. /\ h.op = "garble" /\ h.sharing = g.sharing /\ h.need = g.need /\ h.gate = n /\ h.sent = s
        /\ s \in Nat /\ s <= NumTables(g.need)
    BY <1>1, <1>4, <1>6 DEF GarbleFrom
  <2>2. h \in [op : {"garble"}, sharing : {"S_YAO", "S_YAO_REV"}, need : Need, gate : Nat, sent : Nat]
    BY <1>1, <1>3, <1>6, <2>1 DEF YaoSharing, GarbleFrom
  <2>3. \A k \in DOMAIN a : k > n => s < a[k]
    BY <1>5
  <2> HIDE DEF n, ctr
  <2> QED BY <1>1, <1>3, <2>1, <2>2, <2>3 DEF Garbling
<1>10. NextWindow(g, ctr) \in Bytes
  <2> HIDE DEF n, ctr
  <2>1. g.sent <= ctr
    BY <1>1, <1>4
  <2>2. Tables(g.sharing, g.sent, ctr) \in Bytes
    BY <1>1, <1>4, <2>1, TablesAre
  <2> QED BY <2>2 DEF NextWindow
<1> QED BY <1>4, <1>6, <1>10

LEMMA RestGarbling ==
    ASSUME NEW g \in Garbling, NEW list, Rest(list)
    PROVE  Rest(<<g>> \o list)
<1>1. g.op = "garble" /\ g \in Call
  BY GarblingIs, CallKinds
<1>2. Chain(list) /\ list # <<>> /\ list[1].op \in {"wait", "garble"} /\ Last(list).op = "online"
      /\ \A k \in 1 .. Len(list) : ~ IsMT(list[k])
  BY DEF Rest, Last
<1>3. MayFollow(g, list[1]) /\ ~ IsMT(g)
  BY <1>1, <1>2 DEF MayFollow, IsWake, IsMT
<1> DEFINE new == <<g>> \o list
<1>4. Chain(new) /\ new # <<>> /\ new[1] = g /\ Last(new) = Last(list) /\ \A k \in 1 .. Len(new) : ~ IsMT(new[k])
  BY <1>1, <1>2, <1>3, PrependCall
<1> HIDE DEF new
<1>5. Rest(new)
  BY <1>1, <1>2, <1>4 DEF Rest, Last
<1> QED BY <1>5 DEF new

\* The calls for what follows the tables.
LEMMA RestAfterTables ==
    ASSUME NEW y \in YaoSharing, NEW need \in Need, NEW list, Rest(list)
    PROVE  /\ SendUnivAndOutputs(y, need) \in Seq(Call) /\ Rest(SendUnivAndOutputs(y, need) \o list)
           /\ ReceiveUnivAndOutputs(y, need) \in Seq(Call) /\ Rest(ReceiveUnivAndOutputs(y, need) \o list)
<1> DEFINE u == UnivTables(y, need.univ)
           o == Outputs(y, need.outs)
           su == IF need.univ > 0 THEN AddSendTask(u) ELSE <<>>
           so == IF need.outs > 0 THEN AddSendTask(o) ELSE <<>>
           ru == IF need.univ > 0 THEN AddReceiveTask(u) ELSE <<>>
           ro == IF need.outs > 0 THEN AddReceiveTask(o) ELSE <<>>
<1>0. list \in Seq(Call)
  BY DEF Rest, Chain
<1>1. u \in Bytes /\ o \in Bytes
  <2>1. need.univ \in Nat /\ need.outs \in Nat
    BY DEF Need
  <2> QED BY <2>1, UnivTablesAre, OutputsAre
<1>2. SendUnivAndOutputs(y, need) = su \o so /\ ReceiveUnivAndOutputs(y, need) = ru \o ro
  BY DEF SendUnivAndOutputs, ReceiveUnivAndOutputs
<1> HIDE DEF u, o
<1>3. su \in Seq(Call) /\ so \in Seq(Call) /\ ru \in Seq(Call) /\ ro \in Seq(Call)
  BY <1>1, AddTasks
<1>4. Rest(so \o list) /\ Rest(ro \o list)
  BY <1>0, <1>1, RestTask, ConcatEmptySeq
<1>5. so \o list \in Seq(Call) /\ ro \o list \in Seq(Call)
  BY <1>0, <1>3
<1>6. Rest(su \o (so \o list)) /\ Rest(ru \o (ro \o list))
  <2> HIDE DEF so, ro
  <2> QED BY <1>1, <1>4, <1>5, RestTask, ConcatEmptySeq
<1> HIDE DEF su, so, ru, ro
<1>7. (su \o so) \o list = su \o (so \o list) /\ (ru \o ro) \o list = ru \o (ro \o list)
  <2>1. (su \o so) \o list = su \o (so \o list)
    BY <1>0, <1>3, ConcatAssociative
  <2>2. (ru \o ro) \o list = ru \o (ro \o list)
    BY <1>0, <1>3, ConcatAssociative
  <2> QED BY <2>1, <2>2
<1>8. su \o so \in Seq(Call) /\ ru \o ro \in Seq(Call)
  BY <1>3
<1> QED BY <1>2, <1>6, <1>7, <1>8

LEMMA RestGarble ==
    ASSUME NEW g \in Garbling, NEW list, Rest(list)
    PROVE  /\ g.gate < Len(g.need.ands) => Rest(EvaluateANDGate(g) \o list)
           /\ Rest(SendRest(g) \o list)
<1>0. list \in Seq(Call)
  BY DEF Rest, Chain
<1>1. ASSUME g.gate < Len(g.need.ands) PROVE Rest(EvaluateANDGate(g) \o list)
  <2> DEFINE ctr == g.need.ands[g.gate + 1]
             h == GarbleFrom(g.sharing, g.need, g.gate + 1, ctr)
             i == GarbleFrom(g.sharing, g.need, g.gate + 1, g.sent)
  <2>1. h \in Garbling /\ i \in Garbling /\ NextWindow(g, ctr) \in Bytes
    BY <1>1, NextGarbling
  <2>2. EvaluateANDGate(g) = IF ctr - g.sent >= Window THEN AddSendTask(NextWindow(g, ctr)) \o <<h>> ELSE <<i>>
    BY DEF EvaluateANDGate
  <2> HIDE DEF h, i, ctr
  <2>3. Rest(<<h>> \o list) /\ Rest(<<i>> \o list)
    BY <2>1, RestGarbling
  <2>4. Rest(AddSendTask(NextWindow(g, ctr)) \o (<<h>> \o list))
    BY <2>1, <2>3, RestTask
  <2>5. (AddSendTask(NextWindow(g, ctr)) \o <<h>>) \o list = AddSendTask(NextWindow(g, ctr)) \o (<<h>> \o list)
    <3>1. <<h>> \in Seq(Call)
      BY <2>1, CallKinds
    <3>2. AddSendTask(NextWindow(g, ctr)) \in Seq(Call)
      BY <2>1, AddTasks
    <3> QED BY <1>0, <3>1, <3>2, ConcatAssociative
  <2> QED BY <2>2, <2>3, <2>4, <2>5
<1>2. Rest(SendRest(g) \o list)
  <2> DEFINE n == NumTables(g.need)
             t == IF g.sent < n THEN AddSendTask(NextWindow(g, n)) ELSE <<>>
             o == SendUnivAndOutputs(g.sharing, g.need)
  <2>1. /\ g.sharing \in YaoSharing /\ g.need \in Need /\ g.sent \in Nat
        /\ n \in Nat /\ g.sent <= n
    BY GarblingIs, NumTablesIs DEF Need
  <2>2. NextWindow(g, n) \in Bytes
    BY <2>1, TablesAre DEF NextWindow
  <2>3. t \in Seq(Call) /\ o \in Seq(Call)
    <3>1. t \in Seq(Call)
      BY <2>2, AddTasks
    <3>2. o \in Seq(Call)
      BY <2>1, RestAfterTables
    <3> QED BY <3>1, <3>2
  <2>4. Rest(o \o list)
    BY <2>1, RestAfterTables
  <2>5. o \o list \in Seq(Call)
    BY <1>0, <2>3
  <2>6. Rest(t \o (o \o list))
    <3> HIDE DEF o
    <3> QED BY <2>2, <2>4, <2>5, RestTask, ConcatEmptySeq
  <2>7. SendRest(g) = t \o o
    BY DEF SendRest
  <2> HIDE DEF t, o
  <2>8. (t \o o) \o list = t \o (o \o list)
    BY <1>0, <2>3, ConcatAssociative
  <2> QED BY <2>6, <2>7, <2>8
<1> QED BY <1>1, <1>2

(***************************************************************************)
(* What ExecCircuit calls.                                                 *)
(***************************************************************************)

Circuit == {c \in [bool : BOOLEAN, muls : Nat, yao : Need, rev : Need] :
    Increasing(c.yao) /\ Increasing(c.rev) /\ Layered(c.yao) /\ Layered(c.rev)}

LEMMA CircuitsAre ==
    /\ Len(Circuits) \in Nat /\ DOMAIN Circuits = 1 .. Len(Circuits)
    /\ \A k \in 1 .. Len(Circuits) : Circuits[k] \in Circuit
<1> DEFINE R == [bool : BOOLEAN, muls : Nat, yao : Need, rev : Need]
<1>1. Circuits \in Seq(R)
  BY SetupAssumption
<1> HIDE DEF R
<1>2. Len(Circuits) \in Nat /\ DOMAIN Circuits = 1 .. Len(Circuits)
      /\ \A k \in 1 .. Len(Circuits) : Circuits[k] \in R
  BY <1>1
<1>3. ASSUME NEW k \in 1 .. Len(Circuits) 
      PROVE  /\ Increasing(Circuits[k].yao) /\ Increasing(Circuits[k].rev)
             /\ Layered(Circuits[k].yao) /\ Layered(Circuits[k].rev)
  <2>1. k \in DOMAIN Circuits
    BY <1>2
  <2> QED BY <2>1, SetupAssumption DEF Increasing
<1> QED BY <1>2, <1>3 DEF Circuit, R

LEMMA YaoNeedIs ==
    ASSUME NEW c \in Circuit, NEW y \in YaoSharing
    PROVE  YaoNeed(c, y) \in Need /\ Increasing(YaoNeed(c, y)) /\ Layered(YaoNeed(c, y))
           /\ YaoNeed(c, y).ands \in Seq(Nat \ {0}) /\ YaoNeed(c, y).outs \in Nat
BY DEF Circuit, YaoNeed, YaoSharing, Need

LEMMA FirstGarbling ==
    ASSUME NEW y \in YaoSharing, NEW need \in Need, Increasing(need)
    PROVE  GarbleFrom(y, need, 0, 0) \in Garbling
<1> DEFINE g == GarbleFrom(y, need, 0, 0)
<1>1. /\ g.sharing = y /\ g.need = need /\ g.gate = 0 /\ g.sent = 0
      /\ g \in [op : {"garble"}, sharing : {"S_YAO", "S_YAO_REV"}, need : Need, gate : Nat, sent : Nat]
  BY DEF GarbleFrom, YaoSharing
<1> HIDE DEF g
<1>2. /\ NumTables(need) \in Nat /\ Len(need.ands) \in Nat /\ DOMAIN need.ands = 1 .. Len(need.ands)
  BY NumTablesIs
<1>3. \A k \in DOMAIN need.ands : 0 < need.ands[k]
  <2>1. need.ands \in Seq(Nat \ {0})
    BY DEF Need
  <2> QED BY <2>1
<1>4. g \in Garbling
  BY <1>1, <1>2, <1>3 DEF Garbling
<1> QED BY <1>4 DEF g

LEMMA YaoPerforms ==
    ASSUME NEW p \in Party, NEW c \in Circuit, NEW y \in YaoSharing, NEW list, Rest(list)
    PROVE  /\ YaoPerformSetupPhase(p, c, y) \in Seq(Call)
           /\ Rest(YaoPerformSetupPhase(p, c, y) \o list)
<1> DEFINE need == YaoNeed(c, y)
           n == NumTables(need)
<1>0. list \in Seq(Call)
  BY DEF Rest, Chain
<1>1. need \in Need /\ Increasing(need) /\ need.outs \in Nat /\ n \in Nat
  BY YaoNeedIs, NumTablesIs
<1> DEFINE g == GarbleFrom(y, need, 0, 0)
           t == IF need.ands # <<>> THEN AddReceiveTask(Tables(y, 0, n)) ELSE <<>>
           o == ReceiveUnivAndOutputs(y, need)
<1>2. Tables(y, 0, n) \in Bytes
  <2> HIDE DEF n, need
  <2>1. 0 \in Nat /\ 0 <= n
    BY <1>1
  <2> QED BY <1>1, <2>1, TablesAre
<1>3. g \in Garbling
  BY <1>1, FirstGarbling
<1>4. t \in Seq(Call) /\ o \in Seq(Call)
  <2>1. t \in Seq(Call)
    BY <1>2, AddTasks
  <2>2. o \in Seq(Call)
    BY <1>1, RestAfterTables
  <2> QED BY <2>1, <2>2
<1>5. Rest(o \o list)
  BY <1>1, RestAfterTables
<1>6. o \o list \in Seq(Call)
  BY <1>0, <1>4
<1>7. Rest(t \o (o \o list))
  <2> HIDE DEF o, n
  <2> QED BY <1>2, <1>5, <1>6, RestTask, ConcatEmptySeq
<1>8. YaoPerformSetupPhase(p, c, y) = IF ~ Used(need) THEN <<>> ELSE IF p = Garbler(y) THEN <<g>> ELSE t \o o
  BY DEF YaoPerformSetupPhase, CreateAndSendGarbledCircuit, ReceiveGarbledCircuitAndOutputShares
<1>9. <<g>> \in Seq(Call) /\ Rest(<<g>> \o list) /\ <<>> \in Seq(Call) /\ <<>> \o list = list
  BY <1>0, <1>3, CallKinds, RestGarbling, ConcatEmptySeq
<1> HIDE DEF t, o, g, need
<1>10. (t \o o) \o list = t \o (o \o list) /\ t \o o \in Seq(Call)
  BY <1>0, <1>4, ConcatAssociative
<1> QED BY <1>7, <1>8, <1>9, <1>10

\* One of the sharings waits at the end: the party is the evaluator of it.
LEMMA YaoFinishes ==
    ASSUME NEW p \in Party, NEW c
    PROVE  /\ YaoFinishSetupPhase(p, c, "S_YAO") \in Seq(Call)
           /\ YaoFinishSetupPhase(p, c, "S_YAO_REV") \in Seq(Call)
           /\ Rest(YaoFinishSetupPhase(p, c, "S_YAO") \o (YaoFinishSetupPhase(p, c, "S_YAO_REV") \o <<[op |-> "online"]>>))
<1> DEFINE o == [op |-> "online"]
           l0 == <<o>>
           l1 == <<WaitCall>> \o l0
           l2 == <<WaitCall>> \o l1
<1>1. o \in Call /\ WaitCall \in Call /\ Wait = <<WaitCall>>
      /\ ~ IsMT(o) /\ ~ IsMT(WaitCall) /\ o.op = "online" /\ WaitCall.op = "wait"
  BY CallKinds DEF IsMT, WaitCall, Wait
<1>2. l0 \in Seq(Call) /\ Len(l0) = 1 /\ l0[1] = o /\ l0 # <<>>
  BY <1>1
<1> HIDE DEF o
<1>3. Chain(l0) /\ Last(l0).op = "online" /\ \A k \in 1 .. Len(l0) : ~ IsMT(l0[k])
  BY <1>1, <1>2 DEF Chain, Last
<1>4. MayFollow(WaitCall, o) /\ MayFollow(WaitCall, WaitCall)
  BY <1>1 DEF MayFollow, IsWake, WaitCall
<1> HIDE DEF l0
<1>5. Chain(l1) /\ l1 # <<>> /\ l1[1] = WaitCall /\ Last(l1).op = "online" /\ \A k \in 1 .. Len(l1) : ~ IsMT(l1[k])
  BY <1>1, <1>2, <1>3, <1>4, PrependCall
<1> HIDE DEF l1
<1>6. Chain(l2) /\ l2 # <<>> /\ l2[1] = WaitCall /\ Last(l2).op = "online" /\ \A k \in 1 .. Len(l2) : ~ IsMT(l2[k])
  BY <1>1, <1>4, <1>5, PrependCall
<1> HIDE DEF l2
<1>7. Rest(l1) /\ Rest(l2)
  BY <1>1, <1>5, <1>6 DEF Rest, Last
<1> DEFINE f == YaoFinishSetupPhase(p, c, "S_YAO")
           r == YaoFinishSetupPhase(p, c, "S_YAO_REV")
<1>8. f \in {<<>>, <<WaitCall>>} /\ r \in {<<>>, <<WaitCall>>} /\ (f = <<WaitCall>> \/ r = <<WaitCall>>)
  BY <1>1 DEF YaoFinishSetupPhase, Garbler, Party
<1>9. <<>> \o l0 = l0 /\ <<>> \o l1 = l1
  BY <1>2, <1>5, ConcatEmptySeq DEF Chain
<1>10. Rest(f \o (r \o l0))
  <2> HIDE DEF f, r
  <2>1. r \o l0 \in {l0, l1} /\ (r = <<WaitCall>> => r \o l0 = l1)
    BY <1>8, <1>9 DEF l1
  <2>2. f = <<>> => f \o (r \o l0) = l1
    BY <1>8, <1>9, <2>1
  <2>3. f = <<WaitCall>> => f \o (r \o l0) \in {l1, l2}
    BY <2>1 DEF l1, l2
  <2> QED BY <1>7, <1>8, <2>2, <2>3
<1>11. <<>> \in Seq(Call) /\ <<WaitCall>> \in Seq(Call)
  BY <1>1
<1> QED BY <1>8, <1>10, <1>11 DEF l0, o

OneMT(list) ==
    /\ \A k, l \in 1 .. Len(list) : IsMT(list[k]) /\ IsMT(list[l]) => k = l
    /\ \A k, l \in 1 .. Len(list) : list[k].op = "garble" /\ IsMT(list[l]) => l < k
NoMT(list) == \A k \in 1 .. Len(list) : ~ IsMT(list[k])

\* A list with at most one wake-up for triples, before all garbling, stays one.
LEMMA PrependMT ==
    ASSUME NEW c \in Call, NEW list \in Seq(Call)
    PROVE  /\ NoMT(list) => OneMT(<<c>> \o list)
           /\ OneMT(list) /\ ~ IsMT(c) /\ c.op # "garble" => OneMT(<<c>> \o list)
           /\ IsMT(c) \/ SomeMT(list) => SomeMT(<<c>> \o list)
<1> DEFINE new == <<c>> \o list
<1>1. <<c>> \in Seq(Call) /\ Len(<<c>>) = 1 /\ <<c>>[1] = c /\ Len(list) \in Nat
  OBVIOUS
<1>2. Len(new) = Len(list) + 1
      /\ \A k \in 1 .. Len(list) + 1 : new[k] = IF k <= 1 THEN <<c>>[k] ELSE list[k-1]
  BY <1>1, ConcatProperties
<1> HIDE DEF new
<1>3. new[1] = c /\ \A k \in 1 .. Len(list) : new[k+1] = list[k] /\ k+1 \in 1 .. Len(new)
  BY <1>1, <1>2
<1>4. \A k \in 1 .. Len(new) : k = 1 \/ \E l \in 1 .. Len(list) : k = l + 1
  BY <1>1, <1>2
<1>5. ASSUME NoMT(list) PROVE OneMT(new)
  <2>1. \A k \in 1 .. Len(new) : IsMT(new[k]) => k = 1
    BY <1>3, <1>4, <1>5 DEF NoMT
  <2>2. ASSUME NEW k \in 1 .. Len(new), NEW l \in 1 .. Len(new), new[k].op = "garble", IsMT(new[l])
        PROVE  l < k
    <3>1. l = 1 /\ k # 1 /\ k >= 1
      BY <2>1, <2>2 DEF IsMT
    <3> QED BY <3>1
  <2> QED BY <2>1, <2>2 DEF OneMT
<1>6. ASSUME OneMT(list), ~ IsMT(c), c.op # "garble" PROVE OneMT(new)
  <2>1. ASSUME NEW k \in 1 .. Len(new), NEW l \in 1 .. Len(new), IsMT(new[k]), IsMT(new[l])
        PROVE  k = l
    <3>1. k # 1 /\ l # 1
      BY <1>3, <1>6, <2>1
    <3>2. PICK i \in 1 .. Len(list) : k = i + 1
      BY <1>4, <3>1
    <3>3. PICK j \in 1 .. Len(list) : l = j + 1
      BY <1>4, <3>1
    <3>4. IsMT(list[i]) /\ IsMT(list[j])
      BY <1>3, <2>1, <3>2, <3>3
    <3> QED BY <1>6, <3>2, <3>3, <3>4 DEF OneMT
  <2>2. ASSUME NEW k \in 1 .. Len(new), NEW l \in 1 .. Len(new), new[k].op = "garble", IsMT(new[l])
        PROVE  l < k
    <3>1. k # 1 /\ l # 1
      BY <1>3, <1>6, <2>2
    <3>2. PICK i \in 1 .. Len(list) : k = i + 1
      BY <1>4, <3>1
    <3>3. PICK j \in 1 .. Len(list) : l = j + 1
      BY <1>4, <3>1
    <3>4. list[i].op = "garble" /\ IsMT(list[j])
      BY <1>3, <2>2, <3>2, <3>3
    <3>5. j < i
      BY <1>6, <3>4 DEF OneMT
    <3> QED BY <3>2, <3>3, <3>5
  <2> QED BY <2>1, <2>2 DEF OneMT
<1>7. IsMT(c) => SomeMT(new)
  <2>1. 1 \in 1 .. Len(new)
    BY <1>1, <1>2
  <2> QED BY <1>3, <2>1 DEF SomeMT
<1>8. SomeMT(list) => SomeMT(new)
  BY <1>3 DEF SomeMT
<1> QED BY <1>5, <1>6, <1>7, <1>8 DEF new

\* A circuit's calls: the OT extension first, the online phase last, and the
\* triples once.
Whole(list) ==
    /\ Chain(list) /\ list # <<>>
    /\ list[1] = WakeCall("IKNPOTExt")
    /\ Last(list).op = "online"
    /\ OneMT(list)
    /\ MTGenAlg # "MT_OT" => SomeMT(list)

MTCalls(c) ==
    (IF MTGenAlg = "MT_PAILLIER" THEN Wake("MTPaillier") \o Wait ELSE <<>>)
      \o (IF MTGenAlg = "MT_DGK" /\ c.muls > 0 THEN KeyExchange ELSE <<>>)
      \o (IF MTGenAlg = "MT_DGK" THEN Wake("MTDGK") \o Wait ELSE <<>>)

YaoCalls(p, c) ==
    YaoPerformSetupPhase(p, c, YaoOrder(p)[1])
      \o (YaoPerformSetupPhase(p, c, YaoOrder(p)[2])
      \o (YaoFinishSetupPhase(p, c, "S_YAO")
      \o (YaoFinishSetupPhase(p, c, "S_YAO_REV") \o <<[op |-> "online"]>>)))

LEMMA YaoCallsRest ==
    ASSUME NEW p \in Party, NEW c \in Circuit
    PROVE  Rest(YaoCalls(p, c))
<1> DEFINE a == YaoOrder(p)[1]
           b == YaoOrder(p)[2]
<1>1. a \in YaoSharing /\ b \in YaoSharing
  BY DEF YaoOrder, YaoSharing
<1> HIDE DEF a, b
<1> DEFINE l == YaoFinishSetupPhase(p, c, "S_YAO") \o (YaoFinishSetupPhase(p, c, "S_YAO_REV") \o <<[op |-> "online"]>>)
           m == YaoPerformSetupPhase(p, c, b) \o l
<1>2. Rest(l)
  BY YaoFinishes
<1> HIDE DEF l
<1>3. Rest(m)
  BY <1>1, <1>2, YaoPerforms
<1> HIDE DEF m
<1>4. Rest(YaoPerformSetupPhase(p, c, a) \o m)
  BY <1>1, <1>3, YaoPerforms
<1> QED BY <1>4 DEF YaoCalls, m, l, a, b

\* Three, four or six lists in any grouping.
Associate(s, t, u) == (s \o t) \o u = s \o (t \o u)
Regroup(a, b, c, d) == a \o b \o c \o d = a \o (b \o (c \o d))
RegroupSix(a, b, c, d, e, f) ==
    a \o b \o c \o d \o e \o f = a \o (b \o (c \o (d \o (e \o f))))

LEMMA ThreeParts ==
    ASSUME NEW s \in Seq(Call), NEW t \in Seq(Call), NEW u \in Seq(Call)
    PROVE  Associate(s, t, u)
BY ConcatAssociative DEF Associate

LEMMA FourParts ==
    ASSUME NEW a \in Seq(Call), NEW b \in Seq(Call), NEW c \in Seq(Call), NEW d \in Seq(Call)
    PROVE  Regroup(a, b, c, d)
<1>1. a \o b \in Seq(Call) /\ c \o d \in Seq(Call)
  OBVIOUS
<1>2. Associate(a, b, c \o d)
  BY <1>1, ThreeParts
<1>3. Associate(a \o b, c, d)
  BY <1>1, ThreeParts
<1> QED BY <1>2, <1>3 DEF Associate, Regroup

LEMMA SixParts ==
    ASSUME NEW a \in Seq(Call), NEW b \in Seq(Call), NEW c \in Seq(Call), NEW d \in Seq(Call),
           NEW e \in Seq(Call), NEW f \in Seq(Call)
    PROVE  RegroupSix(a, b, c, d, e, f)
<1>1. a \o b \in Seq(Call) /\ e \o f \in Seq(Call)
  OBVIOUS
<1>2. d \o (e \o f) \in Seq(Call) /\ a \o b \o c \in Seq(Call)
  BY <1>1
<1>3. Regroup(a, b, c, d \o (e \o f))
  BY <1>2, FourParts
<1>4. Regroup(a \o b \o c, d, e, f)
  BY <1>2, FourParts
<1> QED BY <1>3, <1>4 DEF Regroup, RegroupSix

LEMMA ExecCircuitIs ==
    ASSUME NEW p \in Party, NEW c \in Circuit
    PROVE  /\ ExecCircuit(p, c) = <<WakeCall("IKNPOTExt")>> \o (<<WaitCall>> \o (MTCalls(c) \o YaoCalls(p, c)))
           /\ MTCalls(c) \in Seq(Call)
<1> DEFINE a == <<WakeCall("IKNPOTExt")>>
           b == <<WaitCall>>
           d == IF MTGenAlg = "MT_PAILLIER" THEN Wake("MTPaillier") \o Wait ELSE <<>>
           e == IF MTGenAlg = "MT_DGK" /\ c.muls > 0 THEN KeyExchange ELSE <<>>
           f == IF MTGenAlg = "MT_DGK" THEN Wake("MTDGK") \o Wait ELSE <<>>
           g == YaoPerformSetupPhase(p, c, YaoOrder(p)[1])
           h == YaoPerformSetupPhase(p, c, YaoOrder(p)[2])
           i == YaoFinishSetupPhase(p, c, "S_YAO")
           j == YaoFinishSetupPhase(p, c, "S_YAO_REV")
           k == <<[op |-> "online"]>>
<1>1. ExecCircuit(p, c) = (a \o b \o d \o e \o f) \o g \o h \o i \o j \o k
  BY DEF ExecCircuit, PerformSetupPhase, Wake, Wait, WakeCall, WaitCall
<1>2. MTCalls(c) = d \o e \o f /\ YaoCalls(p, c) = g \o (h \o (i \o (j \o k)))
  BY DEF MTCalls, YaoCalls
<1>3. a \in Seq(Call) /\ b \in Seq(Call) /\ k \in Seq(Call)
  BY CallKinds DEF Job
<1>4. d \in Seq(Call) /\ e \in Seq(Call) /\ f \in Seq(Call)
  <2>1. <<>> \in Seq(Call) /\ Wait \in Seq(Call) /\ Wake("MTPaillier") \in Seq(Call) /\ Wake("MTDGK") \in Seq(Call)
        /\ KeyExchange \in Seq(Call)
    BY DEF Wait, Wake, KeyExchange, Call, Job
  <2> HIDE DEF a, b, g, h, i, j, k
  <2> QED BY <2>1
<1>5. g \in Seq(Call) /\ h \in Seq(Call) /\ i \in Seq(Call) /\ j \in Seq(Call)
  <2>1. YaoOrder(p)[1] \in YaoSharing /\ YaoOrder(p)[2] \in YaoSharing
    BY DEF YaoOrder, YaoSharing
  <2>2. \E list : Rest(list)
    BY YaoFinishes
  <2> QED BY <2>1, <2>2, YaoPerforms, YaoFinishes
<1> HIDE DEF a, b, d, e, f, g, h, i, j, k
<1> DEFINE m == d \o e \o f
           r == h \o (i \o (j \o k))
           s == a \o b \o d \o e \o f
<1>6. m \in Seq(Call) /\ j \o k \in Seq(Call) /\ i \o (j \o k) \in Seq(Call)
  BY <1>3, <1>4, <1>5
<1>7. r \in Seq(Call)
  BY <1>5, <1>6
<1>8. s \in Seq(Call)
  <2>1. a \o b \in Seq(Call)
    BY <1>3
  <2>2. a \o b \o d \in Seq(Call)
    BY <1>4, <2>1
  <2>3. a \o b \o d \o e \in Seq(Call)
    BY <1>4, <2>2
  <2> QED BY <1>4, <2>3
<1>9. s = a \o (b \o m)
  <2>1. a \o b \in Seq(Call)
    BY <1>3
  <2> DEFINE ab == a \o b
  <2> HIDE DEF ab
  <2>2. ab \in Seq(Call)
    BY <2>1 DEF ab
  <2>3. Regroup(ab, d, e, f)
    BY <1>4, <2>2, FourParts
  <2>4. Associate(d, e, f)
    BY <1>4, ThreeParts
  <2> HIDE DEF m
  <2>5. Associate(a, b, m)
    BY <1>3, <1>6, ThreeParts
  <2> QED BY <2>3, <2>4, <2>5 DEF ab, m, Associate, Regroup
<1> HIDE DEF s, m
<1>10. RegroupSix(s, g, h, i, j, k)
  BY <1>3, <1>5, <1>8, SixParts
<1> DEFINE y == g \o r
<1>11. y \in Seq(Call)
  BY <1>5, <1>7
<1> HIDE DEF y
<1>12. (a \o (b \o m)) \o y = a \o (b \o (m \o y))
  <2>1. b \o m \in Seq(Call)
    BY <1>3, <1>6
  <2>2. Associate(b, m, y)
    BY <1>3, <1>6, <1>11, ThreeParts
  <2> DEFINE bm == b \o m
  <2>3. bm \in Seq(Call)
    BY <2>1
  <2> HIDE DEF bm
  <2>4. Associate(a, bm, y)
    BY <1>3, <1>11, <2>3, ThreeParts
  <2> QED BY <2>2, <2>4 DEF bm, Associate
<1> QED BY <1>1, <1>2, <1>6, <1>9, <1>10, <1>12 DEF a, b, s, m, y, RegroupSix

\* What may come after a wait: a rest with at most one wake-up for triples.
AfterWait(list) ==
    /\ Chain(list) /\ list # <<>>
    /\ MayFollow(WaitCall, list[1])
    /\ Last(list).op = "online"
    /\ OneMT(list)

LEMMA RestAfterWait ==
    ASSUME NEW list, Rest(list)
    PROVE  AfterWait(list) /\ NoMT(list)
<1>1. NoMT(list)
  BY DEF Rest, NoMT
<1>2. OneMT(list)
  BY <1>1 DEF NoMT, OneMT
<1>3. MayFollow(WaitCall, list[1])
  BY DEF Rest, MayFollow, WaitCall, IsWake
<1> QED BY <1>1, <1>2, <1>3 DEF Rest, AfterWait, Last

LEMMA MTWakesRest ==
    ASSUME NEW e \in MTJob, NEW list, Rest(list)
    PROVE  /\ AfterWait(<<WakeCall(e)>> \o (<<WaitCall>> \o list))
           /\ SomeMT(<<WakeCall(e)>> \o (<<WaitCall>> \o list))
<1> DEFINE l1 == <<WaitCall>> \o list
           l2 == <<WakeCall(e)>> \o l1
<1>1. AfterWait(list) /\ NoMT(list)
  BY RestAfterWait
<1>2. WaitCall \in Call /\ WakeCall(e) \in Call /\ ~ IsMT(WaitCall) /\ IsMT(WakeCall(e)) /\ WaitCall.op # "garble"
  BY CallKinds DEF MTJob, Job, IsMT, WaitCall, WakeCall
<1>3. MayFollow(WakeCall(e), WaitCall) /\ MayFollow(WaitCall, WakeCall(e))
  BY DEF MTJob, MayFollow, IsWake, WaitCall, WakeCall
<1>4. Chain(l1) /\ l1 # <<>> /\ l1[1] = WaitCall /\ Last(l1).op = "online" /\ NoMT(l1)
  BY <1>1, <1>2, PrependCall DEF AfterWait, NoMT
<1> HIDE DEF l1
<1>5. Chain(l2) /\ l2 # <<>> /\ l2[1] = WakeCall(e) /\ Last(l2).op = "online"
  BY <1>2, <1>3, <1>4, PrependCall
<1>6. OneMT(l2) /\ SomeMT(l2)
  BY <1>2, <1>4, PrependMT DEF Chain
<1> HIDE DEF l2
<1>7. AfterWait(l2)
  BY <1>3, <1>5, <1>6 DEF AfterWait
<1> QED BY <1>6, <1>7 DEF l1, l2

LEMMA KeysAfterWait ==
    ASSUME NEW list, AfterWait(list), SomeMT(list)
    PROVE  /\ AfterWait(<<[op |-> "sndkey"]>> \o (<<[op |-> "rcvkey"]>> \o list))
           /\ SomeMT(<<[op |-> "sndkey"]>> \o (<<[op |-> "rcvkey"]>> \o list))
<1> DEFINE s == [op |-> "sndkey"]
           r == [op |-> "rcvkey"]
           l1 == <<r>> \o list
           l2 == <<s>> \o l1
<1>1. s \in Call /\ r \in Call /\ ~ IsMT(s) /\ ~ IsMT(r) /\ s.op = "sndkey" /\ r.op = "rcvkey"
  BY CallKinds DEF IsMT
<1>2. MayFollow(r, list[1]) /\ MayFollow(s, r) /\ MayFollow(WaitCall, s)
  <2>1. MayFollow(WaitCall, list[1])
    BY DEF AfterWait
  <2> QED BY <2>1 DEF MayFollow, IsWake, WaitCall
<1> HIDE DEF s, r
<1>3. Chain(l1) /\ l1 # <<>> /\ l1[1] = r /\ Last(l1).op = "online"
  BY <1>1, <1>2, PrependCall DEF AfterWait
<1>4. OneMT(l1) /\ SomeMT(l1)
  BY <1>1, PrependMT DEF AfterWait, Chain
<1> HIDE DEF l1
<1>5. Chain(l2) /\ l2 # <<>> /\ l2[1] = s /\ Last(l2).op = "online"
  BY <1>1, <1>2, <1>3, PrependCall
<1>6. OneMT(l2) /\ SomeMT(l2)
  BY <1>1, <1>3, <1>4, PrependMT DEF Chain
<1> HIDE DEF l2
<1>7. AfterWait(l2)
  BY <1>2, <1>5, <1>6 DEF AfterWait
<1> QED BY <1>6, <1>7 DEF l1, l2, s, r

LEMMA MTCallsAre ==
    ASSUME NEW c \in Circuit, NEW list, Rest(list)
    PROVE  /\ AfterWait(MTCalls(c) \o list)
           /\ MTGenAlg # "MT_OT" => SomeMT(MTCalls(c) \o list)
<1>0. list \in Seq(Call) /\ <<>> \o list = list
  BY ConcatEmptySeq DEF Rest, Chain
<1> DEFINE w(e) == Wake(e) \o Wait
           k == KeyExchange
<1>1. ASSUME NEW e \in MTJob
      PROVE  w(e) \in Seq(Call) /\ w(e) \o list = <<WakeCall(e)>> \o (<<WaitCall>> \o list)
  <2>1. <<WakeCall(e)>> \in Seq(Call) /\ <<WaitCall>> \in Seq(Call)
    BY CallKinds DEF MTJob, Job
  <2>2. w(e) = <<WakeCall(e)>> \o <<WaitCall>>
    BY DEF Wake, Wait, WakeCall, WaitCall
  <2>3. Associate(<<WakeCall(e)>>, <<WaitCall>>, list)
    BY <1>0, <2>1, ThreeParts
  <2> QED BY <2>1, <2>2, <2>3 DEF Associate
<1>2. k \in Seq(Call) /\ k = <<[op |-> "sndkey"]>> \o <<[op |-> "rcvkey"]>>
      /\ <<[op |-> "sndkey"]>> \in Seq(Call) /\ <<[op |-> "rcvkey"]>> \in Seq(Call)
  BY CallKinds DEF KeyExchange
<1>3. ASSUME NEW e \in MTJob
      PROVE  AfterWait(w(e) \o list) /\ SomeMT(w(e) \o list)
  BY <1>1, <1>3, MTWakesRest
<1>4. ASSUME NEW t \in Seq(Call)
      PROVE  <<>> \o t = t /\ t \o <<>> = t
  BY ConcatEmptySeq
<1>5. CASE MTGenAlg = "MT_OT"
  <2>1. MTCalls(c) = <<>>
    BY <1>5 DEF MTCalls
  <2> QED BY <1>0, <1>5, <2>1, RestAfterWait
<1>6. CASE MTGenAlg = "MT_PAILLIER"
  <2>1. MTCalls(c) = w("MTPaillier") \o <<>> \o <<>>
    BY <1>6 DEF MTCalls
  <2>2. "MTPaillier" \in MTJob
    BY DEF MTJob
  <2> HIDE DEF w
  <2>3. MTCalls(c) = w("MTPaillier")
    BY <1>1, <1>4, <2>1, <2>2
  <2> QED BY <1>3, <2>2, <2>3
<1>7. CASE MTGenAlg = "MT_DGK"
  <2>1. "MTDGK" \in MTJob
    BY DEF MTJob
  <2> DEFINE v == w("MTDGK")
  <2>2. v \in Seq(Call) /\ AfterWait(v \o list) /\ SomeMT(v \o list)
    BY <1>1, <1>3, <2>1
  <2>3. MTCalls(c) = <<>> \o (IF c.muls > 0 THEN k ELSE <<>>) \o v
    BY <1>7 DEF MTCalls
  <2> HIDE DEF w, v, k
  <2>4. CASE c.muls > 0
    <3>1. MTCalls(c) = k \o v
      BY <1>2, <1>4, <2>3, <2>4
    <3>2. Associate(k, v, list)
      BY <1>0, <1>2, <2>2, ThreeParts
    <3>3. v \o list \in Seq(Call)
      BY <2>2 DEF AfterWait, Chain
    <3> DEFINE vl == v \o list
    <3> HIDE DEF vl
    <3>4. Associate(<<[op |-> "sndkey"]>>, <<[op |-> "rcvkey"]>>, vl)
      BY <1>2, <3>3, ThreeParts DEF vl
    <3>5. AfterWait(k \o vl) /\ SomeMT(k \o vl)
      BY <1>2, <2>2, <3>4, KeysAfterWait DEF Associate, vl
    <3> QED BY <3>1, <3>2, <3>5 DEF Associate, vl
  <2>5. CASE ~ (c.muls > 0)
    <3>1. MTCalls(c) = v
      BY <1>4, <2>2, <2>3, <2>5
    <3> QED BY <2>2, <3>1
  <2> QED BY <2>4, <2>5
<1> QED BY <1>5, <1>6, <1>7, SetupAssumption

LEMMA ExecCircuitWhole ==
    ASSUME NEW p \in Party, NEW c \in Circuit
    PROVE  Whole(ExecCircuit(p, c))
<1> DEFINE l0 == MTCalls(c) \o YaoCalls(p, c)
           l1 == <<WaitCall>> \o l0
           l2 == <<WakeCall("IKNPOTExt")>> \o l1
<1>1. ExecCircuit(p, c) = l2
  BY ExecCircuitIs
<1>2. AfterWait(l0) /\ (MTGenAlg # "MT_OT" => SomeMT(l0))
  BY YaoCallsRest, MTCallsAre
<1>3. WaitCall \in Call /\ WakeCall("IKNPOTExt") \in Call
      /\ ~ IsMT(WaitCall) /\ ~ IsMT(WakeCall("IKNPOTExt"))
      /\ WaitCall.op # "garble" /\ WakeCall("IKNPOTExt").op # "garble"
  BY CallKinds DEF IsMT, MTJob, WaitCall, WakeCall, Job
<1>4. MayFollow(WakeCall("IKNPOTExt"), WaitCall)
  BY DEF MayFollow, IsWake, WaitCall, WakeCall
<1> HIDE DEF l0
<1>5. Chain(l1) /\ l1 # <<>> /\ l1[1] = WaitCall /\ Last(l1).op = "online"
  BY <1>2, <1>3, PrependCall DEF AfterWait
<1>6. OneMT(l1) /\ (MTGenAlg # "MT_OT" => SomeMT(l1))
  BY <1>2, <1>3, PrependMT DEF AfterWait, Chain
<1> HIDE DEF l1
<1>7. Chain(l2) /\ l2 # <<>> /\ l2[1] = WakeCall("IKNPOTExt") /\ Last(l2).op = "online"
  BY <1>3, <1>4, <1>5, PrependCall
<1>8. OneMT(l2) /\ (MTGenAlg # "MT_OT" => SomeMT(l2))
  BY <1>3, <1>5, <1>6, PrependMT DEF Chain
<1> QED BY <1>1, <1>7, <1>8 DEF Whole

\* Before the first circuit there is no OT extension, and nothing is made.
LEMMA FirstCalls ==
    /\ Chain(ConnectAndBaseOTs) /\ ConnectAndBaseOTs # <<>>
    /\ Last(ConnectAndBaseOTs).op \in {"wait", "rcvkey"}
    /\ ConnectAndBaseOTs[1] = WakeCall("NP")
    /\ NoMT(ConnectAndBaseOTs)
    /\ \A k \in 1 .. Len(ConnectAndBaseOTs) : ConnectAndBaseOTs[k].op # "garble"
<1> DEFINE a == WakeCall("NP")
           s == [op |-> "sndkey"]
           r == [op |-> "rcvkey"]
           l0 == <<WaitCall>>
           l2 == <<WaitCall, s, r>>
<1>1. /\ a \in Call /\ s \in Call /\ r \in Call /\ WaitCall \in Call
      /\ ~ IsMT(a) /\ ~ IsMT(s) /\ ~ IsMT(r) /\ ~ IsMT(WaitCall)
      /\ WaitCall.op = "wait" /\ r.op = "rcvkey"
  BY CallKinds DEF Job, IsMT, MTJob, WakeCall, WaitCall
<1>2. MayFollow(a, WaitCall) /\ MayFollow(WaitCall, s) /\ MayFollow(s, r)
  BY DEF MayFollow, IsWake, WakeCall, WaitCall
<1>3. ConnectAndBaseOTs = <<a>> \o (IF MTGenAlg = "MT_PAILLIER" THEN l2 ELSE l0)
  BY DEF ConnectAndBaseOTs, Wake, Wait, KeyExchange, WakeCall, WaitCall
<1> HIDE DEF a, s, r
<1>4. Chain(l0) /\ l0 # <<>> /\ l0[1] = WaitCall /\ Last(l0).op = "wait" /\ NoMT(l0)
  <2>1. l0 \in Seq(Call) /\ Len(l0) = 1 /\ l0[1] = WaitCall /\ l0 # <<>>
    BY <1>1
  <2> HIDE DEF l0
  <2>2. Chain(l0)
    BY <2>1 DEF Chain
  <2>3. NoMT(l0)
    BY <1>1, <2>1 DEF NoMT
  <2>4. Last(l0) = WaitCall
    BY <2>1 DEF Last
  <2> QED BY <1>1, <2>1, <2>2, <2>3, <2>4
<1>5. Chain(l2) /\ l2 # <<>> /\ l2[1] = WaitCall /\ Last(l2).op = "rcvkey" /\ NoMT(l2)
  <2>1. l2 \in Seq(Call) /\ Len(l2) = 3 /\ l2[1] = WaitCall /\ l2[2] = s /\ l2[3] = r /\ l2 # <<>>
    BY <1>1
  <2>2. \A k \in 1 .. 3 : k = 1 \/ k = 2 \/ k = 3
    OBVIOUS
  <2> HIDE DEF l2
  <2>3. ASSUME NEW k \in 1 .. Len(l2) - 1 PROVE MayFollow(l2[k], l2[k+1])
    <3>1. k = 1 \/ k = 2
      BY <2>1
    <3> QED BY <1>2, <2>1, <3>1
  <2>4. NoMT(l2)
    BY <1>1, <2>1, <2>2 DEF NoMT
  <2> QED BY <1>1, <2>1, <2>3, <2>4 DEF Chain, Last
<1>6. ASSUME NEW l, Chain(l), l # <<>>, l[1] = WaitCall, NoMT(l)
      PROVE  LET n == <<a>> \o l
             IN Chain(n) /\ n # <<>> /\ n[1] = a /\ Last(n) = Last(l) /\ NoMT(n)
  BY <1>1, <1>2, <1>6, PrependCall DEF NoMT
<1>7. ASSUME NEW l \in Seq(Call), \A k \in 1 .. Len(l) : l[k].op # "garble"
      PROVE  \A k \in 1 .. Len(<<a>> \o l) : (<<a>> \o l)[k].op # "garble"
  <2> DEFINE n == <<a>> \o l
  <2>1. <<a>> \in Seq(Call) /\ Len(<<a>>) = 1 /\ <<a>>[1] = a /\ a.op = "wake" /\ Len(l) \in Nat
    BY <1>1 DEF a, WakeCall
  <2>2. Len(n) = Len(l) + 1
        /\ \A k \in 1 .. Len(l) + 1 : n[k] = IF k <= 1 THEN <<a>>[k] ELSE l[k-1]
    BY <2>1, ConcatProperties
  <2> HIDE DEF n
  <2>3. ASSUME NEW k \in 1 .. Len(n) PROVE n[k].op # "garble"
    <3>1. CASE k = 1
      BY <2>1, <2>2, <3>1
    <3>2. CASE k # 1
      <4>1. k - 1 \in 1 .. Len(l) /\ n[k] = l[k-1]
        BY <2>1, <2>2, <3>2
      <4> QED BY <1>7, <4>1
    <3> QED BY <3>1, <3>2
  <2> QED BY <2>3 DEF n
<1>8. (\A k \in 1 .. Len(l0) : l0[k].op # "garble") /\ (\A k \in 1 .. Len(l2) : l2[k].op # "garble")
  <2>1. Len(l0) = 1 /\ l0[1] = WaitCall /\ Len(l2) = 3 /\ l2[1] = WaitCall /\ l2[2] = s /\ l2[3] = r
    OBVIOUS
  <2>2. (\A k \in 1 .. 3 : k = 1 \/ k = 2 \/ k = 3) /\ (\A k \in 1 .. 1 : k = 1)
    OBVIOUS
  <2>3. s.op = "sndkey"
    BY DEF s
  <2> HIDE DEF l0, l2
  <2> QED BY <1>1, <2>1, <2>2, <2>3
<1> HIDE DEF l0, l2
<1> QED BY <1>3, <1>4, <1>5, <1>6, <1>7, <1>8 DEF a, Chain

(***************************************************************************)
(* The triples of a thread.                                                *)
(***************************************************************************)

\* All threads' pairs, and the threads that make one pair more.
Pairs(n) == n \div (4 * NumOTThreads)
Extra(n) == ((n % (4 * NumOTThreads)) + 1) \div 2
StartOf(n, i) == 2 * ((i * Pairs(n)) + (IF i < Extra(n) THEN i ELSE Extra(n)))

LEMMA Division ==
    ASSUME NEW n \in Nat, NEW d \in Nat \ {0}
    PROVE  /\ n \div d \in Nat /\ n % d \in Nat /\ n % d < d
           /\ n = (d * (n \div d)) + (n % d)
OBVIOUS

LEMMA PairsAre ==
    ASSUME NEW n \in Nat
    PROVE  /\ Pairs(n) \in Nat /\ Extra(n) \in Nat /\ Extra(n) <= 2 * NumOTThreads
           /\ n % (4 * NumOTThreads) \in Nat
           /\ n = (4 * NumOTThreads * Pairs(n)) + (n % (4 * NumOTThreads))
           /\ 2 * Extra(n) = (n % (4 * NumOTThreads)) + (n % 2)
           /\ \A i \in Nat : MyNumMTs(n, i) = 2 * (Pairs(n) + (IF i < Extra(n) THEN 1 ELSE 0))
           /\ \A i \in Nat : MyNumMTs(n, i) \in Nat
<1> DEFINE d == 4 * NumOTThreads
           r == n % d
           a == n \div d
           b == (r + 1) \div 2
<1>1. NumOTThreads \in Nat \ {0} /\ d \in Nat \ {0}
  BY SetupAssumption
<1>2. a \in Nat /\ r \in Nat /\ r < d /\ n = (d * a) + r
  BY <1>1, Division
<1>3. Pairs(n) = a /\ Extra(n) = b
  BY DEF Pairs, Extra
<1>4. MyNumMTs(n, 0) = MyNumMTs(n, 0) /\ \A i \in Nat : MyNumMTs(n, i) = 2 * (a + (IF 2 * i < r THEN 1 ELSE 0))
  BY DEF MyNumMTs
<1>5. n % 2 = r % 2
  <2>1. n = (2 * (2 * NumOTThreads * a)) + r
    BY <1>1, <1>2
  <2>2. 2 * NumOTThreads * a \in Nat
    BY <1>1, <1>2
  <2> HIDE DEF d, r, a
  <2>3. \A x, y \in Nat : ((2 * x) + y) % 2 = y % 2
    OBVIOUS
  <2> QED BY <1>2, <2>1, <2>2, <2>3
<1>6. d = 4 * NumOTThreads
  OBVIOUS
<1> HIDE DEF d, r, a
<1>7. b \in Nat /\ b <= 2 * NumOTThreads /\ 2 * b = r + (r % 2)
  BY <1>1, <1>2, <1>6
<1>8. \A i \in Nat : 2 * i < r <=> i < b
  BY <1>2, <1>7
<1> HIDE DEF b
<1>9. \A i \in Nat : MyNumMTs(n, i) = 2 * (a + (IF i < b THEN 1 ELSE 0))
  BY <1>4, <1>8
<1>10. \A i \in Nat : MyNumMTs(n, i) \in Nat
  BY <1>2, <1>9
<1>11. d * a = 4 * NumOTThreads * a
  BY <1>6
<1> QED BY <1>2, <1>3, <1>5, <1>6, <1>7, <1>9, <1>10, <1>11 DEF d, r

LEMMA MyStartIs ==
    ASSUME NEW n \in Nat, NEW i \in Nat
    PROVE  MyStart(n, i) = StartOf(n, i) /\ StartOf(n, i) \in Nat
<1> DEFINE Starts(f) == f = [t \in 0 .. i |-> IF t = 0 THEN 0 ELSE f[t-1] + MyNumMTs(n, t-1)]
           start == CHOOSE f : Starts(f)
           closed == [t \in 0 .. i |-> StartOf(n, t)]
           a == Pairs(n)
           b == Extra(n)
<1>1. a \in Nat /\ b \in Nat /\ \A t \in Nat : MyNumMTs(n, t) = 2 * (a + (IF t < b THEN 1 ELSE 0))
  BY PairsAre
<1>2. \A t \in Nat : StartOf(n, t) = 2 * ((t * a) + (IF t < b THEN t ELSE b))
  BY DEF StartOf
<1> HIDE DEF a, b
<1>3. \A t \in Nat : t * a \in Nat /\ StartOf(n, t) \in Nat
  BY <1>1, <1>2
<1>4. StartOf(n, 0) = 0
  <2>1. 0 * a = 0
    BY <1>1
  <2> QED BY <1>1, <1>2, <2>1
<1>5. ASSUME NEW t \in Nat \ {0}
      PROVE  StartOf(n, t) = StartOf(n, t-1) + MyNumMTs(n, t-1)
  <2>1. t * a = ((t-1) * a) + a /\ (t-1) * a \in Nat /\ t - 1 \in Nat
    BY <1>1
  <2> DEFINE u == t - 1
             x == u * a
  <2>2. StartOf(n, t) = 2 * ((x + a) + (IF t < b THEN t ELSE b)) /\ x \in Nat /\ u \in Nat /\ t = u + 1
    BY <1>2, <2>1
  <2>3. StartOf(n, u) = 2 * (x + (IF u < b THEN u ELSE b))
        /\ MyNumMTs(n, u) = 2 * (a + (IF u < b THEN 1 ELSE 0))
    BY <1>1, <1>2, <2>2
  <2> HIDE DEF x, u
  <2>4. (IF t < b THEN t ELSE b) = (IF u < b THEN u ELSE b) + (IF u < b THEN 1 ELSE 0)
    BY <1>1, <2>2
  <2>5. StartOf(n, t) = StartOf(n, u) + MyNumMTs(n, u)
    BY <1>1, <2>2, <2>3, <2>4
  <2> QED BY <2>5 DEF u
<1>6. Starts(closed)
  BY <1>4, <1>5
<1> HIDE DEF Starts
<1>7. Starts(start)
  BY <1>6
<1> HIDE DEF start
<1>8. start = [t \in 0 .. i |-> IF t = 0 THEN 0 ELSE start[t-1] + MyNumMTs(n, t-1)]
  BY <1>7 DEF Starts
<1>9. ASSUME \E t \in 0 .. i : start[t] # StartOf(n, t) PROVE FALSE
  <2> DEFINE Wrong == {t \in Nat : t <= i /\ start[t] # StartOf(n, t)}
  <2>1. PICK t \in Wrong : \A u \in Wrong : t <= u
    <3>1. Wrong # {} /\ Wrong \subseteq Nat
      BY <1>9
    <3> HIDE DEF Wrong
    <3> QED BY <3>1, LeastNat
  <2>2. t # 0
    BY <1>4, <1>8
  <2>3. t - 1 \in 0 .. i /\ t - 1 \notin Wrong /\ t \in 0 .. i
    BY <2>1, <2>2
  <2>4. start[t-1] = StartOf(n, t-1)
    BY <2>3
  <2>5. start[t] = start[t-1] + MyNumMTs(n, t-1)
    BY <1>8, <2>2, <2>3
  <2> QED BY <1>5, <2>1, <2>2, <2>4, <2>5
<1>10. MyStart(n, i) = start[i]
  BY DEF MyStart, start, Starts
<1> QED BY <1>3, <1>9, <1>10

(***************************************************************************)
(* The threads.                                                            *)
(***************************************************************************)

LEMMA ThreadsAre ==
    /\ NumOTThreads \in Nat \ {0}
    /\ 0 \in Thread /\ 1 \in Thread /\ Thread \subseteq Nat
    /\ Snd \in Thread /\ Rcv \in Thread
    /\ \A i \in Nat : i < 2 * NumOTThreads <=> i \in Thread
    /\ \A e \in Job : ThreadsFor(e) \in Nat \ {0} /\ ThreadsFor(e) <= 2 * NumOTThreads
    /\ ThreadsFor("Send") = 1 /\ ThreadsFor("Receive") = 1
    /\ IsFiniteSet(Thread)
<1>1. NumOTThreads \in Nat \ {0}
  BY SetupAssumption
<1>2. IsFiniteSet(Thread)
  BY <1>1, FS_Interval DEF Thread
<1>3. \A e \in Job : ThreadsFor(e) \in Nat \ {0} /\ ThreadsFor(e) <= 2 * NumOTThreads
  BY <1>1 DEF ThreadsFor
<1>4. ThreadsFor("Send") = 1 /\ ThreadsFor("Receive") = 1
  BY DEF ThreadsFor
<1> QED BY <1>1, <1>2, <1>3, <1>4 DEF Thread, Snd, Rcv

LEMMA PeerIs ==
    ASSUME NEW p \in Party
    PROVE  Peer(p) \in Party /\ Peer(p) # p /\ Peer(Peer(p)) = p /\ \A q \in Party : q = p \/ q = Peer(p)
BY DEF Party, Peer

LEMMA CallIs ==
    ASSUME NEW c \in Call
    PROVE  /\ c.op = "wake" => c.job \in Job
           /\ c.op \in {"sndtask", "rcvtask"} => c.data \in Bytes
           /\ c.op = "garble" => c \in Garbling
<1>1. ASSUME c \in Garbling PROVE c.op = "garble"
  BY <1>1, GarblingIs
<1> QED BY <1>1 DEF Call

\* The calls that are left, and those after the next.
LEMMA CallsAre ==
    ASSUME TypeOK, NEW p \in Party, OrderOK(p)
    PROVE  /\ calls[p] \in Seq(Call) /\ Chain(calls[p])
           /\ calls[p] # <<>> =>
                /\ Head(calls[p]) = calls[p][1] /\ Head(calls[p]) \in Call
                /\ Chain(Tail(calls[p]))
                /\ Last(calls[p]).op \in (IF circuit[p] = 0 THEN {"wait", "rcvkey"} ELSE {"online"})
                /\ Tail(calls[p]) # <<>> => /\ Last(Tail(calls[p])) = Last(calls[p])
                                            /\ MayFollow(Head(calls[p]), Tail(calls[p])[1])
                                            /\ Head(Tail(calls[p])) = Tail(calls[p])[1]
                /\ Tail(calls[p]) = <<>> => Last(calls[p]) = Head(calls[p])
<1>1. calls[p] \in Seq(Call)
  BY DEF TypeOK
<1>2. Chain(calls[p])
  BY <1>1 DEF OrderOK, Chain
<1>3. ASSUME calls[p] # <<>>
      PROVE  Last(calls[p]).op \in (IF circuit[p] = 0 THEN {"wait", "rcvkey"} ELSE {"online"})
  BY <1>3 DEF OrderOK, Last
<1> DEFINE c == calls[p]
<1> HIDE DEF c
<1>4. ASSUME c # <<>>, Chain(c)
      PROVE  /\ Head(c) = c[1] /\ Head(c) \in Call
             /\ Chain(Tail(c))
             /\ Tail(c) # <<>> => Last(Tail(c)) = Last(c) /\ MayFollow(Head(c), Tail(c)[1]) /\ Head(Tail(c)) = Tail(c)[1]
             /\ Tail(c) = <<>> => Last(c) = Head(c)
  <2>1. /\ Chain(Tail(c)) /\ Head(c) = c[1] /\ c[1] \in Call
        /\ Len(Tail(c)) = Len(c) - 1 /\ Len(c) \in Nat \ {0}
        /\ Tail(c) # <<>> => Last(Tail(c)) = Last(c) /\ MayFollow(c[1], Tail(c)[1])
    BY <1>4, ChainTail
  <2>2. ASSUME Tail(c) # <<>> PROVE Head(Tail(c)) = Tail(c)[1]
    <3>1. Chain(Tail(c))
      BY <2>1
    <3> DEFINE t == Tail(c)
    <3> HIDE DEF t
    <3> QED BY <2>2, <3>1, ChainTail
  <2>3. ASSUME Tail(c) = <<>> PROVE Last(c) = Head(c)
    <3> DEFINE t == Tail(c)
    <3>1. Len(t) = Len(c) - 1 /\ t = <<>> /\ Len(c) \in Nat
      BY <2>1, <2>3
    <3> HIDE DEF t
    <3>2. Len(t) = 0
      BY <3>1
    <3>3. Len(c) = 1
      BY <3>1, <3>2
    <3> QED BY <2>1, <3>3 DEF Last
  <2> QED BY <2>1, <2>2, <2>3
<1> QED BY <1>1, <1>2, <1>3, <1>4 DEF c

\* The rest of a circuit's calls after garbling has begun.
LEMMA CallsGarble ==
    ASSUME TypeOK, NEW p \in Party, OrderOK(p), HeadIs(p, "garble")
    PROVE  /\ Head(calls[p]) \in Garbling
           /\ Rest(Tail(calls[p]))
           /\ circuit[p] # 0
           /\ NoMT(calls[p])
<1> DEFINE c == calls[p]
           t == Tail(c)
<1>1. c # <<>> /\ Head(c).op = "garble"
  BY DEF HeadIs
<1>2. /\ c \in Seq(Call) /\ Chain(c) /\ Head(c) = c[1] /\ c[1] \in Call /\ Chain(t)
      /\ Last(c).op \in (IF circuit[p] = 0 THEN {"wait", "rcvkey"} ELSE {"online"})
      /\ t # <<>> => Last(t) = Last(c) /\ MayFollow(c[1], t[1])
      /\ t = <<>> => Last(c) = Head(c)
  BY <1>1, CallsAre
<1>3. /\ Len(t) = Len(c) - 1 /\ Len(c) \in Nat \ {0} /\ \A k \in 1 .. Len(t) : t[k] = c[k+1]
  BY <1>1, <1>2, ChainTail
<1>4. 1 \in 1 .. Len(c)
  BY <1>3
<1>5. circuit[p] # 0 /\ \A l \in 1 .. Len(c) : IsMT(c[l]) => l < 1
  BY <1>1, <1>2, <1>4 DEF OrderOK
<1>6. NoMT(c)
  BY <1>3, <1>5 DEF NoMT
<1>7. t # <<>>
  BY <1>1, <1>2, <1>5
<1>8. t[1].op \in {"wait", "garble"} /\ Last(t).op = "online"
  BY <1>1, <1>2, <1>5, <1>7 DEF MayFollow
<1>9. \A k \in 1 .. Len(t) : ~ IsMT(t[k])
  <2>1. ASSUME NEW k \in 1 .. Len(t) PROVE ~ IsMT(t[k])
    <3>1. k+1 \in 1 .. Len(c) /\ t[k] = c[k+1]
      BY <1>3
    <3> QED BY <1>6, <3>1 DEF NoMT
  <2> QED BY <2>1
<1>10. c[1] \in Garbling
  BY <1>1, <1>2, CallIs
<1> HIDE DEF c, t
<1>11. Rest(t)
  BY <1>2, <1>7, <1>8, <1>9 DEF Rest, Last
<1> QED BY <1>2, <1>5, <1>6, <1>10, <1>11 DEF c, t

(***************************************************************************)
(* The types.                                                              *)
(***************************************************************************)

LEMMA MainTypes ==
    ASSUME TInv, NEW p \in Party, Main(p)
    PROVE  TypeOK'
<1>0. TypeOK /\ OrderOK(p) /\ MainOK(p)
  BY DEF TInv, ThreadsOK
<1> DEFINE c == calls[p]
           t == Tail(c)
<1>1. /\ c \in Seq(Call)
      /\ c # <<>> => Head(c) \in Call /\ t \in Seq(Call)
  BY <1>0, CallsAre DEF Chain
<1>2. CASE PrepareSharings(p)
  <2> DEFINE k == Circuits[circuit[p] + 1]
  <2>1. circuit[p] + 1 \in 0 .. Len(Circuits) /\ k \in Circuit
    <3>1. circuit[p] \in 0 .. Len(Circuits) /\ circuit[p] < Len(Circuits)
      BY <1>0, <1>2 DEF TypeOK, PrepareSharings, Returned
    <3> QED BY <3>1, CircuitsAre
  <2>2. ExecCircuit(p, k) \in Seq(Call)
    BY <2>1, ExecCircuitWhole DEF Whole, Chain
  <2>3. k.muls \in Nat
    BY <2>1 DEF Circuit
  <2>4. ASSUME NEW j \in Queue PROVE tasks[p][j] \o OTTasks(p, k, j) \in Seq(OTTask)
    <3>1. tasks[p][j] \in Seq(OTTask)
      BY <1>0 DEF TypeOK
    <3>2. \A s \in Sharing : \A b \in BOOLEAN : <<[sharing |-> s, sends |-> b]>> \in Seq(OTTask)
      BY DEF OTTask
    <3> DEFINE b0 == IF k.bool THEN <<[sharing |-> "S_BOOL", sends |-> (j = Role(p))]>> ELSE <<>>
               b1 == IF Used(k.yao) /\ j = QueueOf("S_YAO")
                     THEN <<[sharing |-> "S_YAO", sends |-> (p = Garbler("S_YAO"))]>> ELSE <<>>
               b2 == IF k.muls > 0 /\ MTGenAlg = "MT_OT"
                     THEN <<[sharing |-> "S_ARITH", sends |-> (j = Role(p))]>> ELSE <<>>
               b3 == IF Used(k.rev) /\ j = QueueOf("S_YAO_REV")
                     THEN <<[sharing |-> "S_YAO_REV", sends |-> (p = Garbler("S_YAO_REV"))]>> ELSE <<>>
    <3>3. b0 \in Seq(OTTask) /\ b1 \in Seq(OTTask) /\ b2 \in Seq(OTTask) /\ b3 \in Seq(OTTask)
      <4>1. "S_BOOL" \in Sharing /\ "S_YAO" \in Sharing /\ "S_ARITH" \in Sharing /\ "S_YAO_REV" \in Sharing
        BY DEF Sharing
      <4>2. (j = Role(p)) \in BOOLEAN /\ (p = Garbler("S_YAO")) \in BOOLEAN /\ (p = Garbler("S_YAO_REV")) \in BOOLEAN
        OBVIOUS
      <4>3. <<>> \in Seq(OTTask)
        OBVIOUS
      <4> QED BY <3>2, <4>1, <4>2, <4>3
    <3>4. OTTasks(p, k, j) = b0 \o b1 \o b2 \o b3
      BY DEF OTTasks
    <3> HIDE DEF b0, b1, b2, b3
    <3> QED BY <3>1, <3>3, <3>4
  <2> HIDE DEF k
  <2>5. circuit' \in [Party -> 0 .. Len(Circuits)]
    BY <1>0, <1>2, <2>1 DEF TypeOK, PrepareSharings
  <2>6. calls' \in [Party -> Seq(Call)]
    BY <1>0, <1>2, <2>2 DEF TypeOK, PrepareSharings, k
  <2>7. tasks' \in [Party -> [Queue -> Seq(OTTask)]]
    <3>1. tasks' = [tasks EXCEPT ![p] = [j \in Queue |-> tasks[p][j] \o OTTasks(p, k, j)]]
      BY <1>2 DEF PrepareSharings, k
    <3> QED BY <1>0, <2>4, <3>1 DEF TypeOK
  <2>8. pktask' \in [Party -> Nat] /\ made' \in [Party -> SUBSET [mt : Nat, own : BOOLEAN, by : Thread]]
    BY <1>0, <1>2, <2>3 DEF TypeOK, PrepareSharings, k
  <2> QED BY <1>0, <1>2, <2>5, <2>6, <2>7, <2>8 DEF TypeOK, PrepareSharings
<1>3. CASE Garble(p)
  <2> DEFINE g == Head(c)
             n == (IF g.gate < Len(g.need.ands) THEN EvaluateANDGate(g) ELSE SendRest(g)) \o t
  <2>1. g \in Garbling /\ Rest(t)
    BY <1>0, <1>3, CallsGarble DEF Garble, Calls, HeadIs
  <2>2. n \in Seq(Call)
    BY <2>1, RestGarble DEF Rest, Chain
  <2>3. calls' = [calls EXCEPT ![p] = n]
    BY <1>3 DEF Garble
  <2> HIDE DEF n
  <2>4. calls' \in [Party -> Seq(Call)]
    BY <1>0, <2>2, <2>3 DEF TypeOK
  <2>5. UNCHANGED <<circuit, main, woken, working, evt, worker, workerEvt, job, tasks, pktask,
                   sndtask, rcvtask, made, outbox, wire>>
    BY <1>3 DEF Garble
  <2> QED BY <1>0, <2>4, <2>5 DEF TypeOK
<1>4. CASE WakeupWorkerThreads(p)
  <2>1. ThreadsFor(Head(c).job) \in Nat
    BY <1>1, <1>4, CallIs, ThreadsAre DEF WakeupWorkerThreads, Calls
  <2> QED BY <1>0, <1>4, <2>1 DEF TypeOK, WakeupWorkerThreads
<1>5. CASE PutJob(p)
  <2>1. /\ main[p] = "wake" /\ c # <<>> /\ Head(c).op = "wake" /\ woken[p] < ThreadsFor(Head(c).job)
    BY <1>0, <1>5 DEF PutJob, MainOK, HeadIs
  <2>2. Head(c).job \in Job /\ t \in Seq(Call)
    BY <1>1, <2>1, CallIs
  <2>3. woken[p] \in Nat
    BY <1>0 DEF TypeOK
  <2>4. woken[p] \in Thread
    <3>1. ThreadsFor(Head(c).job) \in Nat /\ ThreadsFor(Head(c).job) <= 2 * NumOTThreads /\ NumOTThreads \in Nat
      BY <2>2, ThreadsAre
    <3>2. woken[p] < 2 * NumOTThreads
      BY <2>1, <2>3, <3>1
    <3> QED BY <2>3, <3>2, ThreadsAre
  <2> DEFINE e == Head(c).job
             i == woken[p]
  <2>5. /\ job' = [job EXCEPT ![p][i] = e]
        /\ workerEvt' = [workerEvt EXCEPT ![p][i] = TRUE]
        /\ woken' = [woken EXCEPT ![p] = i + 1]
        /\ \/ calls' = calls /\ main' = main
           \/ calls' = [calls EXCEPT ![p] = t] /\ main' = [main EXCEPT ![p] = "next"]
        /\ UNCHANGED <<circuit, working, evt, worker, tasks, pktask, sndtask, rcvtask, made, outbox, wire>>
    BY <1>5 DEF PutJob, Return
  <2> HIDE DEF e, i, c, t
  <2>6. job' \in [Party -> [Thread -> Job \cup {"undefined"}]] /\ workerEvt' \in [Party -> [Thread -> BOOLEAN]]
        /\ woken' \in [Party -> Nat]
    BY <1>0, <2>2, <2>3, <2>4, <2>5 DEF TypeOK, e, i
  <2>7. calls' \in [Party -> Seq(Call)] /\ main' \in [Party -> {"next", "wake", "block"}]
    <3>1. calls \in [Party -> Seq(Call)] /\ main \in [Party -> {"next", "wake", "block"}]
      BY <1>0 DEF TypeOK
    <3>2. CASE calls' = calls /\ main' = main
      BY <3>1, <3>2
    <3>3. CASE calls' = [calls EXCEPT ![p] = t] /\ main' = [main EXCEPT ![p] = "next"]
      BY <2>2, <3>1, <3>3
    <3> QED BY <2>5, <3>2, <3>3
  <2> QED BY <1>0, <2>5, <2>6, <2>7 DEF TypeOK
<1>6. CASE NoneWorking(p)
  <2>1. t \in Seq(Call) /\ calls' = [calls EXCEPT ![p] = t]
    BY <1>1, <1>6 DEF NoneWorking, Calls, Return
  <2> HIDE DEF t
  <2> QED BY <1>0, <1>6, <2>1 DEF TypeOK, NoneWorking
<1>7. CASE SomeWorking(p)
  BY <1>0, <1>7 DEF TypeOK, SomeWorking
<1>8. CASE WaitEvent(p)
  BY <1>0, <1>8 DEF TypeOK, WaitEvent, ReadAgain
<1>9. CASE SetSendTask(p)
  <2>1. t \in Seq(Call) /\ calls' = [calls EXCEPT ![p] = t] /\ Head(c).data \in Bytes
    BY <1>1, <1>9, CallIs DEF SetSendTask, Calls, Return
  <2> HIDE DEF t
  <2> QED BY <1>0, <1>9, <2>1 DEF TypeOK, SetSendTask
<1>10. CASE SetReceiveTask(p)
  <2>1. t \in Seq(Call) /\ calls' = [calls EXCEPT ![p] = t] /\ Head(c).data \in Bytes
    BY <1>1, <1>10, CallIs DEF SetReceiveTask, Calls, Return
  <2> HIDE DEF t
  <2> QED BY <1>0, <1>10, <2>1 DEF TypeOK, SetReceiveTask
<1>11. CASE SendKey(p)
  <2>1. t \in Seq(Call) /\ calls' = [calls EXCEPT ![p] = t]
    BY <1>1, <1>11 DEF SendKey, Calls, Return
  <2>2. outbox' = [outbox EXCEPT ![p] = Append(@, [data |-> Key, raise |-> FALSE])]
    BY <1>11 DEF SendKey, Key
  <2>3. [data |-> Key, raise |-> FALSE] \in [data : Bytes, raise : BOOLEAN]
    BY KeyIs
  <2> DEFINE x == [data |-> Key, raise |-> FALSE]
             X == [data : Bytes, raise : BOOLEAN]
  <2>4. outbox \in [Party -> Seq(X)] /\ x \in X
    BY <1>0, <2>3 DEF TypeOK
  <2> HIDE DEF x, X
  <2>5. outbox' \in [Party -> Seq(X)]
    BY <2>2, <2>4 DEF x
  <2> HIDE DEF t
  <2> QED BY <1>0, <1>11, <2>1, <2>5 DEF TypeOK, SendKey, X
<1>12. CASE ReceiveKey(p)
  <2>1. t \in Seq(Call) /\ calls' = [calls EXCEPT ![p] = t]
    BY <1>1, <1>12 DEF ReceiveKey, Calls, Return
  <2> DEFINE w == wire[Peer(p)]
  <2>2. Peer(p) \in Party
    BY PeerIs
  <2>3. w \in Bytes /\ w # <<>>
    BY <1>0, <1>12, <2>2 DEF TypeOK, ReceiveKey
  <2>4. wire' = [wire EXCEPT ![Peer(p)] = Tail(w)]
    BY <1>12 DEF ReceiveKey
  <2> HIDE DEF t, w
  <2>5. Tail(w) \in Bytes
    BY <2>3 DEF Bytes
  <2> QED BY <1>0, <1>12, <2>1, <2>4, <2>5 DEF TypeOK, ReceiveKey
<1>13. CASE Online(p)
  <2>1. t \in Seq(Call) /\ calls' = [calls EXCEPT ![p] = t]
    BY <1>1, <1>13 DEF Online, Calls, Return
  <2> HIDE DEF t
  <2>2. tasks' \in [Party -> [Queue -> Seq(OTTask)]] /\ pktask' \in [Party -> Nat]
    BY <1>0, <1>13 DEF TypeOK, Online
  <2> QED BY <1>0, <1>13, <2>1, <2>2 DEF TypeOK, Online
<1> QED BY <1>2, <1>3, <1>4, <1>5, <1>6, <1>7, <1>8, <1>9, <1>10, <1>11, <1>12, <1>13 DEF Main

Busies(p) == {i \in Thread : Busy(p, i)}

LEMMA BusiesAre ==
    ASSUME NEW p \in Party
    PROVE  /\ IsFiniteSet(Busies(p)) /\ Cardinality(Busies(p)) \in Nat
           /\ Cardinality(Busies(p)) = 0 <=> \A i \in Thread : ~ Busy(p, i)
<1>1. IsFiniteSet(Busies(p))
  BY ThreadsAre, FS_Subset DEF Busies
<1>2. Cardinality(Busies(p)) \in Nat /\ (Cardinality(Busies(p)) = 0 <=> Busies(p) = {})
  BY <1>1, FS_CardinalityType, FS_EmptySet
<1> QED BY <1>1, <1>2 DEF Busies

\* The counter of workers, read by a main thread that is not in PutJobs, is 0
\* just if no thread is busy.
LEMMA WorkingIs ==
    ASSUME TypeOK, NEW p \in Party, ThreadsOK(p)
    PROVE  /\ working[p] \in Nat /\ working[p] = Cardinality(Busies(p)) + ToWake(p) /\ ToWake(p) \in Nat
           /\ main[p] # "wake" => ToWake(p) = 0
           /\ main[p] # "wake" /\ working[p] = 0 => \A i \in Thread : ~ Busy(p, i)
           /\ \A i \in Thread : Busy(p, i) => working[p] > 0
<1>1. working[p] \in Nat /\ working[p] = Cardinality(Busies(p)) + ToWake(p)
  BY DEF TypeOK, ThreadsOK, CounterOK, Busies
<1>2. ToWake(p) \in Nat
  <2>1. CASE main[p] = "wake"
    <3>1. calls[p] # <<>> /\ Head(calls[p]).op = "wake" /\ woken[p] < ThreadsFor(Head(calls[p]).job)
      BY <2>1 DEF ThreadsOK, MainOK, HeadIs
    <3>2. Head(calls[p]) \in Call
      BY <3>1, CallsAre DEF ThreadsOK
    <3>3. ThreadsFor(Head(calls[p]).job) \in Nat
      BY <3>1, <3>2, CallIs, ThreadsAre
    <3>4. woken[p] \in Nat
      BY DEF TypeOK
    <3> QED BY <2>1, <3>1, <3>3, <3>4 DEF ToWake
  <2>2. CASE main[p] # "wake"
    BY <2>2 DEF ToWake
  <2> QED BY <2>1, <2>2
<1>3. main[p] # "wake" => ToWake(p) = 0
  BY DEF ToWake
<1>4. Cardinality(Busies(p)) \in Nat /\ (Cardinality(Busies(p)) = 0 <=> \A i \in Thread : ~ Busy(p, i))
  BY BusiesAre
<1> QED BY <1>1, <1>2, <1>3, <1>4

LEMMA WorkerTypes ==
    ASSUME TInv, NEW p \in Party, NEW i \in Thread, Worker(p, i)
    PROVE  TypeOK'
<1>0. TypeOK /\ ThreadsOK(p) /\ JobsOK(p)
  BY DEF TInv, ThreadsOK
<1>1. CASE TakeJob(p, i)
  <2>1. job[p][i] \in Job
    BY <1>0, <1>1 DEF TakeJob, JobsOK
  <2> QED BY <1>0, <1>1, <2>1 DEF TypeOK, TakeJob, Go
<1>2. CASE IKNPDone(p, i)
  BY <1>0, <1>2 DEF TypeOK, IKNPDone, Go
<1>3. CASE SendData(p, i)
  <2> DEFINE x == [data |-> sndtask[p], raise |-> TRUE]
             X == [data : Bytes, raise : BOOLEAN]
  <2>1. outbox \in [Party -> Seq(X)] /\ x \in X /\ outbox' = [outbox EXCEPT ![p] = Append(@, x)]
    BY <1>0, <1>3 DEF TypeOK, SendData
  <2> HIDE DEF x, X
  <2>2. outbox' \in [Party -> Seq(X)]
    BY <2>1
  <2> QED BY <1>0, <1>3, <2>2 DEF TypeOK, SendData, Go, X
<1>4. CASE SendDone(p, i)
  BY <1>0, <1>4 DEF TypeOK, SendDone, Go
<1>5. CASE ReceiveData(p, i)
  <2> DEFINE w == wire[Peer(p)]
             n == Len(rcvtask[p])
  <2>1. Peer(p) \in Party
    BY PeerIs
  <2>2. w \in Bytes /\ Len(w) >= n /\ n \in Nat
    BY <1>0, <1>5, <2>1 DEF TypeOK, ReceiveData, Bytes
  <2>3. wire' = [wire EXCEPT ![Peer(p)] = SubSeq(w, n + 1, Len(w))]
    BY <1>5 DEF ReceiveData
  <2> HIDE DEF w, n
  <2>4. SubSeq(w, n + 1, Len(w)) \in Bytes
    BY <2>2 DEF Bytes
  <2>5. wire' \in [Party -> Bytes]
    BY <1>0, <2>3, <2>4 DEF TypeOK
  <2> QED BY <1>0, <1>5, <2>5 DEF TypeOK, ReceiveData, Go
<1>6. CASE Notify(p, i)
  <2>1. working[p] - 1 \in Nat
    <3>1. Busy(p, i)
      BY <1>6 DEF Notify, At, Busy
    <3> QED BY <1>0, <3>1, WorkingIs
  <2> QED BY <1>0, <1>6, <2>1 DEF TypeOK, Notify, Go
<1>7. CASE RaiseEvent(p, i)
  BY <1>0, <1>7 DEF TypeOK, RaiseEvent, Go
<1> QED BY <1>1, <1>2, <1>3, <1>4, <1>5, <1>6, <1>7 DEF Worker

LEMMA TransmitTypes ==
    ASSUME TypeOK, NEW p \in Party, Transmit(p)
    PROVE  TypeOK'
<1> DEFINE X == [data : Bytes, raise : BOOLEAN]
           o == outbox[p]
           x == Head(o)
<1>1. o \in Seq(X) /\ o # <<>> /\ outbox \in [Party -> Seq(X)]
  BY DEF TypeOK, Transmit
<1>2. x \in X /\ Tail(o) \in Seq(X)
  <2> HIDE DEF X, o
  <2> QED BY <1>1
<1>3. x.data \in Bytes /\ x.raise \in BOOLEAN
  BY <1>2
<1>4. outbox' = [outbox EXCEPT ![p] = Tail(o)] /\ wire' = [wire EXCEPT ![p] = @ \o x.data]
  BY DEF Transmit
<1>5. workerEvt' = [workerEvt EXCEPT ![p][0] = workerEvt[p][0] \/ x.raise]
  BY DEF Transmit
<1> HIDE DEF X, o, x
<1>6. outbox' \in [Party -> Seq(X)]
  BY <1>1, <1>2, <1>4
<1>7. wire' \in [Party -> Bytes]
  <2>1. wire \in [Party -> Bytes]
    BY DEF TypeOK
  <2>2. wire[p] \o x.data \in Bytes
    BY <1>3, <2>1 DEF Bytes
  <2> QED BY <1>4, <2>1, <2>2
<1>8. workerEvt' \in [Party -> [Thread -> BOOLEAN]]
  <2>1. workerEvt \in [Party -> [Thread -> BOOLEAN]] /\ 0 \in Thread
    BY ThreadsAre DEF TypeOK
  <2>2. (workerEvt[p][0] \/ x.raise) \in BOOLEAN
    OBVIOUS
  <2> QED BY <1>5, <2>1, <2>2
<1>9. UNCHANGED <<circuit, calls, main, woken, working, evt, worker, job, tasks, pktask, sndtask,
                  rcvtask, made>>
  BY DEF Transmit
<1> QED BY <1>6, <1>7, <1>8, <1>9 DEF TypeOK, X

LEMMA BaseOTsTypes ==
    ASSUME TypeOK, NEW p \in Party, BaseOTs(p)
    PROVE  TypeOK'
BY PeerIs, ThreadsAre DEF TypeOK, BaseOTs

LEMMA IKNPTypes ==
    ASSUME TypeOK, NEW p \in Party, IKNPOTs(p)
    PROVE  TypeOK'
<1> DEFINE q == Peer(p)
           j == QueueFor(p, Snd)
           k == QueueFor(q, Rcv)
           a == tasks[p][j]
           b == tasks[q][k]
<1>1. q \in Party /\ q # p /\ j \in Queue /\ k \in Queue
  BY PeerIs DEF QueueFor, Queue, Snd, Rcv
<1>2. a \in Seq(OTTask) /\ b \in Seq(OTTask) /\ a # <<>> /\ b # <<>>
  BY <1>1 DEF TypeOK, IKNPOTs, TaskOf
<1>3. tasks' = [tasks EXCEPT ![p][j] = Tail(a), ![q][k] = Tail(b)]
  BY <1>1 DEF IKNPOTs
<1>4. tasks \in [Party -> [Queue -> Seq(OTTask)]]
  BY DEF TypeOK
<1> HIDE DEF q, j, k, a, b
<1>5. Tail(a) \in Seq(OTTask) /\ Tail(b) \in Seq(OTTask)
  BY <1>2
<1>6. tasks' \in [Party -> [Queue -> Seq(OTTask)]]
  BY <1>1, <1>3, <1>4, <1>5
<1> QED BY <1>6 DEF TypeOK, IKNPOTs

LEMMA PaillierTypes ==
    ASSUME TypeOK, NEW i \in Thread, PaillierMTs(i)
    PROVE  TypeOK'
<1>1. ASSUME NEW p \in Party PROVE MadeBy(p, pktask[p], i) \in SUBSET [mt : Nat, own : BOOLEAN, by : Thread]
  <2>1. pktask[p] \in Nat
    BY DEF TypeOK
  <2>2. ASSUME NEW s \in BOOLEAN, NEW h \in Half(pktask[p], i, s) PROVE h.mt \in Nat
    <3> DEFINE n == pktask[p]
               start == MyStart(n, i) + (IF s THEN MyNumMTs(n, i) \div 2 ELSE 0)
               size == (MyNumMTs(n, i) + 1) \div 2
    <3>1. MyNumMTs(n, i) \in Nat /\ MyStart(n, i) \in Nat
      BY <2>1, ThreadsAre, PairsAre, MyStartIs
    <3>2. h \in {[mt |-> k, second |-> s] : k \in start .. start + size - 1}
      BY DEF Half
    <3>3. start \in Nat
      BY <3>1
    <3> HIDE DEF start, size
    <3> QED BY <3>2, <3>3
  <2>3. ASSUME NEW x \in MadeBy(p, pktask[p], i) PROVE x \in [mt : Nat, own : BOOLEAN, by : Thread]
    <3>1. PICK h \in Half(pktask[p], i, FALSE) \cup Half(pktask[p], i, TRUE) :
            x = [mt |-> h.mt, own |-> (h.second = (p = "CLIENT")), by |-> i]
      BY DEF MadeBy
    <3>2. h.mt \in Nat
      BY <2>2
    <3>3. (h.second = (p = "CLIENT")) \in BOOLEAN
      OBVIOUS
    <3> QED BY <3>1, <3>2, <3>3
  <2> QED BY <2>3
<1>2. made' = [p \in Party |-> made[p] \cup MadeBy(p, pktask[p], i)]
  BY DEF PaillierMTs, MadeBy
<1>3. made \in [Party -> SUBSET [mt : Nat, own : BOOLEAN, by : Thread]]
  BY DEF TypeOK
<1>4. made' \in [Party -> SUBSET [mt : Nat, own : BOOLEAN, by : Thread]]
  BY <1>1, <1>2, <1>3
<1>5. worker' \in [Party -> [Thread -> Job \cup {"idle", "sending", "notify", "raise"}]]
  BY DEF TypeOK, PaillierMTs
<1> QED BY <1>4, <1>5 DEF TypeOK, PaillierMTs

LEMMA NextTypes ==
    ASSUME TInv, [Next]_vars
    PROVE  TypeOK'
<1>0. TypeOK
  BY DEF TInv
<1>1. CASE UNCHANGED vars
  BY <1>0, <1>1 DEF TypeOK, vars
<1>2. CASE Next
  BY <1>0, <1>2, MainTypes, WorkerTypes, TransmitTypes, BaseOTsTypes, IKNPTypes, PaillierTypes DEF Next
<1> QED BY <1>1, <1>2

LEMMA InitTypes == ASSUME Init PROVE TypeOK
<1>1. ConnectAndBaseOTs \in Seq(Call)
  BY FirstCalls DEF Chain
<1>2. Len(Circuits) \in Nat
  BY CircuitsAre
<1> QED BY <1>1, <1>2, NoBytes DEF Init, TypeOK

(***************************************************************************)
(* The threads' invariant.                                                 *)
(***************************************************************************)

LEMMA OrderSame ==
    ASSUME NEW p \in Party, OrderOK(p), calls'[p] = calls[p], circuit'[p] = circuit[p]
    PROVE  OrderOK(p)'
BY DEF OrderOK

LEMMA CountSame ==
    ASSUME NEW p \in Party, CounterOK(p), MainOK(p),
           calls'[p] = calls[p], main'[p] = main[p], woken'[p] = woken[p], working'[p] = working[p],
           \A i \in Thread : Busy(p, i)' <=> Busy(p, i)
    PROVE  CounterOK(p)' /\ MainOK(p)'
<1>1. {i \in Thread : Busy(p, i)}' = {i \in Thread : Busy(p, i)}
  OBVIOUS
<1>2. ToWake(p)' = ToWake(p)
  BY DEF ToWake
<1>3. CounterOK(p)'
  BY <1>1, <1>2 DEF CounterOK
<1>4. \A op : HeadIs(p, op)' <=> HeadIs(p, op)
  BY DEF HeadIs
<1> QED BY <1>3, <1>4 DEF MainOK

LEMMA JobsSame ==
    ASSUME NEW p \in Party, JobsOK(p),
           worker'[p] = worker[p], workerEvt'[p] = workerEvt[p], job'[p] = job[p], outbox'[p] = outbox[p]
    PROVE  JobsOK(p)'
<1>1. Raises(p)' = Raises(p)
  BY DEF Raises
<1> QED BY <1>1 DEF JobsOK

\* A party no thread of which takes a step.
SameThreads(p) ==
    /\ circuit'[p] = circuit[p] /\ calls'[p] = calls[p] /\ main'[p] = main[p]
    /\ woken'[p] = woken[p] /\ working'[p] = working[p]
    /\ worker'[p] = worker[p] /\ workerEvt'[p] = workerEvt[p] /\ job'[p] = job[p]
    /\ outbox'[p] = outbox[p]

LEMMA ThreadsSame ==
    ASSUME NEW p \in Party, ThreadsOK(p), SameThreads(p)
    PROVE  ThreadsOK(p)'
<1>1. \A i \in Thread : Busy(p, i)' <=> Busy(p, i)
  BY DEF Busy, SameThreads
<1> QED BY <1>1, OrderSame, CountSame, JobsSame DEF ThreadsOK, SameThreads

\* The counter and the main thread after a step of the main thread that needs
\* no thread to be busy.
LEMMA NoneBusy ==
    ASSUME TypeOK, NEW p \in Party, ThreadsOK(p), main[p] = "next", main'[p] = "next",
           \A i \in Thread : ~ Busy(p, i),
           working'[p] = working[p], worker'[p] = worker[p], workerEvt'[p] = workerEvt[p]
    PROVE  CounterOK(p)' /\ MainOK(p)'
<1>1. \A i \in Thread : Busy(p, i)' <=> Busy(p, i)
  BY DEF Busy
<1>2. {i \in Thread : Busy(p, i)}' = {i \in Thread : Busy(p, i)}
  BY <1>1
<1>3. ToWake(p) = 0 /\ ToWake(p)' = 0
  BY DEF ToWake
<1>4. CounterOK(p)'
  BY <1>2, <1>3 DEF CounterOK, ThreadsOK
<1> QED BY <1>1, <1>4 DEF MainOK

LEMMA ReturnOrder ==
    ASSUME TypeOK, NEW p \in Party, OrderOK(p), calls[p] # <<>>,
           calls'[p] = Tail(calls[p]), circuit'[p] = circuit[p]
    PROVE  OrderOK(p)'
<1> DEFINE c == calls[p]
           t == Tail(c)
<1>1. /\ Chain(c) /\ c \in Seq(Call)
      /\ Last(c).op \in (IF circuit[p] = 0 THEN {"wait", "rcvkey"} ELSE {"online"})
  BY CallsAre
<1>2. /\ Chain(t) /\ Len(t) = Len(c) - 1 /\ Len(c) \in Nat \ {0}
      /\ \A k \in 1 .. Len(t) : t[k] = c[k+1]
      /\ t # <<>> => Last(t) = Last(c)
  BY <1>1, ChainTail
<1>3. \A k \in 1 .. Len(t) : k+1 \in 1 .. Len(c) /\ t[k] = c[k+1]
  BY <1>2
<1>4. \A k, l \in 1 .. Len(c) : c[k].op = "garble" /\ IsMT(c[l]) => l < k
  BY DEF OrderOK
<1>5. circuit[p] = 0 => \A k \in 1 .. Len(c) : c[k].op # "garble" /\ ~ IsMT(c[k])
  BY DEF OrderOK
<1>6. calls'[p] = t
  OBVIOUS
<1> HIDE DEF t, c
<1>7. ASSUME NEW k \in 1 .. Len(t), NEW l \in 1 .. Len(t), t[k].op = "garble", IsMT(t[l]) PROVE l < k
  <2>1. l + 1 < k + 1
    BY <1>3, <1>4, <1>7
  <2> QED BY <2>1
<1>8. circuit[p] = 0 => \A k \in 1 .. Len(t) : t[k].op # "garble" /\ ~ IsMT(t[k])
  BY <1>3, <1>5
<1> QED BY <1>1, <1>2, <1>6, <1>7, <1>8 DEF OrderOK, Chain, Last

\* The main thread, where it makes a call that needs no thread to be busy.
LEMMA ReturnThreads ==
    ASSUME TypeOK, NEW p \in Party, ThreadsOK(p), main[p] = "next", main'[p] = "next",
           \A i \in Thread : ~ Busy(p, i), calls[p] # <<>>, calls'[p] = Tail(calls[p]),
           circuit'[p] = circuit[p], working'[p] = working[p],
           worker'[p] = worker[p], workerEvt'[p] = workerEvt[p]
    PROVE  OrderOK(p)' /\ CounterOK(p)' /\ MainOK(p)'
BY NoneBusy, ReturnOrder DEF ThreadsOK

LEMMA PrepareThreads ==
    ASSUME TypeOK, NEW p \in Party, ThreadsOK(p), PrepareSharings(p)
    PROVE  ThreadsOK(p)'
<1> DEFINE k == Circuits[circuit[p] + 1]
           l == ExecCircuit(p, k)
<1>1. main[p] = "next" /\ calls[p] = <<>> /\ circuit[p] < Len(Circuits) /\ circuit[p] \in 0 .. Len(Circuits)
  BY DEF PrepareSharings, Returned, TypeOK
<1>2. k \in Circuit
  BY <1>1, CircuitsAre
<1>3. Whole(l)
  BY <1>2, ExecCircuitWhole
<1>4. circuit'[p] = circuit[p] + 1 /\ circuit'[p] # 0
  BY <1>1 DEF PrepareSharings, TypeOK
<1>5. calls'[p] = l
  BY DEF PrepareSharings, TypeOK
<1> HIDE DEF k, l
<1>6. \A i \in Thread : ~ Busy(p, i)
  BY <1>1 DEF ThreadsOK, MainOK, HeadIs
<1>7. OrderOK(p)'
  <2>1. Chain(l) /\ Last(l).op = "online" /\ OneMT(l)
    BY <1>3 DEF Whole
  <2> QED BY <1>4, <1>5, <2>1 DEF OrderOK, Chain, Last, OneMT
<1>8. CounterOK(p)' /\ MainOK(p)'
  BY <1>1, <1>6, NoneBusy DEF PrepareSharings
<1>9. JobsOK(p)'
  BY JobsSame DEF PrepareSharings, ThreadsOK
<1> QED BY <1>7, <1>8, <1>9 DEF ThreadsOK

LEMMA GarbleThreads ==
    ASSUME TypeOK, NEW p \in Party, ThreadsOK(p), Garble(p)
    PROVE  ThreadsOK(p)'
<1> DEFINE g == Head(calls[p])
           t == Tail(calls[p])
           n == (IF g.gate < Len(g.need.ands) THEN EvaluateANDGate(g) ELSE SendRest(g)) \o t
<1>1. main[p] = "next" /\ HeadIs(p, "garble")
  BY DEF Garble, Calls, HeadIs
<1>2. g \in Garbling /\ Rest(t) /\ circuit[p] # 0
  BY <1>1, CallsGarble DEF ThreadsOK
<1>3. Rest(n)
  BY <1>2, RestGarble
<1>4. calls'[p] = n
  BY DEF Garble, TypeOK
<1> HIDE DEF n
<1>5. UNCHANGED <<circuit, main, woken, working, worker, workerEvt, job, outbox>>
  BY DEF Garble
<1>6. OrderOK(p)'
  BY <1>2, <1>3, <1>4, <1>5 DEF Rest, Chain, OrderOK
<1>7. HeadIs(p, "wait")' \/ HeadIs(p, "garble")'
  <2>1. n \in Seq(Call) /\ n # <<>> /\ n[1].op \in {"wait", "garble"}
    BY <1>3 DEF Rest, Chain
  <2>2. Head(n) = n[1]
    BY <2>1
  <2> QED BY <1>4, <2>1, <2>2 DEF HeadIs
<1>8. MainOK(p)'
  BY <1>1, <1>5, <1>7 DEF MainOK
<1>9. CounterOK(p)'
  <2>1. {i \in Thread : Busy(p, i)}' = {i \in Thread : Busy(p, i)}
    BY <1>5 DEF Busy
  <2>2. ToWake(p) = 0 /\ ToWake(p)' = 0
    BY <1>1, <1>5 DEF ToWake
  <2> QED BY <1>5, <2>1, <2>2 DEF CounterOK, ThreadsOK
<1>10. JobsOK(p)'
  BY <1>5, JobsSame DEF ThreadsOK
<1> QED BY <1>6, <1>8, <1>9, <1>10 DEF ThreadsOK

LEMMA WakeupThreads ==
    ASSUME TypeOK, NEW p \in Party, ThreadsOK(p), WakeupWorkerThreads(p)
    PROVE  ThreadsOK(p)'
<1> DEFINE e == Head(calls[p]).job
<1>1. main[p] = "next" /\ calls[p] # <<>> /\ Head(calls[p]).op = "wake"
  BY DEF WakeupWorkerThreads, Calls
<1>2. Head(calls[p]) \in Call
  BY <1>1, CallsAre DEF ThreadsOK
<1>3. ThreadsFor(e) \in Nat \ {0}
  BY <1>1, <1>2, CallIs, ThreadsAre
<1>4. \A i \in Thread : ~ Busy(p, i)
  BY <1>1 DEF ThreadsOK, MainOK, HeadIs
<1>5. working'[p] = ThreadsFor(e) /\ woken'[p] = 0 /\ main'[p] = "wake"
      /\ UNCHANGED <<circuit, calls, worker, workerEvt, job, outbox>>
  BY DEF WakeupWorkerThreads, TypeOK
<1>6. \A i \in Thread : ~ Busy(p, i)'
  BY <1>4, <1>5 DEF Busy
<1>7. CounterOK(p)'
  <2>1. Busies(p)' = {}
    BY <1>6 DEF Busies
  <2>2. Cardinality(Busies(p)') = 0
    BY <2>1, FS_EmptySet
  <2>3. ToWake(p)' = ThreadsFor(e) - 0
    BY <1>5 DEF ToWake
  <2>4. working'[p] = Cardinality(Busies(p)') + ToWake(p)'
    BY <1>3, <1>5, <2>2, <2>3
  <2> QED BY <2>4 DEF CounterOK, Busies
<1>8. MainOK(p)'
  <2>1. 0 < ThreadsFor(e)
    BY <1>3
  <2> QED BY <1>1, <1>5, <1>6, <2>1 DEF MainOK, HeadIs
<1>9. OrderOK(p)' /\ JobsOK(p)'
  BY <1>5, OrderSame, JobsSame DEF ThreadsOK
<1> QED BY <1>7, <1>8, <1>9 DEF ThreadsOK

LEMMA PutJobThreads ==
    ASSUME TypeOK, NEW p \in Party, ThreadsOK(p), PutJob(p)
    PROVE  ThreadsOK(p)'
<1> PICK i : i = woken[p]
  OBVIOUS
<1> PICK e : e = Head(calls[p]).job
  OBVIOUS
<1> DEFINE n == ThreadsFor(e)
           t == Tail(calls[p])
<1>1. /\ main[p] = "wake" /\ calls[p] # <<>> /\ Head(calls[p]).op = "wake" /\ i < n
      /\ \A k \in Thread : Busy(p, k) => k < i
  BY DEF PutJob, ThreadsOK, MainOK, HeadIs
<1>2. e \in Job
  BY <1>1, CallsAre, CallIs DEF ThreadsOK
<1>3. n \in Nat \ {0} /\ n <= 2 * NumOTThreads /\ (e \in {"Send", "Receive"} => n = 1)
  BY <1>2, ThreadsAre
<1>4. i \in Nat /\ i \in Thread
  <2>1. i \in Nat
    BY DEF TypeOK
  <2>2. i < 2 * NumOTThreads
    BY <1>1, <1>3, <2>1, ThreadsAre
  <2> QED BY <2>1, <2>2, ThreadsAre
<1>5. /\ job' = [job EXCEPT ![p][i] = e] /\ workerEvt' = [workerEvt EXCEPT ![p][i] = TRUE]
      /\ woken' = [woken EXCEPT ![p] = i + 1]
      /\ IF i + 1 = n THEN calls' = [calls EXCEPT ![p] = t] /\ main' = [main EXCEPT ![p] = "next"]
                      ELSE calls' = calls /\ main' = main
      /\ UNCHANGED <<circuit, working, worker, outbox>>
  BY DEF PutJob, Return
<1>6. /\ woken'[p] = i + 1
      /\ IF i + 1 = n THEN calls'[p] = t /\ main'[p] = "next" ELSE calls'[p] = calls[p] /\ main'[p] = "wake"
  BY <1>1, <1>5 DEF TypeOK
<1>7. /\ job'[p][i] = e /\ workerEvt'[p][i] = TRUE
      /\ \A k \in Thread : k # i => job'[p][k] = job[p][k] /\ workerEvt'[p][k] = workerEvt[p][k]
  BY <1>4, <1>5 DEF TypeOK
<1> HIDE DEF n, t
<1>8. worker[p][i] \in {"idle", "raise"} /\ ~ workerEvt[p][i] /\ ~ Busy(p, i)
  <2>1. ~ Busy(p, i)
    BY <1>1, <1>4
  <2> QED BY <2>1 DEF Busy
<1>9. Busy(p, i)' /\ \A k \in Thread : k # i => (Busy(p, k)' <=> Busy(p, k))
  BY <1>5, <1>7, <1>8 DEF Busy
<1>10. CounterOK(p)'
  <2>1. Busies(p)' = Busies(p) \cup {i} /\ i \notin Busies(p)
    BY <1>4, <1>8, <1>9 DEF Busies
  <2>2. Cardinality(Busies(p)') = Cardinality(Busies(p)) + 1
    BY <2>1, BusiesAre, FS_AddElement
  <2>3. ToWake(p) = n - i
    BY <1>1 DEF ToWake, n
  <2>4. ToWake(p)' = n - (i + 1)
    <3>1. CASE i + 1 = n
      BY <1>3, <1>4, <1>6, <3>1 DEF ToWake
    <3>2. CASE i + 1 # n
      BY <1>6, <3>2 DEF ToWake, n
    <3> QED BY <3>1, <3>2
  <2>5. working[p] = Cardinality(Busies(p)) + ToWake(p) /\ Cardinality(Busies(p)) \in Nat
    BY WorkingIs, BusiesAre
  <2> QED BY <1>3, <1>4, <1>5, <2>2, <2>3, <2>4, <2>5 DEF CounterOK, Busies
<1>11. MainOK(p)' /\ OrderOK(p)'
  <2>1. CASE i + 1 = n
    <3>1. /\ calls[p] \in Seq(Call)
          /\ Last(calls[p]).op \in {"wait", "rcvkey", "online"}
          /\ t = <<>> => Last(calls[p]) = Head(calls[p])
          /\ t # <<>> => MayFollow(Head(calls[p]), t[1]) /\ Head(t) = t[1]
      BY <1>1, CallsAre DEF ThreadsOK, t
    <3>2. t # <<>>
      BY <1>1, <3>1
    <3>3. Head(t).op \in {"wait", "garble"}
      BY <1>1, <3>1, <3>2 DEF MayFollow
    <3>4. MainOK(p)'
      BY <1>6, <2>1, <3>2, <3>3 DEF MainOK, HeadIs
    <3>5. OrderOK(p)'
      BY <1>1, <1>5, <1>6, <2>1, ReturnOrder DEF ThreadsOK, t
    <3> QED BY <3>4, <3>5
  <2>2. CASE i + 1 # n
    <3>1. i + 1 < n
      BY <1>1, <1>3, <1>4, <2>2
    <3>2. \A k \in Thread : Busy(p, k)' => k < i + 1
      <4>1. \A k \in Thread : Busy(p, k)' => k = i \/ k < i
        BY <1>1, <1>9
      <4> QED BY <1>4, <4>1, ThreadsAre
    <3>3. MainOK(p)'
      BY <1>1, <1>6, <2>2, <3>1, <3>2 DEF MainOK, HeadIs, n
    <3> QED BY <1>5, <1>6, <2>2, <3>3, OrderSame DEF ThreadsOK
  <2> QED BY <2>1, <2>2
<1>12. JobsOK(p)'
  <2>1. Raises(p)' = Raises(p)
    BY <1>5 DEF Raises
  <2>2. JobsOK(p)
    BY DEF ThreadsOK
  <2>3. e \in {"Send", "Receive"} => i = 0
    BY <1>1, <1>3, <1>4
  <2>4. ASSUME NEW k \in Thread
        PROVE  /\ worker'[p][k] \in Job \cup {"notify"} => ~ workerEvt'[p][k]
               /\ worker'[p][k] # "idle" \/ workerEvt'[p][k] => job'[p][k] \in Job
               /\ worker'[p][k] \in {"Send", "Receive", "sending"} => k = 0
               /\ workerEvt'[p][k] /\ job'[p][k] \in {"Send", "Receive"} => k = 0
    <3>1. CASE k = i
      BY <1>2, <1>5, <1>7, <1>8, <2>3, <3>1 DEF Job
    <3>2. CASE k # i
      BY <1>5, <1>7, <2>2, <3>2 DEF JobsOK
    <3> QED BY <3>1, <3>2
  <2>5. worker'[p][0] = "sending" /\ ~ workerEvt'[p][0] <=> worker[p][0] = "sending" /\ ~ workerEvt[p][0]
    BY <1>5, <1>7, <1>8, ThreadsAre
  <2> QED BY <2>1, <2>2, <2>4, <2>5 DEF JobsOK
<1> QED BY <1>10, <1>11, <1>12 DEF ThreadsOK

LEMMA SendKeyThreads ==
    ASSUME TypeOK, NEW p \in Party, ThreadsOK(p), SendKey(p)
    PROVE  ThreadsOK(p)'
<1>1. main[p] = "next" /\ calls[p] # <<>> /\ Head(calls[p]).op = "sndkey"
  BY DEF SendKey, Calls
<1>2. calls'[p] = Tail(calls[p]) /\ UNCHANGED <<circuit, main, woken, working, worker, workerEvt, job>>
  BY DEF SendKey, Return, TypeOK
<1>3. OrderOK(p)' /\ CounterOK(p)' /\ MainOK(p)'
  <2>1. \A i \in Thread : ~ Busy(p, i)
    BY <1>1 DEF ThreadsOK, MainOK, HeadIs
  <2> QED BY <1>1, <1>2, <2>1, ReturnThreads
<1>4. JobsOK(p)'
  <2> DEFINE x == [data |-> Key, raise |-> FALSE]
             X == [data : Bytes, raise : BOOLEAN]
             o == outbox[p]
  <2>1. o \in Seq(X) /\ x \in X /\ x.raise = FALSE /\ outbox'[p] = Append(o, x)
    BY KeyIs DEF TypeOK, SendKey, Key
  <2> HIDE DEF x, X
  <2>2. DOMAIN o = 1 .. Len(o) /\ DOMAIN Append(o, x) = 1 .. Len(o) + 1 /\ Len(o) \in Nat
        /\ Append(o, x)[Len(o) + 1] = x /\ \A k \in 1 .. Len(o) : Append(o, x)[k] = o[k]
    BY <2>1
  <2>3. Raises(p)' = {k \in DOMAIN Append(o, x) : Append(o, x)[k].raise}
    BY <2>1 DEF Raises
  <2>4. Raises(p) = {k \in 1 .. Len(o) : o[k].raise}
    BY <2>2 DEF Raises
  <2> HIDE DEF o
  <2>5. Raises(p)' = Raises(p)
    BY <2>1, <2>2, <2>3, <2>4
  <2> QED BY <1>2, <2>5 DEF JobsOK, ThreadsOK
<1> QED BY <1>3, <1>4 DEF ThreadsOK

LEMMA MainThreads ==
    ASSUME TypeOK, NEW p \in Party, ThreadsOK(p), Main(p)
    PROVE  ThreadsOK(p)'
<1>1. CASE SetSendTask(p) \/ SetReceiveTask(p) \/ ReceiveKey(p) \/ Online(p)
  <2>1. /\ main[p] = "next" /\ calls[p] # <<>>
        /\ Head(calls[p]).op \in {"sndtask", "rcvtask", "rcvkey", "online"}
    BY <1>1 DEF SetSendTask, SetReceiveTask, ReceiveKey, Online, Calls
  <2>2. /\ calls'[p] = Tail(calls[p])
        /\ UNCHANGED <<circuit, main, woken, working, worker, workerEvt, job, outbox>>
    BY <1>1 DEF SetSendTask, SetReceiveTask, ReceiveKey, Online, Return, TypeOK
  <2>3. \A i \in Thread : ~ Busy(p, i)
    BY <2>1 DEF ThreadsOK, MainOK, HeadIs
  <2>4. OrderOK(p)' /\ CounterOK(p)' /\ MainOK(p)'
    BY <2>1, <2>2, <2>3, ReturnThreads
  <2> QED BY <2>2, <2>4, JobsSame DEF ThreadsOK
<1>2. CASE NoneWorking(p)
  <2>1. main[p] = "next" /\ calls[p] # <<>> /\ working[p] = 0
    BY <1>2 DEF NoneWorking, Calls
  <2>2. /\ calls'[p] = Tail(calls[p])
        /\ UNCHANGED <<circuit, main, woken, working, worker, workerEvt, job, outbox>>
    BY <1>2 DEF NoneWorking, Return, TypeOK
  <2>3. \A i \in Thread : ~ Busy(p, i)
    BY <2>1, WorkingIs
  <2>4. OrderOK(p)' /\ CounterOK(p)' /\ MainOK(p)'
    BY <2>1, <2>2, <2>3, ReturnThreads
  <2> QED BY <2>2, <2>4, JobsSame DEF ThreadsOK
<1>3. CASE SomeWorking(p) \/ WaitEvent(p)
  <2>1. HeadIs(p, "wait") /\ main[p] # "wake" /\ main'[p] \in {"block", "next"}
    BY <1>3 DEF SomeWorking, WaitEvent, Calls, HeadIs, ThreadsOK, MainOK, TypeOK
  <2>2. calls'[p] = calls[p] /\ UNCHANGED <<circuit, woken, working, worker, workerEvt, job, outbox>>
    BY <1>3 DEF SomeWorking, WaitEvent, ReadAgain, TypeOK
  <2>3. Busies(p)' = Busies(p)
    BY <2>2 DEF Busies, Busy
  <2>4. CounterOK(p)'
    <3>1. ToWake(p) = 0 /\ ToWake(p)' = 0
      BY <2>1 DEF ToWake
    <3>2. working[p] = Cardinality(Busies(p)) + ToWake(p)
      BY WorkingIs
    <3>3. working'[p] = Cardinality(Busies(p)') + ToWake(p)'
      BY <2>2, <2>3, <3>1, <3>2
    <3> QED BY <3>3 DEF CounterOK, Busies
  <2>5. MainOK(p)'
    BY <2>1, <2>2 DEF MainOK, HeadIs
  <2> QED BY <2>2, <2>4, <2>5, OrderSame, JobsSame DEF ThreadsOK
<1> QED BY <1>1, <1>2, <1>3, PrepareThreads, GarbleThreads, WakeupThreads, PutJobThreads, SendKeyThreads DEF Main

LEMMA OthersThreads ==
    ASSUME TypeOK, NEW p \in Party, NEW q \in Party, q # p,
           \/ Main(p) \/ Transmit(p) \/ \E i \in Thread : Worker(p, i)
    PROVE  SameThreads(q)
<1>1. CASE Main(p)
  <2>2. calls'[q] = calls[q]
    BY <1>1 DEF TypeOK, Main, PrepareSharings, Garble, WakeupWorkerThreads, PutJob, NoneWorking, SomeWorking,
         WaitEvent, SetSendTask, SetReceiveTask, SendKey, ReceiveKey, Online, Return
  <2>3. circuit'[q] = circuit[q] /\ main'[q] = main[q] /\ woken'[q] = woken[q]
    BY <1>1 DEF TypeOK, Main, PrepareSharings, Garble, WakeupWorkerThreads, PutJob, NoneWorking, SomeWorking,
         WaitEvent, SetSendTask, SetReceiveTask, SendKey, ReceiveKey, Online
  <2>4. working'[q] = working[q] /\ worker'[q] = worker[q]
    BY <1>1 DEF TypeOK, Main, PrepareSharings, Garble, WakeupWorkerThreads, PutJob, NoneWorking, SomeWorking,
         WaitEvent, SetSendTask, SetReceiveTask, SendKey, ReceiveKey, Online
  <2>5. workerEvt'[q] = workerEvt[q] /\ job'[q] = job[q] /\ outbox'[q] = outbox[q]
    BY <1>1 DEF TypeOK, Main, PrepareSharings, Garble, WakeupWorkerThreads, PutJob, NoneWorking, SomeWorking,
         WaitEvent, SetSendTask, SetReceiveTask, SendKey, ReceiveKey, Online
  <2> QED BY <2>2, <2>3, <2>4, <2>5 DEF SameThreads
<1>2. CASE Transmit(p)
  BY <1>2 DEF TypeOK, Transmit, SameThreads
<1>3. ASSUME NEW i \in Thread, Worker(p, i) PROVE SameThreads(q)
  <2>1. UNCHANGED <<circuit, calls, main, woken, job>>
    BY <1>3 DEF Worker, TakeJob, IKNPDone, SendData, SendDone, ReceiveData, Notify, RaiseEvent
  <2>2. working'[q] = working[q] /\ outbox'[q] = outbox[q]
    BY <1>3 DEF TypeOK, Worker, TakeJob, IKNPDone, SendData, SendDone, ReceiveData, Notify, RaiseEvent
  <2>3. worker'[q] = worker[q]
    BY <1>3 DEF TypeOK, Worker, TakeJob, IKNPDone, SendData, SendDone, ReceiveData, Notify, RaiseEvent, Go
  <2>4. workerEvt'[q] = workerEvt[q]
    BY <1>3 DEF TypeOK, Worker, TakeJob, IKNPDone, SendData, SendDone, ReceiveData, Notify, RaiseEvent
  <2> QED BY <2>1, <2>2, <2>3, <2>4 DEF SameThreads
<1> QED BY <1>1, <1>2, <1>3

\* One thread's step that leaves the thread busy or not busy and raises nothing.
LEMMA JobStep ==
    ASSUME TypeOK, NEW p \in Party, ThreadsOK(p), NEW i \in Thread,
           \A k \in Thread : k # i => worker'[p][k] = worker[p][k],
           \A k \in Thread : k # i => workerEvt'[p][k] = workerEvt[p][k],
           job'[p] = job[p], outbox'[p] = outbox[p],
           worker'[p][i] \in Job \cup {"notify"} => ~ workerEvt'[p][i],
           worker'[p][i] # "idle" \/ workerEvt'[p][i] => worker[p][i] # "idle" \/ workerEvt[p][i],
           worker'[p][i] \in {"Send", "Receive", "sending"} => i = 0,
           workerEvt'[p][i] => workerEvt[p][i],
           worker[p][i] = "sending" /\ ~ workerEvt[p][i] <=> worker'[p][i] = "sending" /\ ~ workerEvt'[p][i]
    PROVE  JobsOK(p)'
<1>1. JobsOK(p)
  BY DEF ThreadsOK
<1>2. Raises(p)' = Raises(p)
  BY DEF Raises
<1>3. ASSUME NEW k \in Thread
      PROVE  /\ worker'[p][k] \in Job \cup {"notify"} => ~ workerEvt'[p][k]
             /\ worker'[p][k] # "idle" \/ workerEvt'[p][k] => job'[p][k] \in Job
             /\ worker'[p][k] \in {"Send", "Receive", "sending"} => k = 0
             /\ workerEvt'[p][k] /\ job'[p][k] \in {"Send", "Receive"} => k = 0
  <2>1. CASE k = i
    BY <1>1, <2>1 DEF JobsOK
  <2>2. CASE k # i
    <3>1. worker'[p][k] = worker[p][k] /\ workerEvt'[p][k] = workerEvt[p][k]
      BY <2>2
    <3> QED BY <1>1, <3>1 DEF JobsOK
  <2> QED BY <2>1, <2>2
<1>4. worker'[p][0] = "sending" /\ ~ workerEvt'[p][0] <=> worker[p][0] = "sending" /\ ~ workerEvt[p][0]
  <2>1. 0 \in Thread
    BY ThreadsAre
  <2>2. CASE i = 0
    BY <2>2
  <2>3. CASE i # 0
    <3>1. worker'[p][0] = worker[p][0] /\ workerEvt'[p][0] = workerEvt[p][0]
      BY <2>1, <2>3
    <3> QED BY <3>1
  <2> QED BY <2>2, <2>3
<1> QED BY <1>1, <1>2, <1>3, <1>4 DEF JobsOK

\* A step of a worker that neither ends nor begins a job.
LEMMA StaysBusy ==
    ASSUME TypeOK, NEW p \in Party, ThreadsOK(p),
           UNCHANGED <<circuit, calls, main, woken>>, working'[p] = working[p],
           \A k \in Thread : Busy(p, k)' <=> Busy(p, k)
    PROVE  OrderOK(p)' /\ CounterOK(p)' /\ MainOK(p)'
BY OrderSame, CountSame DEF ThreadsOK

LEMMA WorkerStep ==
    ASSUME TypeOK, NEW p \in Party, NEW i \in Thread, Worker(p, i)
    PROVE  /\ \A k \in Thread : k # i => worker'[p][k] = worker[p][k]
           /\ \A k \in Thread : k # i => workerEvt'[p][k] = workerEvt[p][k]
           /\ UNCHANGED <<circuit, calls, main, woken, job>>
<1>1. UNCHANGED <<circuit, calls, main, woken, job>>
  BY DEF Worker, TakeJob, IKNPDone, SendData, SendDone, ReceiveData, Notify, RaiseEvent
<1>2. \A k \in Thread : k # i => worker'[p][k] = worker[p][k]
  BY DEF TypeOK, Worker, TakeJob, IKNPDone, SendData, SendDone, ReceiveData, Notify, RaiseEvent, Go
<1>3. \A k \in Thread : k # i => workerEvt'[p][k] = workerEvt[p][k]
  BY DEF TypeOK, Worker, TakeJob, IKNPDone, SendData, SendDone, ReceiveData, Notify, RaiseEvent
<1> QED BY <1>1, <1>2, <1>3

LEMMA NotifyThreads ==
    ASSUME TypeOK, NEW p \in Party, ThreadsOK(p), NEW i \in Thread, Notify(p, i)
    PROVE  ThreadsOK(p)'
<1>1. /\ \A k \in Thread : k # i => worker'[p][k] = worker[p][k]
      /\ UNCHANGED <<circuit, calls, main, woken, job, workerEvt, outbox>>
  BY WorkerStep DEF Worker, Notify
<1>2. worker[p][i] = "notify" /\ worker'[p][i] \in {"raise", "idle"} /\ working'[p] = working[p] - 1
  BY DEF Notify, At, Go, TypeOK
<1>3. ~ workerEvt[p][i]
  BY <1>2 DEF ThreadsOK, JobsOK
<1>4. Busy(p, i) /\ ~ Busy(p, i)' /\ \A k \in Thread : k # i => (Busy(p, k)' <=> Busy(p, k))
  BY <1>1, <1>2, <1>3 DEF Busy
<1>5. Busies(p)' = Busies(p) \ {i} /\ i \in Busies(p)
  BY <1>4 DEF Busies
<1>6. Cardinality(Busies(p)') = Cardinality(Busies(p)) - 1
  BY <1>5, BusiesAre, FS_RemoveElement
<1>7. ToWake(p)' = ToWake(p) /\ ToWake(p) \in Nat
  BY <1>1, WorkingIs DEF ToWake
<1>8. CounterOK(p)'
  <2>1. working[p] = Cardinality(Busies(p)) + ToWake(p) /\ Cardinality(Busies(p)) \in Nat
    BY WorkingIs, BusiesAre
  <2>2. working'[p] = Cardinality(Busies(p)') + ToWake(p)'
    BY <1>2, <1>6, <1>7, <2>1
  <2> QED BY <2>2 DEF CounterOK, Busies
<1>9. MainOK(p)'
  <2>1. \A k \in Thread : Busy(p, k)' => Busy(p, k)
    BY <1>4
  <2>2. \A op : HeadIs(p, op)' <=> HeadIs(p, op)
    BY <1>1 DEF HeadIs
  <2> QED BY <1>1, <2>1, <2>2 DEF MainOK, ThreadsOK
<1>10. JobsOK(p)'
  BY <1>1, <1>2, <1>3, JobStep DEF Job
<1>11. OrderOK(p)'
  BY <1>1, OrderSame DEF ThreadsOK
<1> QED BY <1>8, <1>9, <1>10, <1>11 DEF ThreadsOK

LEMMA SendThreads ==
    ASSUME TypeOK, NEW p \in Party, ThreadsOK(p), NEW i \in Thread, SendData(p, i)
    PROVE  ThreadsOK(p)'
<1> DEFINE X == [data : Bytes, raise : BOOLEAN]
           x == [data |-> sndtask[p], raise |-> TRUE]
           o == outbox[p]
<1>1. /\ \A k \in Thread : k # i => worker'[p][k] = worker[p][k]
      /\ UNCHANGED <<circuit, calls, main, woken, job, workerEvt, working>>
  BY WorkerStep DEF Worker, SendData
<1>2. worker[p][i] = "Send" /\ worker'[p][i] = "sending" /\ outbox'[p] = Append(o, x)
  BY DEF SendData, At, Go, TypeOK
<1>3. JobsOK(p)
  BY DEF ThreadsOK
<1>4. i = 0 /\ ~ workerEvt[p][i]
  BY <1>2, <1>3 DEF JobsOK, Job
<1>5. o \in Seq(X) /\ x \in X /\ x.raise = TRUE
  BY DEF TypeOK
<1> HIDE DEF X, x
<1>6. /\ Len(o) \in Nat /\ DOMAIN o = 1 .. Len(o) /\ DOMAIN Append(o, x) = 1 .. Len(o) + 1
      /\ Append(o, x)[Len(o) + 1] = x /\ \A k \in 1 .. Len(o) : Append(o, x)[k] = o[k]
  BY <1>5
<1>7. Raises(p) = {}
  BY <1>2, <1>3, <1>4 DEF JobsOK
<1>8. \A k \in 1 .. Len(o) : ~ o[k].raise
  BY <1>6, <1>7 DEF Raises
<1>9. Raises(p)' = {k \in DOMAIN Append(o, x) : Append(o, x)[k].raise}
  BY <1>2 DEF Raises
<1> HIDE DEF o
<1>10. Raises(p)' = {Len(o) + 1}
  BY <1>5, <1>6, <1>8, <1>9
<1>11. ASSUME NEW k \in Thread
       PROVE  /\ worker'[p][k] \in Job \cup {"notify"} => ~ workerEvt'[p][k]
              /\ worker'[p][k] # "idle" \/ workerEvt'[p][k] => job'[p][k] \in Job
              /\ worker'[p][k] \in {"Send", "Receive", "sending"} => k = 0
              /\ workerEvt'[p][k] /\ job'[p][k] \in {"Send", "Receive"} => k = 0
  <2>1. CASE k = i
    BY <1>1, <1>2, <1>3, <1>4, <2>1 DEF JobsOK, Job
  <2>2. CASE k # i
    <3>1. worker'[p][k] = worker[p][k]
      BY <1>1, <2>2
    <3> QED BY <1>1, <1>3, <3>1 DEF JobsOK
  <2> QED BY <2>1, <2>2
<1>12. JobsOK(p)'
  <2>1. worker'[p][0] = "sending" /\ ~ workerEvt'[p][0]
    BY <1>1, <1>2, <1>4
  <2>2. Raises(p)' # {} /\ \A k, l \in Raises(p)' : k = l
    BY <1>10
  <2> QED BY <1>11, <2>1, <2>2 DEF JobsOK
<1>13. \A k \in Thread : Busy(p, k)' <=> Busy(p, k)
  BY <1>1, <1>2 DEF Busy
<1> QED BY <1>1, <1>12, <1>13, StaysBusy DEF ThreadsOK

LEMMA WorkerThreads ==
    ASSUME TypeOK, NEW p \in Party, ThreadsOK(p), NEW i \in Thread, Worker(p, i)
    PROVE  ThreadsOK(p)'
<1>0. JobsOK(p)
  BY DEF ThreadsOK
<1>1. /\ \A k \in Thread : k # i => worker'[p][k] = worker[p][k]
      /\ \A k \in Thread : k # i => workerEvt'[p][k] = workerEvt[p][k]
      /\ UNCHANGED <<circuit, calls, main, woken, job>>
  BY WorkerStep
<1>2. ASSUME TakeJob(p, i) \/ IKNPDone(p, i) \/ SendDone(p, i) \/ ReceiveData(p, i) \/ RaiseEvent(p, i)
      PROVE  ThreadsOK(p)'
  <2>1. UNCHANGED <<working, outbox>>
    BY <1>2 DEF TakeJob, IKNPDone, SendDone, ReceiveData, RaiseEvent
  <2>2. (Busy(p, i)' <=> Busy(p, i)) /\ JobsOK(p)'
    <3>1. CASE TakeJob(p, i)
      <4>1. worker[p][i] = "idle" /\ workerEvt[p][i] /\ ~ workerEvt'[p][i] /\ worker'[p][i] = job[p][i]
        BY <3>1 DEF TakeJob, At, Go, TypeOK
      <4>2. job[p][i] \in Job /\ (job[p][i] \in {"Send", "Receive"} => i = 0)
        BY <1>0, <4>1 DEF JobsOK
      <4>3. JobsOK(p)'
        BY <1>1, <2>1, <4>1, <4>2, JobStep DEF Job
      <4> QED BY <4>1, <4>2, <4>3 DEF Busy, Job
    <3>2. CASE IKNPDone(p, i)
      <4>1. worker[p][i] = "IKNPOTExt" /\ worker'[p][i] = "notify" /\ workerEvt' = workerEvt
        BY <3>2 DEF IKNPDone, At, Go, TypeOK
      <4>2. ~ workerEvt[p][i]
        BY <1>0, <4>1 DEF JobsOK, Job
      <4>3. JobsOK(p)'
        BY <1>1, <2>1, <4>1, <4>2, JobStep
      <4> QED BY <4>1, <4>3 DEF Busy
    <3>3. CASE SendDone(p, i)
      <4>1. worker[p][i] = "sending" /\ workerEvt[p][i] /\ ~ workerEvt'[p][i] /\ worker'[p][i] = "notify"
        BY <3>3 DEF SendDone, At, Go, TypeOK
      <4>2. JobsOK(p)'
        BY <1>1, <2>1, <4>1, JobStep
      <4> QED BY <4>1, <4>2 DEF Busy
    <3>4. CASE ReceiveData(p, i)
      <4>1. worker[p][i] = "Receive" /\ worker'[p][i] = "notify" /\ workerEvt' = workerEvt
        BY <3>4 DEF ReceiveData, At, Go, TypeOK
      <4>2. ~ workerEvt[p][i]
        BY <1>0, <4>1 DEF JobsOK, Job
      <4>3. JobsOK(p)'
        BY <1>1, <2>1, <4>1, <4>2, JobStep
      <4> QED BY <4>1, <4>3 DEF Busy
    <3>5. CASE RaiseEvent(p, i)
      <4>1. worker[p][i] = "raise" /\ worker'[p][i] = "idle" /\ workerEvt' = workerEvt
        BY <3>5 DEF RaiseEvent, At, Go, TypeOK
      <4>2. JobsOK(p)'
        BY <1>1, <2>1, <4>1, JobStep DEF Job
      <4> QED BY <4>1, <4>2 DEF Busy
    <3> QED BY <1>2, <3>1, <3>2, <3>3, <3>4, <3>5
  <2>3. \A k \in Thread : Busy(p, k)' <=> Busy(p, k)
    BY <1>1, <2>2 DEF Busy
  <2> QED BY <1>1, <2>1, <2>2, <2>3, StaysBusy DEF ThreadsOK
<1> QED BY <1>2, NotifyThreads, SendThreads DEF Worker

LEMMA TransmitThreads ==
    ASSUME TypeOK, NEW p \in Party, ThreadsOK(p), Transmit(p)
    PROVE  ThreadsOK(p)'
<1> DEFINE X == [data : Bytes, raise : BOOLEAN]
           o == outbox[p]
           t == Tail(o)
<1>1. UNCHANGED <<circuit, calls, main, woken, working, worker, job>>
  BY DEF Transmit
<1>2. o \in Seq(X) /\ o # <<>>
  BY DEF TypeOK, Transmit
<1>3. outbox'[p] = t /\ workerEvt' = [workerEvt EXCEPT ![p][0] = workerEvt[p][0] \/ Head(o).raise]
  BY DEF Transmit, TypeOK
<1> HIDE DEF X
<1>4. /\ Len(o) \in Nat \ {0} /\ DOMAIN o = 1 .. Len(o) /\ DOMAIN t = 1 .. Len(o) - 1
      /\ Head(o) = o[1] /\ \A k \in 1 .. Len(o) - 1 : t[k] = o[k+1]
  BY <1>2
<1>5. Raises(p) = {k \in DOMAIN o : o[k].raise}
  BY DEF Raises
<1>6. Raises(p)' = {k \in DOMAIN t : t[k].raise}
  BY <1>3 DEF Raises
<1> HIDE DEF o, t
<1>7. /\ workerEvt'[p][0] <=> workerEvt[p][0] \/ o[1].raise
      /\ \A k \in Thread : k # 0 => workerEvt'[p][k] = workerEvt[p][k]
  <2>1. workerEvt \in [Party -> [Thread -> BOOLEAN]] /\ 0 \in Thread
    BY ThreadsAre DEF TypeOK
  <2> QED BY <1>3, <1>4, <2>1
<1>8. JobsOK(p)
  BY DEF ThreadsOK
<1>9. \A k \in DOMAIN t : k + 1 \in DOMAIN o /\ k + 1 # 1 /\ t[k] = o[k+1]
  BY <1>4
<1>10. \A k, l \in Raises(p)' : k = l
  <2>1. ASSUME NEW k \in Raises(p)', NEW l \in Raises(p)' PROVE k = l
    <3>1. k + 1 \in Raises(p) /\ l + 1 \in Raises(p) /\ k \in Nat /\ l \in Nat
      BY <1>4, <1>5, <1>6, <1>9, <2>1
    <3>2. k + 1 = l + 1
      BY <1>8, <3>1 DEF JobsOK
    <3> QED BY <3>1, <3>2
  <2> QED BY <2>1
<1>11. CASE o[1].raise
  <2>1. 1 \in Raises(p)
    BY <1>4, <1>5, <1>11
  <2>2. worker[p][0] = "sending" /\ ~ workerEvt[p][0]
    BY <1>8, <2>1 DEF JobsOK
  <2>3. Raises(p)' = {}
    <3>1. ASSUME NEW k \in Raises(p)' PROVE FALSE
      <4>1. k + 1 \in Raises(p) /\ k + 1 # 1
        BY <1>5, <1>6, <1>9, <3>1
      <4> QED BY <1>8, <2>1, <4>1 DEF JobsOK
    <3> QED BY <3>1
  <2>4. JobsOK(p)'
    <3>1. ASSUME NEW k \in Thread
          PROVE  /\ worker'[p][k] \in Job \cup {"notify"} => ~ workerEvt'[p][k]
                 /\ worker'[p][k] # "idle" \/ workerEvt'[p][k] => job'[p][k] \in Job
                 /\ worker'[p][k] \in {"Send", "Receive", "sending"} => k = 0
                 /\ workerEvt'[p][k] /\ job'[p][k] \in {"Send", "Receive"} => k = 0
      <4>1. CASE k = 0
        BY <1>1, <1>8, <2>2, <4>1 DEF JobsOK, Job
      <4>2. CASE k # 0
        <5>1. workerEvt'[p][k] = workerEvt[p][k]
          BY <1>7, <4>2
        <5> QED BY <1>1, <1>8, <5>1 DEF JobsOK
      <4> QED BY <4>1, <4>2
    <3>2. workerEvt'[p][0]
      BY <1>7, <1>11
    <3> QED BY <1>10, <2>3, <3>1, <3>2 DEF JobsOK
  <2>5. \A k \in Thread : Busy(p, k)' <=> Busy(p, k)
    <3>1. ASSUME NEW k \in Thread PROVE Busy(p, k)' <=> Busy(p, k)
      <4>1. CASE k = 0
        BY <1>1, <2>2, <4>1 DEF Busy
      <4>2. CASE k # 0
        <5>1. workerEvt'[p][k] = workerEvt[p][k]
          BY <1>7, <4>2
        <5> QED BY <1>1, <5>1 DEF Busy
      <4> QED BY <4>1, <4>2
    <3> QED BY <3>1
  <2> QED BY <1>1, <2>4, <2>5, StaysBusy DEF ThreadsOK
<1>12. CASE ~ o[1].raise
  <2>1. \A k \in Thread : workerEvt'[p][k] <=> workerEvt[p][k]
    BY <1>7, <1>12
  <2>2. \A k \in Thread : Busy(p, k)' <=> Busy(p, k)
    BY <1>1, <2>1 DEF Busy
  <2>3. Raises(p)' # {} <=> Raises(p) # {}
    <3>1. ASSUME NEW k \in Raises(p)' PROVE k + 1 \in Raises(p)
      BY <1>5, <1>6, <1>9, <3>1
    <3>2. ASSUME NEW k \in Raises(p) PROVE k - 1 \in Raises(p)'
      <4>1. k \in 1 .. Len(o) /\ k # 1 /\ o[k].raise
        BY <1>4, <1>5, <1>12, <3>2
      <4> DEFINE l == k - 1
      <4>2. l \in 1 .. Len(o) - 1 /\ k = l + 1
        BY <1>4, <4>1
      <4> HIDE DEF l
      <4>3. t[l] = o[l+1]
        BY <1>4, <4>2
      <4> QED BY <1>4, <1>6, <4>1, <4>2, <4>3 DEF l
    <3> QED BY <3>1, <3>2
  <2>4. JobsOK(p)'
    <3>1. 0 \in Thread
      BY ThreadsAre
    <3>2. worker'[p][0] = "sending" /\ ~ workerEvt'[p][0] <=> worker[p][0] = "sending" /\ ~ workerEvt[p][0]
      BY <1>1, <2>1, <3>1
    <3> QED BY <1>1, <1>8, <1>10, <2>1, <2>3, <3>2 DEF JobsOK
  <2> QED BY <1>1, <2>2, <2>4, StaysBusy DEF ThreadsOK
<1> QED BY <1>11, <1>12

\* Threads that end a job together.
LEMMA TogetherThreads ==
    ASSUME TypeOK, NEW q \in Party, ThreadsOK(q), NEW i \in Thread,
           worker[q][i] \in Job, worker'[q] = [worker[q] EXCEPT ![i] = "notify"],
           UNCHANGED <<circuit, calls, main, woken, working, workerEvt, job, outbox>>
    PROVE  ThreadsOK(q)'
<1>1. worker'[q][i] = "notify" /\ \A k \in Thread : k # i => worker'[q][k] = worker[q][k]
  BY DEF TypeOK
<1>2. ~ workerEvt[q][i]
  BY DEF ThreadsOK, JobsOK
<1>3. JobsOK(q)'
  BY <1>1, <1>2, JobStep DEF Job
<1>4. \A k \in Thread : Busy(q, k)' <=> Busy(q, k)
  BY <1>1 DEF Busy, Job
<1> QED BY <1>3, <1>4, StaysBusy DEF ThreadsOK

LEMMA BaseOTsThreads ==
    ASSUME TInv, NEW p \in Party, BaseOTs(p), NEW q \in Party
    PROVE  ThreadsOK(q)'
<1>0. TypeOK /\ ThreadsOK(q)
  BY DEF TInv
<1>1. /\ worker[p][Snd] = "NP" /\ worker[Peer(p)][Rcv] = "NP"
      /\ worker' = [worker EXCEPT ![p][Snd] = "notify", ![Peer(p)][Rcv] = "notify"]
      /\ UNCHANGED <<circuit, calls, main, woken, working, workerEvt, job, outbox>>
  BY DEF BaseOTs, At
<1>2. Peer(p) \in Party /\ Peer(p) # p /\ (q = p \/ q = Peer(p))
  BY PeerIs
<1>3. Snd \in Thread /\ Rcv \in Thread /\ "NP" \in Job
  BY ThreadsAre DEF Job
<1>4. CASE q = p
  <2>1. worker'[q] = [worker[q] EXCEPT ![Snd] = "notify"]
    BY <1>0, <1>1, <1>2, <1>4 DEF TypeOK
  <2> QED BY <1>0, <1>1, <1>3, <1>4, <2>1, TogetherThreads
<1>5. CASE q = Peer(p)
  <2>1. worker'[q] = [worker[q] EXCEPT ![Rcv] = "notify"]
    BY <1>0, <1>1, <1>2, <1>5 DEF TypeOK
  <2> QED BY <1>0, <1>1, <1>3, <1>5, <2>1, TogetherThreads
<1> QED BY <1>2, <1>4, <1>5

LEMMA PaillierThreads ==
    ASSUME TInv, NEW i \in Thread, PaillierMTs(i), NEW q \in Party
    PROVE  ThreadsOK(q)'
<1>1. worker[q][i] \in Job /\ worker'[q] = [worker[q] EXCEPT ![i] = "notify"]
  BY DEF PaillierMTs, Job
<1>2. UNCHANGED <<circuit, calls, main, woken, working, workerEvt, job, outbox>>
  BY DEF PaillierMTs
<1> QED BY <1>1, <1>2, TogetherThreads DEF TInv

LEMMA IKNPThreads ==
    ASSUME TInv, NEW p \in Party, IKNPOTs(p), NEW q \in Party
    PROVE  ThreadsOK(q)'
BY ThreadsSame DEF TInv, IKNPOTs, SameThreads

LEMMA InitThreads == ASSUME Init, NEW p \in Party PROVE ThreadsOK(p)
<1> DEFINE c == ConnectAndBaseOTs
<1>1. /\ Chain(c) /\ c # <<>> /\ Last(c).op \in {"wait", "rcvkey"} /\ NoMT(c)
      /\ \A k \in 1 .. Len(c) : c[k].op # "garble"
  BY FirstCalls
<1> HIDE DEF c
<1>2. calls[p] = c /\ circuit[p] = 0
  BY DEF Init, c
<1>3. OrderOK(p)
  BY <1>1, <1>2 DEF OrderOK, Chain, Last, NoMT
<1>4. /\ main[p] = "next" /\ working[p] = 0 /\ outbox[p] = <<>>
      /\ \A i \in Thread : worker[p][i] = "idle" /\ workerEvt[p][i] = FALSE /\ job[p][i] = "undefined"
  BY DEF Init
<1>5. \A i \in Thread : ~ Busy(p, i)
  BY <1>4 DEF Busy
<1>6. CounterOK(p)
  <2>1. Busies(p) = {}
    BY <1>5 DEF Busies
  <2>2. Cardinality(Busies(p)) = 0 /\ ToWake(p) = 0
    BY <1>4, <2>1, FS_EmptySet DEF ToWake
  <2>3. working[p] = Cardinality(Busies(p)) + ToWake(p)
    BY <1>4, <2>2
  <2> QED BY <2>3 DEF CounterOK, Busies
<1>7. MainOK(p)
  BY <1>4, <1>5 DEF MainOK
<1>8. JobsOK(p)
  <2>1. Raises(p) = {}
    BY <1>4 DEF Raises
  <2>2. 0 \in Thread
    BY ThreadsAre
  <2> QED BY <1>4, <2>1, <2>2 DEF JobsOK, Job
<1> QED BY <1>3, <1>6, <1>7, <1>8 DEF ThreadsOK

LEMMA NextThreads ==
    ASSUME TInv, [Next]_vars
    PROVE  TInv'
<1>0. TypeOK /\ \A q \in Party : ThreadsOK(q)
  BY DEF TInv
<1>1. CASE UNCHANGED vars
  BY <1>0, <1>1, NextTypes, ThreadsSame DEF TInv, vars, SameThreads
<1>2. ASSUME NEW p \in Party, NEW q \in Party, \/ Main(p) \/ Transmit(p) \/ \E i \in Thread : Worker(p, i)
      PROVE  ThreadsOK(q)'
  <2>1. CASE q = p
    BY <1>0, <1>2, <2>1, MainThreads, TransmitThreads, WorkerThreads
  <2>2. CASE q # p
    <3>1. SameThreads(q)
      BY <1>0, <1>2, <2>2, OthersThreads
    <3> QED BY <1>0, <3>1, ThreadsSame
  <2> QED BY <2>1, <2>2
<1>3. CASE Next
  <2>1. ASSUME NEW q \in Party PROVE ThreadsOK(q)'
    BY <1>2, <1>3, BaseOTsThreads, IKNPThreads, PaillierThreads DEF Next
  <2> QED BY <2>1, NextTypes DEF TInv
<1> QED BY <1>1, <1>3

\* In every reachable state the counter of workers is the number of threads that
\* are at a job or are still to be woken for one, the main thread is where its
\* calls say, and the events raised are those of jobs not begun.
THEOREM ThreadsInvariance == Spec => []TInv
<1>1. Init => TInv
  BY InitTypes, InitThreads DEF TInv
<1>2. TInv /\ [Next]_vars => TInv'
  BY NextThreads
<1> QED BY <1>1, <1>2, PTL DEF Spec

\* All variables have their types in every reachable state.
THEOREM SetupTypes == Spec => []TypeOK
<1>1. TInv => TypeOK
  BY DEF TInv
<1> QED BY <1>1, ThreadsInvariance, PTL

\* The main thread adds tasks, fills send and receive tasks, exchanges keys and
\* wakes threads up only while no thread is at a job, for any number of threads.
THEOREM TasksNotSharedHolds == Spec => []TasksNotShared
<1>1. TInv => TasksNotShared
  <2>1. ASSUME TInv, NEW p \in Party,
               \/ Returned(p)
               \/ \E op \in {"sndtask", "rcvtask", "sndkey", "rcvkey", "wake", "online"} : Calls(p, op)
        PROVE  \A i \in Thread : ~ Busy(p, i)
    BY <2>1 DEF TInv, ThreadsOK, MainOK, HeadIs, Calls, Returned
  <2> QED BY <2>1 DEF TasksNotShared
<1> QED BY <1>1, ThreadsInvariance, PTL

(***************************************************************************)
(* Who has which job.                                                      *)
(***************************************************************************)

LEMMA JobKept ==
    ASSUME NEW p \in Party, NEW i \in Thread, NEW e \in Job,
           worker'[p][i] = worker[p][i], workerEvt'[p][i] <=> workerEvt[p][i], job'[p][i] = job[p][i]
    PROVE  HasJob(p, i, e)' <=> HasJob(p, i, e)
BY DEF HasJob

\* The main thread changes no job but in PutJob.
LEMMA MainKeepsJobs ==
    ASSUME TypeOK, NEW p \in Party, Main(p), NEW q \in Party, ~ (q = p /\ PutJob(p))
    PROVE  worker'[q] = worker[q] /\ workerEvt'[q] = workerEvt[q] /\ job'[q] = job[q]
<1>1. CASE q = p
  BY <1>1 DEF Main, PrepareSharings, Garble, WakeupWorkerThreads, NoneWorking, SomeWorking,
       WaitEvent, SetSendTask, SetReceiveTask, SendKey, ReceiveKey, Online
<1>2. CASE q # p
  BY <1>2, OthersThreads DEF SameThreads
<1> QED BY <1>1, <1>2

LEMMA PutJobGives ==
    ASSUME TInv, NEW p \in Party, PutJob(p)
    PROVE  /\ woken[p] \in Thread /\ Head(calls[p]).job \in Job
           /\ HeadIs(p, "wake") /\ woken[p] < ThreadsFor(Head(calls[p]).job)
           /\ worker' = worker
           /\ workerEvt'[p][woken[p]] = TRUE /\ job'[p][woken[p]] = Head(calls[p]).job
           /\ worker[p][woken[p]] \in {"idle", "raise"} /\ ~ workerEvt[p][woken[p]]
           /\ \A k \in Thread : k # woken[p] => workerEvt'[p][k] = workerEvt[p][k] /\ job'[p][k] = job[p][k]
<1>0. TypeOK /\ ThreadsOK(p)
  BY DEF TInv
<1>1. main[p] = "wake" /\ HeadIs(p, "wake") /\ woken[p] < ThreadsFor(Head(calls[p]).job)
      /\ \A i \in Thread : Busy(p, i) => i < woken[p]
  BY <1>0 DEF PutJob, ThreadsOK, MainOK
<1>2. Head(calls[p]).job \in Job
  BY <1>0, <1>1, CallsAre, CallIs DEF ThreadsOK, HeadIs
<1>3. woken[p] \in Thread /\ woken[p] \in Nat
  <2>1. woken[p] \in Nat
    BY <1>0 DEF TypeOK
  <2>2. woken[p] < 2 * NumOTThreads
    BY <1>1, <1>2, <2>1, ThreadsAre
  <2> QED BY <2>1, <2>2, ThreadsAre
<1>4. worker[p][woken[p]] \in {"idle", "raise"} /\ ~ workerEvt[p][woken[p]]
  <2>1. ~ Busy(p, woken[p])
    BY <1>1, <1>3
  <2> QED BY <2>1 DEF Busy
<1>5. job' = [job EXCEPT ![p][woken[p]] = Head(calls[p]).job]
      /\ workerEvt' = [workerEvt EXCEPT ![p][woken[p]] = TRUE] /\ worker' = worker
  BY DEF PutJob
<1> QED BY <1>0, <1>1, <1>2, <1>3, <1>4, <1>5 DEF TypeOK

\* A thread is given a job by PutJob only, and is rid of it when it has done it.
LEMMA HasJobStep ==
    ASSUME TInv, Next, NEW p \in Party, NEW i \in Thread, NEW e \in Job
    PROVE  /\ HasJob(p, i, e)' =>
                HasJob(p, i, e) \/ (PutJob(p) /\ i = woken[p] /\ Head(calls[p]).job = e)
           /\ HasJob(p, i, e) => HasJob(p, i, e)' \/ (worker[p][i] = e /\ worker'[p][i] # e)
<1>0. TypeOK /\ ThreadsOK(p)
  BY DEF TInv
<1> DEFINE Same == worker'[p][i] = worker[p][i] /\ (workerEvt'[p][i] <=> workerEvt[p][i]) /\ job'[p][i] = job[p][i]
<1>1. ASSUME Same PROVE HasJob(p, i, e)' <=> HasJob(p, i, e)
  BY <1>1, JobKept
<1>2. ASSUME NEW q \in Party, Main(q) PROVE Same \/ (PutJob(p) /\ i = woken[p])
  <2>1. CASE q = p /\ PutJob(p)
    BY <2>1, PutJobGives
  <2>2. CASE ~ (q = p /\ PutJob(p))
    BY <1>0, <1>2, <2>2, MainKeepsJobs
  <2> QED BY <2>1, <2>2
<1>3. ASSUME PutJob(p), i = woken[p]
      PROVE  ~ HasJob(p, i, e) /\ (HasJob(p, i, e)' => Head(calls[p]).job = e)
  <2>1. /\ worker[p][i] \in {"idle", "raise"} /\ ~ workerEvt[p][i]
        /\ worker'[p][i] \in {"idle", "raise"} /\ job'[p][i] = Head(calls[p]).job
    BY <1>3, PutJobGives
  <2> QED BY <2>1 DEF HasJob, Job
<1>4. ASSUME NEW q \in Party, Transmit(q)
      PROVE  Same \/ (worker[p][i] = "sending" /\ worker'[p][i] = "sending")
  <2>1. worker' = worker /\ job' = job
    BY <1>4 DEF Transmit
  <2>2. CASE q = p /\ Head(outbox[p]).raise /\ i = 0
    <3>1. 1 \in Raises(p)
      BY <1>0, <1>4, <2>2 DEF Raises, Transmit, TypeOK
    <3> QED BY <1>0, <2>1, <2>2, <3>1 DEF ThreadsOK, JobsOK
  <2>3. CASE ~ (q = p /\ Head(outbox[p]).raise /\ i = 0)
    <3>1. workerEvt' = [workerEvt EXCEPT ![q][0] = workerEvt[q][0] \/ Head(outbox[q]).raise]
          /\ 0 \in Thread /\ workerEvt \in [Party -> [Thread -> BOOLEAN]]
      BY <1>0, <1>4, ThreadsAre DEF Transmit, TypeOK
    <3>2. workerEvt'[p][i] <=> workerEvt[p][i]
      BY <2>3, <3>1
    <3> QED BY <2>1, <3>2
  <2> QED BY <2>2, <2>3
<1>5. ASSUME NEW q \in Party, BaseOTs(q) \/ IKNPOTs(q)
      PROVE  Same \/ (worker[p][i] = "NP" /\ worker'[p][i] = "notify")
  <2>1. workerEvt' = workerEvt /\ job' = job
    BY <1>5 DEF BaseOTs, IKNPOTs
  <2>2. CASE IKNPOTs(q)
    BY <2>1, <2>2 DEF IKNPOTs
  <2>3. CASE BaseOTs(q)
    <3>1. /\ worker[q][Snd] = "NP" /\ worker[Peer(q)][Rcv] = "NP"
          /\ worker' = [worker EXCEPT ![q][Snd] = "notify", ![Peer(q)][Rcv] = "notify"]
          /\ worker \in [Party -> [Thread -> Job \cup {"idle", "sending", "notify", "raise"}]]
      BY <1>0, <2>3 DEF BaseOTs, At, TypeOK
    <3>2. Peer(q) \in Party /\ Peer(q) # q /\ (p = q \/ p = Peer(q)) /\ Snd \in Thread /\ Rcv \in Thread
      BY PeerIs, ThreadsAre
    <3>3. CASE p = q
      <4>1. worker'[p] = [worker[p] EXCEPT ![Snd] = "notify"]
        BY <3>1, <3>2, <3>3
      <4> QED BY <2>1, <3>1, <3>2, <3>3, <4>1
    <3>4. CASE p = Peer(q)
      <4>1. worker'[p] = [worker[p] EXCEPT ![Rcv] = "notify"]
        BY <3>1, <3>2, <3>4
      <4> QED BY <2>1, <3>1, <3>2, <3>4, <4>1
    <3> QED BY <3>2, <3>3, <3>4
  <2> QED BY <1>5, <2>2, <2>3
<1>6. ASSUME NEW k \in Thread, PaillierMTs(k)
      PROVE  Same \/ (worker[p][i] \in MTJob /\ worker'[p][i] = "notify")
  BY <1>0, <1>6 DEF PaillierMTs, MTJob, TypeOK
<1>7. ASSUME NEW q \in Party, NEW k \in Thread, Worker(q, k)
      PROVE  Same \/ (q = p /\ k = i)
  <2>1. CASE q = p
    BY <1>0, <1>7, <2>1, WorkerStep
  <2>2. CASE q # p
    BY <1>0, <1>7, <2>2, OthersThreads DEF SameThreads
  <2> QED BY <2>1, <2>2
<1>8. ASSUME Worker(p, i)
      PROVE  /\ HasJob(p, i, e)' => HasJob(p, i, e)
             /\ HasJob(p, i, e) => HasJob(p, i, e)' \/ (worker[p][i] = e /\ worker'[p][i] # e)
  <2>1. job' = job
    BY <1>0, <1>8, WorkerStep
  <2>2. CASE TakeJob(p, i)
    BY <1>0, <2>1, <2>2 DEF HasJob, TakeJob, At, Go, Job, TypeOK
  <2>3. CASE RaiseEvent(p, i)
    BY <1>0, <2>1, <2>3 DEF HasJob, RaiseEvent, At, Go, Job, TypeOK
  <2>4. CASE IKNPDone(p, i) \/ SendData(p, i) \/ SendDone(p, i) \/ ReceiveData(p, i)
    BY <1>0, <2>1, <2>4 DEF HasJob, IKNPDone, SendData, SendDone, ReceiveData, At, Go, Job, TypeOK
  <2>5. CASE Notify(p, i)
    <3>1. ~ workerEvt[p][i]
      BY <1>0, <2>5 DEF ThreadsOK, JobsOK, Notify, At
    <3> QED BY <1>0, <2>1, <2>5, <3>1 DEF HasJob, Notify, At, Go, Job, TypeOK
  <2> QED BY <1>8, <2>2, <2>3, <2>4, <2>5 DEF Worker
<1>9. ASSUME worker[p][i] \in {"sending", "NP"} \cup MTJob, worker'[p][i] \in {"sending", "notify"}
      PROVE  ~ HasJob(p, i, e)' /\ (HasJob(p, i, e) => worker[p][i] = e /\ worker'[p][i] # e)
  BY <1>9 DEF HasJob, Job, MTJob
<1> HIDE DEF Same
<1> QED BY <1>1, <1>2, <1>3, <1>4, <1>5, <1>6, <1>7, <1>8, <1>9 DEF Next

(***************************************************************************)
(* OT tasks.                                                               *)
(***************************************************************************)

\* The tasks of the sharings, all sent or all received.
WithSends(names, b) == [k \in DOMAIN names |-> [sharing |-> names[k], sends |-> b]]

LEMMA WithSendsIs ==
    ASSUME NEW s \in Seq(Sharing), NEW b \in BOOLEAN
    PROVE  /\ WithSends(s, b) \in Seq(OTTask) /\ Len(WithSends(s, b)) = Len(s)
           /\ \A k \in 1 .. Len(s) : WithSends(s, b)[k] = [sharing |-> s[k], sends |-> b]
           /\ Sharings(WithSends(s, b)) = s
<1>1. Len(s) \in Nat /\ DOMAIN s = 1 .. Len(s) /\ s \in [1 .. Len(s) -> Sharing]
  OBVIOUS
<1> DEFINE w == WithSends(s, b)
<1>2. w = [k \in 1 .. Len(s) |-> [sharing |-> s[k], sends |-> b]]
  BY <1>1 DEF WithSends
<1>3. w \in [1 .. Len(s) -> OTTask]
  BY <1>1, <1>2 DEF OTTask
<1>4. \A k \in 1 .. Len(s) : w[k] = [sharing |-> s[k], sends |-> b]
  BY <1>2
<1> HIDE DEF w
<1>5. w \in Seq(OTTask) /\ Len(w) = Len(s)
  BY <1>1, <1>3, ListIs
<1>6. Sharings(w) = s
  <2>1. Sharings(w) = [k \in 1 .. Len(s) |-> w[k].sharing]
    BY <1>3 DEF Sharings
  <2>2. ASSUME NEW k \in 1 .. Len(s) PROVE w[k].sharing = s[k]
    <3>1. w[k] = [sharing |-> s[k], sends |-> b]
      BY <1>4
    <3> QED BY <3>1
  <2> QED BY <1>1, <2>1, <2>2
<1> QED BY <1>4, <1>5, <1>6 DEF w

LEMMA WithSendsConcat ==
    ASSUME NEW s \in Seq(Sharing), NEW t \in Seq(Sharing), NEW b \in BOOLEAN
    PROVE  WithSends(s \o t, b) = WithSends(s, b) \o WithSends(t, b)
<1> DEFINE u == s \o t
           v == WithSends(s, b)
           w == WithSends(t, b)
<1>1. u \in Seq(Sharing) /\ Len(u) = Len(s) + Len(t) /\ Len(s) \in Nat /\ Len(t) \in Nat
      /\ \A k \in 1 .. Len(s) + Len(t) : u[k] = IF k <= Len(s) THEN s[k] ELSE t[k - Len(s)]
  BY ConcatProperties
<1>2. v \in Seq(OTTask) /\ w \in Seq(OTTask) /\ Len(v) = Len(s) /\ Len(w) = Len(t)
      /\ (\A k \in 1 .. Len(s) : v[k] = [sharing |-> s[k], sends |-> b])
      /\ (\A k \in 1 .. Len(t) : w[k] = [sharing |-> t[k], sends |-> b])
  BY WithSendsIs
<1> HIDE DEF u, v, w
<1>3. v \o w \in Seq(OTTask) /\ Len(v \o w) = Len(s) + Len(t)
      /\ \A k \in 1 .. Len(s) + Len(t) : (v \o w)[k] = IF k <= Len(s) THEN v[k] ELSE w[k - Len(s)]
  <2>1. v \in Seq(OTTask) /\ w \in Seq(OTTask)
    BY <1>2
  <2>2. v \o w \in Seq(OTTask) /\ Len(v \o w) = Len(v) + Len(w)
        /\ \A k \in 1 .. Len(v) + Len(w) : (v \o w)[k] = IF k <= Len(v) THEN v[k] ELSE w[k - Len(v)]
    BY <2>1, ConcatProperties
  <2>3. Len(v) = Len(s) /\ Len(w) = Len(t)
    BY <1>2
  <2> QED BY <2>2, <2>3
<1>4. WithSends(u, b) \in Seq(OTTask) /\ Len(WithSends(u, b)) = Len(s) + Len(t)
      /\ \A k \in 1 .. Len(s) + Len(t) : WithSends(u, b)[k] = [sharing |-> u[k], sends |-> b]
  BY <1>1, WithSendsIs
<1> DEFINE l == WithSends(u, b)
           r == v \o w
<1>5. ASSUME NEW k \in 1 .. Len(s) + Len(t) PROVE l[k] = r[k]
  <2>1. CASE k <= Len(s)
    <3>1. k \in 1 .. Len(s)
      BY <1>1, <2>1
    <3>2. u[k] = s[k] /\ r[k] = v[k]
      BY <1>1, <1>3, <2>1
    <3> QED BY <1>2, <1>4, <3>1, <3>2
  <2>2. CASE ~ (k <= Len(s))
    <3>1. k - Len(s) \in 1 .. Len(t)
      BY <1>1, <2>2
    <3>2. u[k] = t[k - Len(s)] /\ r[k] = w[k - Len(s)]
      BY <1>1, <1>3, <2>2
    <3> QED BY <1>2, <1>4, <3>1, <3>2
  <2> QED BY <2>1, <2>2
<1>6. l \in Seq(OTTask) /\ r \in Seq(OTTask) /\ Len(l) = Len(r) /\ Len(l) = Len(s) + Len(t)
  BY <1>3, <1>4
<1> HIDE DEF l, r
<1>7. l = r
  BY <1>5, <1>6, SeqEqual
<1> QED BY <1>7 DEF l, r, u, v, w

\* The sharings that add a task to queue j.
Names(c, j) ==
    (IF c.bool THEN <<"S_BOOL">> ELSE <<>>)
      \o (IF Used(c.yao) /\ j = QueueOf("S_YAO") THEN <<"S_YAO">> ELSE <<>>)
      \o (IF c.muls > 0 /\ MTGenAlg = "MT_OT" THEN <<"S_ARITH">> ELSE <<>>)
      \o (IF Used(c.rev) /\ j = QueueOf("S_YAO_REV") THEN <<"S_YAO_REV">> ELSE <<>>)

\* Both parties add tasks for the same sharings, and a party sends in the queue
\* of its role only.
LEMMA OTTasksAre ==
    ASSUME NEW p \in Party, NEW c, NEW j \in Queue
    PROVE  /\ OTTasks(p, c, j) = WithSends(Names(c, j), j = Role(p))
           /\ Names(c, j) \in Seq(Sharing)
<1> DEFINE b == (j = Role(p))
           n0 == IF c.bool THEN <<"S_BOOL">> ELSE <<>>
           n1 == IF Used(c.yao) /\ j = QueueOf("S_YAO") THEN <<"S_YAO">> ELSE <<>>
           n2 == IF c.muls > 0 /\ MTGenAlg = "MT_OT" THEN <<"S_ARITH">> ELSE <<>>
           n3 == IF Used(c.rev) /\ j = QueueOf("S_YAO_REV") THEN <<"S_YAO_REV">> ELSE <<>>
           t0 == IF c.bool THEN <<[sharing |-> "S_BOOL", sends |-> b]>> ELSE <<>>
           t1 == IF Used(c.yao) /\ j = QueueOf("S_YAO")
                 THEN <<[sharing |-> "S_YAO", sends |-> (p = Garbler("S_YAO"))]>> ELSE <<>>
           t2 == IF c.muls > 0 /\ MTGenAlg = "MT_OT"
                 THEN <<[sharing |-> "S_ARITH", sends |-> b]>> ELSE <<>>
           t3 == IF Used(c.rev) /\ j = QueueOf("S_YAO_REV")
                 THEN <<[sharing |-> "S_YAO_REV", sends |-> (p = Garbler("S_YAO_REV"))]>> ELSE <<>>
<1>1. b \in BOOLEAN
  OBVIOUS
<1>2. ASSUME NEW s \in Sharing
      PROVE  <<s>> \in Seq(Sharing) /\ WithSends(<<s>>, b) = <<[sharing |-> s, sends |-> b]>>
  <2>1. <<s>> \in Seq(Sharing) /\ DOMAIN <<s>> = 1 .. 1 /\ <<s>>[1] = s
    OBVIOUS
  <2>2. WithSends(<<s>>, b) = [k \in 1 .. 1 |-> [sharing |-> <<s>>[k], sends |-> b]]
    BY <2>1 DEF WithSends
  <2>3. \A k \in 1 .. 1 : <<s>>[k] = s
    BY <2>1
  <2> DEFINE r == [sharing |-> s, sends |-> b]
  <2>4. WithSends(<<s>>, b) = [k \in 1 .. 1 |-> r]
    BY <2>2, <2>3
  <2> HIDE DEF r
  <2>5. <<r>> = [k \in 1 .. 1 |-> r]
    OBVIOUS
  <2> QED BY <2>1, <2>4, <2>5 DEF r
<1>3. <<>> \in Seq(Sharing) /\ WithSends(<<>>, b) = <<>>
  BY DEF WithSends
<1>4. (j = QueueOf("S_YAO") => (p = Garbler("S_YAO")) = b) /\ (j = QueueOf("S_YAO_REV") => (p = Garbler("S_YAO_REV")) = b)
  BY DEF QueueOf, Garbler, Role, Party, Queue
<1>5. "S_BOOL" \in Sharing /\ "S_YAO" \in Sharing /\ "S_ARITH" \in Sharing /\ "S_YAO_REV" \in Sharing
  BY DEF Sharing
<1> HIDE DEF b
<1>6. /\ n0 \in Seq(Sharing) /\ WithSends(n0, b) = t0
      /\ n2 \in Seq(Sharing) /\ WithSends(n2, b) = t2
  BY <1>2, <1>3, <1>5
<1>7. n1 \in Seq(Sharing) /\ WithSends(n1, b) = t1
  BY <1>2, <1>3, <1>4, <1>5
<1>8. n3 \in Seq(Sharing) /\ WithSends(n3, b) = t3
  BY <1>2, <1>3, <1>4, <1>5
<1>9. OTTasks(p, c, j) = t0 \o t1 \o t2 \o t3 /\ Names(c, j) = n0 \o n1 \o n2 \o n3
  BY DEF OTTasks, Names, b
<1> HIDE DEF n0, n1, n2, n3, t0, t1, t2, t3
<1>10. n0 \o n1 \in Seq(Sharing) /\ n0 \o n1 \o n2 \in Seq(Sharing) /\ n0 \o n1 \o n2 \o n3 \in Seq(Sharing)
  BY <1>6, <1>7, <1>8
<1>11. WithSends(n0 \o n1, b) = t0 \o t1
  BY <1>1, <1>6, <1>7, WithSendsConcat
<1> DEFINE m == n0 \o n1
<1> HIDE DEF m
<1>12. WithSends(m \o n2, b) = (t0 \o t1) \o t2 /\ m \o n2 \in Seq(Sharing)
  <2>1. m \in Seq(Sharing) /\ m \o n2 \in Seq(Sharing) /\ WithSends(m, b) = t0 \o t1
    BY <1>10, <1>11 DEF m
  <2>2. WithSends(m \o n2, b) = WithSends(m, b) \o WithSends(n2, b)
    BY <1>1, <1>6, <2>1, WithSendsConcat
  <2> QED BY <1>6, <2>1, <2>2
<1> DEFINE o == m \o n2
<1> HIDE DEF o
<1>13. WithSends(o \o n3, b) = (t0 \o t1 \o t2) \o t3
  BY <1>1, <1>8, <1>12, WithSendsConcat DEF o
<1> QED BY <1>9, <1>10, <1>13 DEF o, m, b

LEMMA QueueThreads ==
    ASSUME NEW p \in Party, NEW j \in Queue
    PROVE  /\ ThreadOf(p, j) \in Thread /\ ThreadOf(p, j) \in {0, 1}
           /\ QueueFor(p, ThreadOf(p, j)) = j
           /\ TaskOf(p, ThreadOf(p, j)) = tasks[p][j]
BY ThreadsAre DEF ThreadOf, QueueFor, TaskOf, Queue, Party

\* The calls, the main thread and the jobs put are changed by the main thread only.
LEMMA MainOnly ==
    ASSUME TypeOK, Next, NEW p \in Party, ~ Main(p)
    PROVE  calls'[p] = calls[p] /\ main'[p] = main[p] /\ woken'[p] = woken[p] /\ circuit'[p] = circuit[p]
<1>1. ASSUME NEW q \in Party, Main(q) \/ Transmit(q) \/ \E i \in Thread : Worker(q, i)
      PROVE  calls'[p] = calls[p] /\ main'[p] = main[p] /\ woken'[p] = woken[p] /\ circuit'[p] = circuit[p]
  <2>1. CASE q = p
    BY <1>1, <2>1, WorkerStep DEF Transmit
  <2>2. CASE q # p
    BY <1>1, <2>2, OthersThreads DEF SameThreads
  <2> QED BY <2>1, <2>2
<1>2. ASSUME NEW q \in Party, BaseOTs(q) \/ IKNPOTs(q)
      PROVE  calls'[p] = calls[p] /\ main'[p] = main[p] /\ woken'[p] = woken[p] /\ circuit'[p] = circuit[p]
  BY <1>2 DEF BaseOTs, IKNPOTs
<1>3. ASSUME NEW i \in Thread, PaillierMTs(i)
      PROVE  calls'[p] = calls[p] /\ main'[p] = main[p] /\ woken'[p] = woken[p] /\ circuit'[p] = circuit[p]
  BY <1>3 DEF PaillierMTs
<1> QED BY <1>1, <1>2, <1>3 DEF Next

\* No step but the end of the job takes OT extension from a thread.
LEMMA ToExtendKept ==
    ASSUME TInv, Next, NEW p \in Party, NEW i \in Thread, i \in {0, 1}, ToExtend(p, i), ~ IKNPDone(p, i)
    PROVE  ToExtend(p, i)'
<1>0. TypeOK /\ ThreadsOK(p)
  BY DEF TInv
<1>1. CASE HasJob(p, i, "IKNPOTExt")
  <2>1. "IKNPOTExt" \in Job
    BY DEF Job
  <2>2. ASSUME worker[p][i] = "IKNPOTExt", worker'[p][i] # "IKNPOTExt" PROVE FALSE
    <3>1. ASSUME NEW q \in Party, Main(q) PROVE FALSE
      <4>1. worker'[p] = worker[p]
        BY <1>0, <3>1, MainKeepsJobs, PutJobGives
      <4> QED BY <2>2, <4>1
    <3>2. ASSUME NEW q \in Party, NEW k \in Thread, Worker(q, k) PROVE FALSE
      <4>1. q = p /\ k = i
        <5>1. q # p => worker'[p] = worker[p]
          BY <1>0, <3>2, OthersThreads DEF SameThreads
        <5>2. q = p /\ k # i => worker'[p][i] = worker[p][i]
          BY <1>0, <3>2, WorkerStep
        <5> QED BY <2>2, <5>1, <5>2
      <4> QED BY <2>2, <3>2, <4>1 DEF Worker, TakeJob, SendData, SendDone, ReceiveData, Notify, RaiseEvent, At
    <3>3. ASSUME NEW q \in Party, Transmit(q) \/ IKNPOTs(q) PROVE FALSE
      BY <2>2, <3>3 DEF Transmit, IKNPOTs
    <3>4. ASSUME NEW q \in Party, BaseOTs(q) PROVE FALSE
      <4>1. /\ worker[q][Snd] = "NP" /\ worker[Peer(q)][Rcv] = "NP"
            /\ worker' = [worker EXCEPT ![q][Snd] = "notify", ![Peer(q)][Rcv] = "notify"]
            /\ worker \in [Party -> [Thread -> Job \cup {"idle", "sending", "notify", "raise"}]]
        BY <1>0, <3>4 DEF BaseOTs, At, TypeOK
      <4>2. Peer(q) \in Party /\ Peer(q) # q /\ Snd \in Thread /\ Rcv \in Thread
        BY PeerIs, ThreadsAre
      <4> QED BY <2>2, <4>1, <4>2
    <3>5. ASSUME NEW k \in Thread, PaillierMTs(k) PROVE FALSE
      <4>1. worker[p][k] \in {"MTPaillier", "MTDGK"} /\ worker'[p] = [worker[p] EXCEPT ![k] = "notify"]
        BY <3>5 DEF PaillierMTs
      <4> QED BY <1>0, <2>2, <4>1 DEF TypeOK
    <3> QED BY <3>1, <3>2, <3>3, <3>4, <3>5 DEF Next
  <2> QED BY <1>1, <2>1, <2>2, HasJobStep DEF ToExtend
<1>2. CASE HeadWakes(p, "IKNPOTExt") /\ ~ Woken(p, i)
  <2>1. calls[p] # <<>> /\ Head(calls[p]).op = "wake" /\ Head(calls[p]).job = "IKNPOTExt"
    BY <1>2 DEF HeadWakes, IsWake
  <2>2. CASE ~ Main(p)
    <3>1. calls'[p] = calls[p] /\ main'[p] = main[p] /\ woken'[p] = woken[p]
      BY <1>0, <2>2, MainOnly
    <3> QED BY <1>2, <3>1 DEF ToExtend, HeadWakes, Woken
  <2>3. CASE WakeupWorkerThreads(p)
    <3>1. calls'[p] = calls[p] /\ woken'[p] = 0
      BY <1>0, <2>3 DEF WakeupWorkerThreads, TypeOK
    <3> QED BY <1>2, <3>1 DEF ToExtend, HeadWakes, Woken
  <2>4. CASE PutJob(p)
    <3>1. main[p] = "wake" /\ ThreadsFor("IKNPOTExt") = 2 /\ woken[p] \in Nat
      BY <1>0, <2>4 DEF PutJob, ThreadsFor, TypeOK
    <3>2. woken[p] <= i
      BY <1>2, <3>1 DEF Woken
    <3>3. CASE woken[p] = i
      <4>1. worker'[p][i] \in {"idle", "raise"} /\ workerEvt'[p][i] /\ job'[p][i] = "IKNPOTExt"
        BY <2>1, <2>4, <3>3, PutJobGives
      <4> QED BY <4>1 DEF ToExtend, HasJob
    <3>4. CASE woken[p] # i
      <4>1. woken[p] = 0 /\ i = 1
        BY <3>1, <3>2, <3>4
      <4>2. calls'[p] = calls[p] /\ woken'[p] = 1
        BY <1>0, <2>1, <2>4, <3>1, <4>1 DEF PutJob, TypeOK
      <4> QED BY <1>2, <4>1, <4>2 DEF ToExtend, HeadWakes, Woken
    <3> QED BY <3>3, <3>4
  <2>5. CASE Main(p) /\ ~ WakeupWorkerThreads(p) /\ ~ PutJob(p)
    BY <1>0, <2>1, <2>5 DEF Main, PrepareSharings, Returned, Garble, NoneWorking, SomeWorking, WaitEvent,
      SetSendTask, SetReceiveTask, SendKey, ReceiveKey, Online, Calls, ThreadsOK, MainOK, HeadIs
  <2> QED BY <2>2, <2>3, <2>4, <2>5
<1> QED BY <1>1, <1>2 DEF ToExtend

\* Without calls, or before the online phase, no thread is to extend OTs.
LEMMA NoneToExtend ==
    ASSUME TInv, NEW p \in Party, Returned(p) \/ Calls(p, "online"), NEW i \in Thread
    PROVE  ~ ToExtend(p, i)
<1>1. ~ Busy(p, i) /\ ~ HeadWakes(p, "IKNPOTExt")
  BY DEF TInv, ThreadsOK, MainOK, HeadIs, HeadWakes, IsWake, Returned, Calls
<1> QED BY <1>1 DEF ToExtend, HasJob, Busy

LEMMA SharingsAre ==
    ASSUME NEW l \in Seq(OTTask)
    PROVE  /\ Sharings(l) \in Seq(Sharing) /\ Len(Sharings(l)) = Len(l)
           /\ Sharings(l) = <<>> <=> l = <<>>
           /\ l # <<>> => /\ Head(l).sharing = Head(Sharings(l)) /\ Head(l) = l[1] /\ 1 \in DOMAIN l
                          /\ Sharings(Tail(l)) = Tail(Sharings(l))
<1> DEFINE s == Sharings(l)
<1>1. Len(l) \in Nat /\ DOMAIN l = 1 .. Len(l) /\ \A k \in 1 .. Len(l) : l[k] \in OTTask
  OBVIOUS
<1>2. s = [k \in 1 .. Len(l) |-> l[k].sharing]
  BY <1>1 DEF Sharings
<1>3. s \in [1 .. Len(l) -> Sharing]
  <2>1. \A k \in 1 .. Len(l) : l[k].sharing \in Sharing
    BY <1>1 DEF OTTask
  <2> QED BY <1>2, <2>1
<1>4. s \in Seq(Sharing) /\ Len(s) = Len(l) /\ \A k \in 1 .. Len(l) : s[k] = l[k].sharing
  BY <1>1, <1>2, <1>3, ListIs
<1> HIDE DEF s
<1>5. s = <<>> <=> l = <<>>
  <2>1. (Len(s) = 0 <=> s = <<>>) /\ (Len(l) = 0 <=> l = <<>>)
    BY <1>4
  <2> QED BY <1>4, <2>1
<1>6. ASSUME l # <<>>
      PROVE  Head(l).sharing = Head(s) /\ Head(l) = l[1] /\ 1 \in DOMAIN l /\ Sharings(Tail(l)) = Tail(s)
  <2> DEFINE t == Tail(l)
             u == Tail(s)
  <2>1. Len(l) \in Nat \ {0} /\ Head(l) = l[1] /\ t \in Seq(OTTask) /\ Len(t) = Len(l) - 1
        /\ \A k \in 1 .. Len(l) - 1 : t[k] = l[k+1]
    BY <1>6
  <2>2. s # <<>>
    BY <1>5, <1>6
  <2>3. Head(s) = s[1] /\ u \in Seq(Sharing) /\ Len(u) = Len(l) - 1 /\ \A k \in 1 .. Len(l) - 1 : u[k] = s[k+1]
    BY <1>4, <2>2
  <2> HIDE DEF t, u
  <2>4. DOMAIN t = 1 .. Len(l) - 1
    BY <2>1
  <2>5. Sharings(t) = [k \in 1 .. Len(l) - 1 |-> t[k].sharing]
    BY <2>4 DEF Sharings
  <2>6. ASSUME NEW k \in 1 .. Len(l) - 1 PROVE t[k].sharing = u[k]
    <3>1. k + 1 \in 1 .. Len(l)
      BY <2>1
    <3> QED BY <1>4, <2>1, <2>3, <3>1
  <2>7. u = [k \in 1 .. Len(l) - 1 |-> u[k]]
    BY <2>1, <2>3
  <2>8. Sharings(t) = u
    BY <2>5, <2>6, <2>7
  <2>9. 1 \in 1 .. Len(l)
    BY <2>1
  <2> QED BY <1>1, <1>4, <2>1, <2>3, <2>8, <2>9 DEF t, u
<1> QED BY <1>4, <1>5, <1>6 DEF s

\* What circuit k adds to queue j is the same for both parties, but for who sends.
LEMMA TasksForAre ==
    ASSUME NEW p \in Party, NEW c, NEW j \in Queue
    PROVE  /\ OTTasks(p, c, j) \in Seq(OTTask)
           /\ \A k \in DOMAIN OTTasks(p, c, j) : OTTasks(p, c, j)[k].sends <=> j = Role(p)
           /\ Sharings(OTTasks(p, c, j)) = Names(c, j)
           /\ OTTasks(p, c, j) = <<>> <=> Names(c, j) = <<>>
<1> DEFINE s == Names(c, j)
           b == (j = Role(p))
           o == OTTasks(p, c, j)
<1>1. s \in Seq(Sharing) /\ o = WithSends(s, b) /\ b \in BOOLEAN /\ (b <=> j = Role(p))
  BY OTTasksAre
<1> HIDE DEF s, b
<1>2. o \in Seq(OTTask) /\ Len(o) = Len(s) /\ (\A k \in 1 .. Len(s) : o[k] = [sharing |-> s[k], sends |-> b])
      /\ Sharings(o) = s
  BY <1>1, WithSendsIs
<1> HIDE DEF o
<1>3. \A k \in DOMAIN o : o[k].sends <=> j = Role(p)
  <2>1. ASSUME NEW k \in DOMAIN o PROVE o[k].sends <=> j = Role(p)
    <3>1. k \in 1 .. Len(s)
      BY <1>2
    <3>2. o[k] = [sharing |-> s[k], sends |-> b]
      BY <1>2, <3>1
    <3> QED BY <1>1, <3>2
  <2> QED BY <2>1
<1>4. o = <<>> <=> s = <<>>
  BY <1>2, SharingsAre
<1> QED BY <1>2, <1>3, <1>4 DEF o, s

\* Both parties' queues, seen from either.
LEMMA QueuesAgreeFor ==
    ASSUME QueuesAgree, NEW p \in Party, NEW j \in Queue
    PROVE  /\ circuit[p] = circuit[Peer(p)] => Sharings(tasks[p][j]) = Sharings(tasks[Peer(p)][j])
           /\ circuit[p] > circuit[Peer(p)] =>
                /\ tasks[Peer(p)][j] = <<>>
                /\ tasks[p][j] = TasksFor(p, j, circuit[p])
                /\ \A k \in circuit[Peer(p)] + 1 .. circuit[p] - 1 : TasksFor(p, j, k) = <<>>
BY DEF QueuesAgree, Party, Peer

\* QueuesAgree of the circuits cs and the queues ts.
Agree(cs, ts) ==
    \A j \in Queue :
        /\ cs["SERVER"] = cs["CLIENT"] => Sharings(ts["SERVER"][j]) = Sharings(ts["CLIENT"][j])
        /\ \A p \in Party : cs[p] > cs[Peer(p)] =>
             /\ ts[Peer(p)][j] = <<>>
             /\ ts[p][j] = TasksFor(p, j, cs[p])
             /\ \A k \in cs[Peer(p)] + 1 .. cs[p] - 1 : TasksFor(p, j, k) = <<>>

\* What one party sees is what both see.
LEMMA AgreeFromOne ==
    ASSUME NEW cs, NEW ts, NEW p \in Party,
           \A j \in Queue :
             /\ cs[p] = cs[Peer(p)] => Sharings(ts[p][j]) = Sharings(ts[Peer(p)][j])
             /\ cs[p] > cs[Peer(p)] =>
                  /\ ts[Peer(p)][j] = <<>>
                  /\ ts[p][j] = TasksFor(p, j, cs[p])
                  /\ \A k \in cs[Peer(p)] + 1 .. cs[p] - 1 : TasksFor(p, j, k) = <<>>
             /\ cs[Peer(p)] > cs[p] =>
                  /\ ts[p][j] = <<>>
                  /\ ts[Peer(p)][j] = TasksFor(Peer(p), j, cs[Peer(p)])
                  /\ \A k \in cs[p] + 1 .. cs[Peer(p)] - 1 : TasksFor(Peer(p), j, k) = <<>>
    PROVE  Agree(cs, ts)
<1>1. CASE p = "SERVER"
  BY <1>1 DEF Agree, Party, Peer
<1>2. CASE p = "CLIENT"
  BY <1>2 DEF Agree, Party, Peer
<1> QED BY <1>1, <1>2 DEF Party

LEMMA PrepareTasks ==
    ASSUME QInv, NEW p \in Party, PrepareSharings(p)
    PROVE  /\ TasksOK(p)'
           /\ tasks'[Peer(p)] = tasks[Peer(p)]
           /\ QueuesAgree'
<1> DEFINE q == Peer(p)
<1>0. TInv /\ TypeOK /\ QueuesAgree /\ TasksOK(p) /\ q \in Party /\ q # p /\ Peer(q) = p
  BY PeerIs DEF QInv, TInv
<1> PICK n : n = circuit[p] + 1
  OBVIOUS
<1> DEFINE c == Circuits[n]
           l == ExecCircuit(p, c)
<1>1. Returned(p) /\ n \in Nat \ {0} /\ circuit[p] = n - 1 /\ circuit[q] \in Nat
      /\ main[p] = "next" /\ n \in 1 .. Len(Circuits)
  <2>1. Returned(p) /\ main[p] = "next" /\ circuit[p] < Len(Circuits)
    BY DEF PrepareSharings, Returned
  <2>2. Len(Circuits) \in Nat
    BY SetupAssumption
  <2>3. circuit[p] \in 0 .. Len(Circuits) /\ circuit[q] \in 0 .. Len(Circuits)
    BY <1>0 DEF TypeOK
  <2> QED BY <2>1, <2>2, <2>3
<1>2. \A j \in Queue : tasks[p][j] = <<>>
  BY <1>0, <1>1, QueueThreads, NoneToExtend DEF TasksOK
<1>3. /\ circuit' = [circuit EXCEPT ![p] = n] /\ calls' = [calls EXCEPT ![p] = l]
      /\ tasks' = [tasks EXCEPT ![p] = [j \in Queue |-> tasks[p][j] \o OTTasks(p, c, j)]]
      /\ main' = main
  BY DEF PrepareSharings
<1>4. circuit'[p] = n /\ circuit'[q] = circuit[q] /\ calls'[p] = l /\ tasks'[q] = tasks[q] /\ main'[p] = "next"
  BY <1>0, <1>1, <1>3 DEF TypeOK
<1>5. ASSUME NEW j \in Queue PROVE tasks'[p][j] = OTTasks(p, c, j)
  <2>1. tasks'[p][j] = tasks[p][j] \o OTTasks(p, c, j)
    BY <1>0, <1>3 DEF TypeOK
  <2>2. OTTasks(p, c, j) \in Seq(OTTask)
    BY TasksForAre
  <2> HIDE DEF c
  <2> QED BY <1>2, <2>1, <2>2, ConcatEmptySeq
<1>6. \A j \in Queue : TasksFor(p, j, n) = OTTasks(p, c, j)
  BY DEF TasksFor
<1>7. Whole(l)
  BY <1>1, CircuitsAre, ExecCircuitWhole
<1>8. HeadWakes(p, "IKNPOTExt")'
  <2>1. l \in Seq(Call) /\ l # <<>> /\ l[1] = WakeCall("IKNPOTExt")
    BY <1>7 DEF Whole, Chain
  <2> HIDE DEF l
  <2>2. Head(l) = l[1]
    BY <2>1
  <2> QED BY <1>4, <2>1, <2>2 DEF HeadWakes, IsWake, WakeCall
<1> HIDE DEF c, l, q
<1>9. TasksOK(p)'
  <2>1. \A j \in Queue : ToExtend(p, ThreadOf(p, j))'
    BY <1>4, <1>8 DEF ToExtend, Woken
  <2>2. \A j \in Queue : \A k \in DOMAIN tasks'[p][j] : tasks'[p][j][k].sends <=> j = Role(p)
    BY <1>5, TasksForAre
  <2> QED BY <1>1, <1>4, <2>1, <2>2 DEF TasksOK
<1>10. ASSUME NEW j \in Queue
       PROVE  /\ n = circuit[q] => Sharings(tasks'[p][j]) = Sharings(tasks[q][j])
              /\ n > circuit[q] =>
                   /\ tasks[q][j] = <<>>
                   /\ tasks'[p][j] = TasksFor(p, j, n)
                   /\ \A k \in circuit[q] + 1 .. n - 1 : TasksFor(p, j, k) = <<>>
              /\ circuit[q] > n =>
                   /\ tasks'[p][j] = <<>>
                   /\ tasks[q][j] = TasksFor(q, j, circuit[q])
                   /\ \A k \in n + 1 .. circuit[q] - 1 : TasksFor(q, j, k) = <<>>
  <2>1. tasks[p][j] \in Seq(OTTask) /\ tasks[q][j] \in Seq(OTTask) /\ tasks[p][j] = <<>>
    BY <1>0, <1>2 DEF TypeOK
  <2>2. \A k : TasksFor(p, j, k) = <<>> <=> TasksFor(q, j, k) = <<>>
    BY <1>0, TasksForAre DEF TasksFor
  <2>3. CASE circuit[q] = n - 1
    <3>1. Sharings(tasks[p][j]) = Sharings(tasks[q][j])
      BY <1>0, <1>1, <2>3, QueuesAgreeFor DEF q
    <3>2. tasks[q][j] = <<>>
      BY <2>1, <3>1, SharingsAre
    <3> QED BY <1>1, <1>5, <1>6, <2>3, <3>2
  <2>4. CASE circuit[q] < n - 1
    <3>1. /\ tasks[q][j] = <<>>
          /\ tasks[p][j] = TasksFor(p, j, n - 1)
          /\ \A k \in circuit[q] + 1 .. (n - 1) - 1 : TasksFor(p, j, k) = <<>>
      BY <1>0, <1>1, <2>4, QueuesAgreeFor DEF q
    <3>2. \A k \in circuit[q] + 1 .. n - 1 : k = n - 1 \/ k \in circuit[q] + 1 .. (n - 1) - 1
      BY <1>1
    <3>3. \A k \in circuit[q] + 1 .. n - 1 : TasksFor(p, j, k) = <<>>
      BY <2>1, <3>1, <3>2
    <3> QED BY <1>1, <1>5, <1>6, <2>4, <3>1, <3>3
  <2>5. CASE circuit[q] > n - 1
    <3>1. /\ tasks[q][j] = TasksFor(q, j, circuit[q])
          /\ \A k \in (n - 1) + 1 .. circuit[q] - 1 : TasksFor(q, j, k) = <<>>
      BY <1>0, <1>1, <2>5, QueuesAgreeFor DEF q
    <3>2. CASE circuit[q] = n
      <4>1. Sharings(TasksFor(q, j, n)) = Sharings(TasksFor(p, j, n))
        BY <1>0, TasksForAre DEF TasksFor
      <4> QED BY <1>1, <1>5, <1>6, <3>1, <3>2, <4>1
    <3>3. CASE circuit[q] # n
      <4>1. n \in (n - 1) + 1 .. circuit[q] - 1
        BY <1>1, <2>5, <3>3
      <4>2. TasksFor(p, j, n) = <<>>
        BY <2>2, <3>1, <4>1
      <4>3. \A k \in n + 1 .. circuit[q] - 1 : k \in (n - 1) + 1 .. circuit[q] - 1
        BY <1>1
      <4> QED BY <1>1, <1>5, <1>6, <2>5, <3>1, <3>3, <4>2, <4>3
    <3> QED BY <3>2, <3>3
  <2> QED BY <1>1, <2>3, <2>4, <2>5
<1>11. Agree(circuit', tasks')
  <2>1. /\ circuit'[p] = n /\ circuit'[Peer(p)] = circuit[q] /\ Peer(p) = q
        /\ tasks'[Peer(p)] = tasks[q]
    BY <1>4 DEF q
  <2> PICK cs, ts : cs = circuit' /\ ts = tasks'
    OBVIOUS
  <2>2. cs[p] = n /\ cs[Peer(p)] = circuit[q] /\ ts[Peer(p)] = tasks[q]
    BY <2>1
  <2>3. \A j \in Queue :
             /\ cs[p] = cs[Peer(p)] => Sharings(ts[p][j]) = Sharings(ts[Peer(p)][j])
             /\ cs[p] > cs[Peer(p)] =>
                  /\ ts[Peer(p)][j] = <<>>
                  /\ ts[p][j] = TasksFor(p, j, cs[p])
                  /\ \A k \in cs[Peer(p)] + 1 .. cs[p] - 1 : TasksFor(p, j, k) = <<>>
             /\ cs[Peer(p)] > cs[p] =>
                  /\ ts[p][j] = <<>>
                  /\ ts[Peer(p)][j] = TasksFor(Peer(p), j, cs[Peer(p)])
                  /\ \A k \in cs[p] + 1 .. cs[Peer(p)] - 1 : TasksFor(Peer(p), j, k) = <<>>
    <3> SUFFICES ASSUME NEW j \in Queue
                 PROVE  /\ n = circuit[q] => Sharings(ts[p][j]) = Sharings(ts[Peer(p)][j])
                        /\ n > circuit[q] =>
                             /\ ts[Peer(p)][j] = <<>>
                             /\ ts[p][j] = TasksFor(p, j, n)
                             /\ \A k \in circuit[q] + 1 .. n - 1 : TasksFor(p, j, k) = <<>>
                        /\ circuit[q] > n =>
                             /\ ts[p][j] = <<>>
                             /\ ts[Peer(p)][j] = TasksFor(q, j, circuit[q])
                             /\ \A k \in n + 1 .. circuit[q] - 1 : TasksFor(q, j, k) = <<>>
      BY <2>1, <2>2
    <3> QED BY <1>10, <2>2
  <2> HIDE DEF q
  <2>4. Agree(cs, ts)
    BY ONLY <2>3, p \in Party, AgreeFromOne
  <2> QED BY <2>4
<1>12. QueuesAgree'
  BY <1>11 DEF QueuesAgree, Agree
<1> QED BY <1>4, <1>9, <1>12 DEF q

\* A queue that stays or loses its first task stays a queue of its circuit.
LEMMA TasksKept ==
    ASSUME TInv, Next, NEW p \in Party, TasksOK(p), circuit'[p] = circuit[p],
           \A j \in Queue : \/ tasks'[p][j] = tasks[p][j]
                            \/ tasks[p][j] # <<>> /\ tasks'[p][j] = Tail(tasks[p][j])
    PROVE  TasksOK(p)'
<1>1. ASSUME NEW j \in Queue
      PROVE  /\ \A k \in DOMAIN tasks'[p][j] : tasks'[p][j][k].sends <=> j = Role(p)
             /\ tasks'[p][j] # <<>> => tasks[p][j] # <<>>
  <2> DEFINE l == tasks[p][j]
             t == tasks'[p][j]
  <2>1. l \in Seq(OTTask) /\ \A k \in DOMAIN l : l[k].sends <=> j = Role(p)
    BY DEF TInv, TypeOK, TasksOK
  <2>2. t = l \/ (l # <<>> /\ t = Tail(l))
    OBVIOUS
  <2> HIDE DEF l, t
  <2>3. CASE t = l
    BY <2>1, <2>3 DEF l, t
  <2>4. CASE l # <<>> /\ t = Tail(l)
    <3>1. Len(l) \in Nat \ {0} /\ t \in Seq(OTTask) /\ Len(t) = Len(l) - 1 /\ \A k \in 1 .. Len(l) - 1 : t[k] = l[k+1]
      BY <2>1, <2>4
    <3>2. ASSUME NEW k \in DOMAIN t PROVE t[k].sends <=> j = Role(p)
      <4>1. k \in 1 .. Len(l) - 1 /\ k + 1 \in DOMAIN l
        BY <2>1, <3>1
      <4> QED BY <2>1, <3>1, <4>1
    <3> QED BY <2>4, <3>2 DEF l, t
  <2> QED BY <2>2, <2>3, <2>4
<1>2. ASSUME NEW j \in Queue, tasks'[p][j] # <<>> PROVE ToExtend(p, ThreadOf(p, j))'
  <2>1. tasks[p][j] # <<>> /\ ToExtend(p, ThreadOf(p, j))
    BY <1>1, <1>2 DEF TasksOK
  <2>2. ThreadOf(p, j) \in Thread /\ ThreadOf(p, j) \in {0, 1} /\ TaskOf(p, ThreadOf(p, j)) = tasks[p][j]
    BY QueueThreads
  <2>3. ~ IKNPDone(p, ThreadOf(p, j))
    BY <2>1, <2>2 DEF IKNPDone
  <2> PICK i \in Thread : i = ThreadOf(p, j)
    BY <2>2
  <2>4. ToExtend(p, i)'
    BY <2>1, <2>2, <2>3, ToExtendKept
  <2>5. (ThreadOf(p, j))' = i
    BY DEF ThreadOf
  <2> QED BY <2>4, <2>5 DEF ToExtend, HeadWakes, Woken, HasJob
<1>3. ASSUME NEW j \in Queue, circuit'[p] = 0 PROVE tasks'[p][j] = <<>>
  BY <1>1, <1>3 DEF TasksOK
<1> QED BY <1>1, <1>2, <1>3 DEF TasksOK

\* A task of the queue of both threads is taken by both.
LEMMA TakenTogether ==
    ASSUME QInv, NEW p \in Party, IKNPOTs(p)
    PROVE  /\ circuit' = circuit
           /\ \A r \in Party : \A j \in Queue :
                \/ tasks'[r][j] = tasks[r][j]
                \/ tasks[r][j] # <<>> /\ tasks'[r][j] = Tail(tasks[r][j])
           /\ QueuesAgree'
<1> DEFINE q == Peer(p)
<1> PICK h \in Queue : h = QueueFor(p, Snd)
  BY DEF QueueFor, Snd, Queue, Party
<1>0. TypeOK /\ QueuesAgree /\ q \in Party /\ q # p /\ QueueFor(q, Rcv) = h
      /\ \A r \in Party : r = p \/ r = q
  BY DEF QInv, TInv, QueueFor, Snd, Rcv, Party, Peer
<1>1. /\ circuit' = circuit
      /\ tasks[p][h] # <<>> /\ tasks[q][h] # <<>>
      /\ tasks' = [tasks EXCEPT ![p][h] = Tail(@), ![q][h] = Tail(@)]
  BY <1>0 DEF IKNPOTs, TaskOf
<1>2. /\ tasks'[p] = [tasks[p] EXCEPT ![h] = Tail(tasks[p][h])]
      /\ tasks'[q] = [tasks[q] EXCEPT ![h] = Tail(tasks[q][h])]
  BY <1>0, <1>1 DEF TypeOK
<1>3. \A j \in Queue : \A r \in Party : tasks'[r][j] = IF j = h THEN Tail(tasks[r][j]) ELSE tasks[r][j]
  BY <1>0, <1>2 DEF TypeOK
<1>4. \A r \in Party : \A j \in Queue :
        \/ tasks'[r][j] = tasks[r][j]
        \/ tasks[r][j] # <<>> /\ tasks'[r][j] = Tail(tasks[r][j])
  BY <1>0, <1>1, <1>3
<1>5. circuit[p] = circuit[q]
  <2>1. ~ (circuit[p] > circuit[q])
    BY <1>0, <1>1, QueuesAgreeFor
  <2>2. ~ (circuit[q] > circuit[p])
    BY <1>0, <1>1, QueuesAgreeFor, PeerIs
  <2>3. circuit[p] \in Nat /\ circuit[q] \in Nat
    BY <1>0, SetupAssumption DEF TypeOK
  <2> QED BY <2>1, <2>2, <2>3
<1>6. ASSUME NEW j \in Queue PROVE Sharings(tasks'[p][j]) = Sharings(tasks'[q][j])
  <2>1. tasks[p][j] \in Seq(OTTask) /\ tasks[q][j] \in Seq(OTTask)
    BY <1>0 DEF TypeOK
  <2>2. Sharings(tasks[p][j]) = Sharings(tasks[q][j])
    BY <1>0, <1>5, QueuesAgreeFor
  <2>3. CASE j = h
    <3>1. Sharings(Tail(tasks[p][h])) = Tail(Sharings(tasks[p][h]))
      BY <1>1, <2>1, <2>3, SharingsAre
    <3>2. Sharings(Tail(tasks[q][h])) = Tail(Sharings(tasks[q][h]))
      BY <1>1, <2>1, <2>3, SharingsAre
    <3> QED BY <1>0, <1>3, <2>2, <2>3, <3>1, <3>2
  <2>4. CASE j # h
    BY <1>0, <1>3, <2>2, <2>4
  <2> QED BY <2>3, <2>4
<1>7. Agree(circuit', tasks')
  <2> PICK cs, ts : cs = circuit' /\ ts = tasks'
    OBVIOUS
  <2>1. cs[p] = cs[Peer(p)] /\ cs[p] \in Nat /\ \A j \in Queue : Sharings(ts[p][j]) = Sharings(ts[Peer(p)][j])
    <3>1. circuit[p] \in Nat
      BY <1>0, SetupAssumption DEF TypeOK
    <3> QED BY <1>1, <1>5, <1>6, <3>1
  <2>2. ~ (cs[p] > cs[Peer(p)]) /\ ~ (cs[Peer(p)] > cs[p])
    BY <2>1
  <2> QED BY <2>1, <2>2, AgreeFromOne
<1> QED BY <1>1, <1>4, <1>7 DEF QueuesAgree, Agree

\* Reset finds the lists empty.
LEMMA OnlineTasks ==
    ASSUME QInv, NEW p \in Party, Online(p)
    PROVE  tasks' = tasks /\ circuit' = circuit
<1>1. TInv /\ TypeOK /\ TasksOK(p) /\ Calls(p, "online")
  BY DEF QInv, TInv, Online
<1>2. \A j \in Queue : tasks[p][j] = <<>>
  BY <1>1, QueueThreads, NoneToExtend DEF TasksOK
<1>3. tasks \in [Party -> [Queue -> Seq(OTTask)]] /\ tasks' = [tasks EXCEPT ![p] = [j \in Queue |-> <<>>]]
  BY <1>1 DEF TypeOK, Online
<1>4. tasks[p] = [j \in Queue |-> <<>>]
  BY <1>2, <1>3
<1> QED BY <1>3, <1>4 DEF Online

\* Nothing else touches the queues.
LEMMA OtherTasks ==
    ASSUME Next, \A p \in Party : ~ PrepareSharings(p) /\ ~ Online(p) /\ ~ IKNPOTs(p)
    PROVE  tasks' = tasks /\ circuit' = circuit
<1>1. ASSUME NEW p \in Party, Main(p) PROVE tasks' = tasks /\ circuit' = circuit
  BY <1>1 DEF Main, Garble, WakeupWorkerThreads, PutJob, NoneWorking, SomeWorking, WaitEvent,
    SetSendTask, SetReceiveTask, SendKey, ReceiveKey
<1>2. ASSUME NEW p \in Party, NEW i \in Thread, Worker(p, i) PROVE tasks' = tasks /\ circuit' = circuit
  BY <1>2 DEF Worker, TakeJob, IKNPDone, SendData, SendDone, ReceiveData, Notify, RaiseEvent
<1>3. ASSUME NEW p \in Party, BaseOTs(p) \/ Transmit(p) PROVE tasks' = tasks /\ circuit' = circuit
  BY <1>3 DEF BaseOTs, Transmit
<1>4. ASSUME NEW i \in Thread, PaillierMTs(i) PROVE tasks' = tasks /\ circuit' = circuit
  BY <1>4 DEF PaillierMTs
<1> QED BY <1>1, <1>2, <1>3, <1>4 DEF Next

LEMMA NextQueues ==
    ASSUME QInv, Next
    PROVE  QueuesAgree' /\ \A p \in Party : TasksOK(p)'
<1>0. TInv /\ QueuesAgree /\ \A p \in Party : TasksOK(p)
  BY DEF QInv
<1>1. CASE tasks' = tasks /\ circuit' = circuit
  <2>1. QueuesAgree'
    BY <1>0, <1>1 DEF QueuesAgree
  <2>2. \A p \in Party : TasksOK(p)'
    BY <1>0, <1>1, TasksKept
  <2> QED BY <2>1, <2>2
<1>2. ASSUME NEW p \in Party, PrepareSharings(p)
      PROVE  QueuesAgree' /\ \A r \in Party : TasksOK(r)'
  <2>1. TasksOK(p)' /\ tasks'[Peer(p)] = tasks[Peer(p)] /\ QueuesAgree'
    BY <1>2, PrepareTasks
  <2>2. Peer(p) \in Party /\ Peer(p) # p /\ \A r \in Party : r = p \/ r = Peer(p)
    BY DEF Party, Peer
  <2>3. circuit'[Peer(p)] = circuit[Peer(p)]
    BY <1>0, <1>2, <2>2 DEF PrepareSharings, TInv, TypeOK
  <2>4. TasksOK(Peer(p))'
    BY <1>0, <2>1, <2>2, <2>3, TasksKept
  <2> QED BY <2>1, <2>2, <2>4
<1>3. ASSUME NEW p \in Party, IKNPOTs(p)
      PROVE  QueuesAgree' /\ \A r \in Party : TasksOK(r)'
  <2>1. /\ circuit' = circuit
        /\ \A r \in Party : \A j \in Queue :
             \/ tasks'[r][j] = tasks[r][j]
             \/ tasks[r][j] # <<>> /\ tasks'[r][j] = Tail(tasks[r][j])
        /\ QueuesAgree'
    BY <1>3, TakenTogether
  <2>2. \A r \in Party : TasksOK(r)'
    BY <1>0, <2>1, TasksKept
  <2> QED BY <2>1, <2>2
<1> QED BY <1>1, <1>2, <1>3, OnlineTasks, OtherTasks

LEMMA InitQueues == ASSUME Init PROVE QueuesAgree /\ \A p \in Party : TasksOK(p)
<1>1. \A p \in Party : circuit[p] = 0 /\ \A j \in Queue : tasks[p][j] = <<>>
  BY DEF Init
<1>2. QueuesAgree
  <2>1. "SERVER" \in Party /\ "CLIENT" \in Party /\ \A p \in Party : Peer(p) \in Party
    BY DEF Party, Peer
  <2>2. ~ (0 > 0)
    OBVIOUS
  <2> QED BY <1>1, <2>1, <2>2 DEF QueuesAgree
<1>3. \A p \in Party : TasksOK(p)
  BY <1>1 DEF TasksOK
<1> QED BY <1>2, <1>3

\* Both parties fill their OT queues for a circuit alike, and take from them
\* together.
THEOREM QueuesInvariance == Spec => []QInv
<1>1. Init => QInv
  BY InitTypes, InitThreads, InitQueues DEF QInv, TInv
<1>2. QInv /\ [Next]_vars => QInv'
  <2>1. ASSUME QInv, Next PROVE QInv'
    BY <2>1, NextTypes, NextThreads, NextQueues DEF QInv, TInv
  <2>2. ASSUME QInv, UNCHANGED vars PROVE QInv'
    <3>1. TInv'
      BY <2>2, NextThreads DEF QInv
    <3>2. QueuesAgree' /\ \A p \in Party : TasksOK(p)'
      BY <2>2 DEF QInv, vars, QueuesAgree, TasksOK, ToExtend, HeadWakes, Woken, HasJob, ThreadOf
    <3> QED BY <3>1, <3>2 DEF QInv
  <2> QED BY <2>1, <2>2
<1> QED BY <1>1, <1>2, PTL DEF Spec

\* Two threads that run an OT together have the sender's and the receiver's
\* task of the same sharing, in every reachable state.
THEOREM OTsPairedHolds == Spec => []OTsPaired
<1>1. QInv => OTsPaired
  <2> SUFFICES ASSUME QInv, NEW p \in Party, TaskOf(p, Snd) # <<>>, TaskOf(Peer(p), Rcv) # <<>>
               PROVE  /\ Head(TaskOf(p, Snd)).sharing = Head(TaskOf(Peer(p), Rcv)).sharing
                      /\ Head(TaskOf(p, Snd)).sends /\ ~Head(TaskOf(Peer(p), Rcv)).sends
    BY DEF OTsPaired
  <2> DEFINE q == Peer(p)
  <2> PICK h \in Queue : h = QueueFor(p, Snd)
    BY DEF QueueFor, Snd, Queue, Party
  <2>1. TypeOK /\ QueuesAgree /\ TasksOK(p) /\ TasksOK(q) /\ q \in Party /\ QueueFor(q, Rcv) = h
        /\ h = Role(p) /\ h # Role(q)
    BY DEF QInv, TInv, QueueFor, Snd, Rcv, Party, Peer, Role
  <2>2. tasks[p][h] # <<>> /\ tasks[q][h] # <<>>
    BY <2>1 DEF TaskOf
  <2>3. circuit[p] = circuit[q]
    <3>1. ~ (circuit[p] > circuit[q])
      BY <2>1, <2>2, QueuesAgreeFor
    <3>2. ~ (circuit[q] > circuit[p])
      BY <2>1, <2>2, QueuesAgreeFor, PeerIs
    <3>3. circuit[p] \in Nat /\ circuit[q] \in Nat
      BY <2>1, SetupAssumption DEF TypeOK
    <3> QED BY <3>1, <3>2, <3>3
  <2>4. Sharings(tasks[p][h]) = Sharings(tasks[q][h])
    BY <2>1, <2>3, QueuesAgreeFor
  <2>5. tasks[p][h] \in Seq(OTTask) /\ tasks[q][h] \in Seq(OTTask)
    BY <2>1 DEF TypeOK
  <2>6. /\ Head(tasks[p][h]).sharing = Head(Sharings(tasks[p][h])) /\ Head(tasks[p][h]) = tasks[p][h][1]
        /\ 1 \in DOMAIN tasks[p][h]
    BY <2>2, <2>5, SharingsAre
  <2>7. /\ Head(tasks[q][h]).sharing = Head(Sharings(tasks[q][h])) /\ Head(tasks[q][h]) = tasks[q][h][1]
        /\ 1 \in DOMAIN tasks[q][h]
    BY <2>2, <2>5, SharingsAre
  <2>8. (tasks[p][h][1].sends <=> h = Role(p)) /\ (tasks[q][h][1].sends <=> h = Role(q))
    BY <2>1, <2>6, <2>7 DEF TasksOK
  <2>9. TaskOf(p, Snd) = tasks[p][h] /\ TaskOf(q, Rcv) = tasks[q][h]
    BY <2>1 DEF TaskOf
  <2> QED BY <2>1, <2>4, <2>6, <2>7, <2>8, <2>9
<1> QED BY <1>1, QueuesInvariance, PTL

(***************************************************************************)
(* Homomorphic triples.                                                    *)
(***************************************************************************)

LEMMA TailMT ==
    ASSUME NEW list \in Seq(Call), list # <<>>,
           \A k, l \in 1 .. Len(list) : IsMT(list[k]) /\ IsMT(list[l]) => k = l
    PROVE  /\ \A k, l \in 1 .. Len(Tail(list)) : IsMT(Tail(list)[k]) /\ IsMT(Tail(list)[l]) => k = l
           /\ SomeMT(list) <=> IsMT(Head(list)) \/ SomeMT(Tail(list))
           /\ IsMT(Head(list)) => ~ SomeMT(Tail(list))
<1> DEFINE t == Tail(list)
<1>1. /\ Len(list) \in Nat \ {0} /\ Head(list) = list[1] /\ Len(t) = Len(list) - 1
      /\ \A k \in 1 .. Len(t) : t[k] = list[k+1]
  OBVIOUS
<1> HIDE DEF t
<1>2. \A k \in 1 .. Len(t) : k + 1 \in 1 .. Len(list) /\ k + 1 # 1 /\ t[k] = list[k+1]
  BY <1>1
<1>3. 1 \in 1 .. Len(list)
  BY <1>1
<1>4. ASSUME NEW k \in 1 .. Len(t), NEW l \in 1 .. Len(t), IsMT(t[k]), IsMT(t[l]) PROVE k = l
  <2>1. k + 1 = l + 1
    BY <1>2, <1>4
  <2> QED BY <2>1
<1>5. IsMT(Head(list)) => ~ SomeMT(t)
  BY <1>1, <1>2, <1>3 DEF SomeMT
<1>6. ASSUME SomeMT(list), ~ IsMT(Head(list)) PROVE SomeMT(t)
  <2>1. PICK k \in 1 .. Len(list) : IsMT(list[k])
    BY <1>6 DEF SomeMT
  <2>2. k # 1
    BY <1>1, <1>6, <2>1
  <2>3. PICK l \in 1 .. Len(t) : k = l + 1
    BY <1>1, <2>2
  <2> QED BY <1>2, <2>1, <2>3 DEF SomeMT
<1>7. IsMT(Head(list)) \/ SomeMT(t) => SomeMT(list)
  BY <1>1, <1>2, <1>3 DEF SomeMT
<1> QED BY <1>4, <1>5, <1>6, <1>7 DEF t

\* What a step other than the start of a circuit does to the calls of a party.
LEMMA CallsStep ==
    ASSUME TInv, Next, NEW p \in Party, ~ PrepareSharings(p)
    PROVE  /\ circuit'[p] = circuit[p]
           /\ \/ calls'[p] = calls[p] /\ ~ PutJob(p)
              \/ PutJob(p)
              \/ /\ calls[p] # <<>> /\ calls'[p] = Tail(calls[p]) /\ ~ PutJob(p)
                 /\ ~ IsMT(Head(calls[p]))
              \/ Garble(p) /\ calls[p] # <<>> /\ NoMT(calls[p]) /\ NoMT(calls'[p]) /\ ~ PutJob(p)
<1>0. TypeOK /\ OrderOK(p) /\ MainOK(p)
  BY DEF TInv, ThreadsOK
<1>1. CASE ~ Main(p)
  BY <1>0, <1>1, MainOnly DEF Main
<1>2. CASE Garble(p)
  <2> DEFINE g == Head(calls[p])
             t == Tail(calls[p])
             new == (IF g.gate < Len(g.need.ands) THEN EvaluateANDGate(g) ELSE SendRest(g)) \o t
  <2>1. HeadIs(p, "garble") /\ main[p] = "next" /\ calls[p] # <<>> /\ circuit' = circuit
        /\ calls' = [calls EXCEPT ![p] = new]
    BY <1>2 DEF Garble, Calls, HeadIs
  <2>2. g \in Garbling /\ Rest(t) /\ NoMT(calls[p])
    BY <1>0, <2>1, CallsGarble
  <2>3. Rest(new)
    BY <2>2, RestGarble
  <2> HIDE DEF new
  <2>4. calls'[p] = new
    BY <1>0, <2>1 DEF TypeOK
  <2>5. NoMT(calls'[p])
    BY <2>3, <2>4 DEF Rest, NoMT
  <2>6. ~ PutJob(p)
    BY <2>1 DEF PutJob
  <2> QED BY <1>2, <2>1, <2>2, <2>5, <2>6
<1>3. CASE WakeupWorkerThreads(p) \/ SomeWorking(p) \/ WaitEvent(p)
  <2>1. calls'[p] = calls[p] /\ circuit' = circuit
    BY <1>0, <1>3 DEF WakeupWorkerThreads, SomeWorking, WaitEvent, ReadAgain, TypeOK
  <2>2. ~ PutJob(p)
    BY <1>3 DEF WakeupWorkerThreads, SomeWorking, WaitEvent, PutJob, Calls
  <2> QED BY <2>1, <2>2
<1>4. CASE \/ NoneWorking(p) \/ SetSendTask(p) \/ SetReceiveTask(p) \/ SendKey(p) \/ ReceiveKey(p) \/ Online(p)
  <2>1. /\ main[p] = "next" /\ calls[p] # <<>> /\ Head(calls[p]).op # "wake"
        /\ Return(p) /\ circuit' = circuit
    BY <1>4 DEF NoneWorking, SetSendTask, SetReceiveTask, SendKey, ReceiveKey, Online, Calls
  <2>2. calls'[p] = Tail(calls[p])
    BY <1>0, <2>1 DEF Return, TypeOK
  <2>3. ~ PutJob(p) /\ ~ IsMT(Head(calls[p]))
    BY <2>1 DEF PutJob, IsMT
  <2> QED BY <2>1, <2>2, <2>3
<1>5. CASE PutJob(p)
  BY <1>5 DEF PutJob
<1> QED BY <1>1, <1>2, <1>3, <1>4, <1>5 DEF Main

LEMMA PutJobCalls ==
    ASSUME TInv, NEW p \in Party, PutJob(p)
    PROVE  /\ main[p] = "wake" /\ calls[p] # <<>> /\ woken[p] \in Nat
           /\ \/ /\ woken[p] + 1 = ThreadsFor(Head(calls[p]).job)
                 /\ calls'[p] = Tail(calls[p]) /\ main'[p] = "next"
              \/ calls'[p] = calls[p] /\ main'[p] = "wake"
           /\ woken'[p] = woken[p] + 1
<1> DEFINE e == Head(calls[p]).job
<1>0. TypeOK /\ calls[p] # <<>> /\ woken[p] \in Nat
  BY PutJobGives DEF TInv, TypeOK, HeadIs
<1>1. /\ main[p] = "wake" /\ woken' = [woken EXCEPT ![p] = woken[p] + 1]
      /\ \/ woken[p] + 1 = ThreadsFor(e) /\ Return(p) /\ main' = [main EXCEPT ![p] = "next"]
         \/ calls' = calls /\ main' = main
  BY DEF PutJob
<1> HIDE DEF e
<1>2. woken'[p] = woken[p] + 1
  BY <1>0, <1>1 DEF TypeOK
<1>3. CASE woken[p] + 1 = ThreadsFor(e) /\ Return(p) /\ main' = [main EXCEPT ![p] = "next"]
  <2>1. calls'[p] = Tail(calls[p]) /\ main'[p] = "next"
    BY <1>0, <1>3 DEF TypeOK, Return
  <2> QED BY <1>0, <1>1, <1>2, <1>3, <2>1 DEF e
<1>4. CASE calls' = calls /\ main' = main
  BY <1>0, <1>1, <1>2, <1>4
<1> QED BY <1>1, <1>3, <1>4

\* Only PutJob gets on to a thread.
LEMMA WokenStep ==
    ASSUME TInv, Next, NEW p \in Party, NEW i \in Thread, ~ PutJob(p)
    PROVE  Woken(p, i)' <=> Woken(p, i)
<1>0. TypeOK
  BY DEF TInv
<1>1. CASE ~ Main(p)
  BY <1>0, <1>1, MainOnly DEF Woken
<1>2. CASE WakeupWorkerThreads(p)
  <2>1. main[p] = "next" /\ woken'[p] = 0 /\ i \in Nat
    BY <1>0, <1>2, ThreadsAre DEF WakeupWorkerThreads, Calls, TypeOK
  <2> QED BY <2>1 DEF Woken
<1>3. CASE Main(p) /\ ~ WakeupWorkerThreads(p)
  <2>1. main[p] # "wake" /\ main'[p] # "wake"
    BY <1>0, <1>3 DEF Main, PrepareSharings, Returned, Garble, NoneWorking, SomeWorking, WaitEvent,
      SetSendTask, SetReceiveTask, SendKey, ReceiveKey, Online, Calls, TypeOK
  <2> QED BY <2>1 DEF Woken
<1> QED BY <1>1, <1>2, <1>3

\* The wake-up for triples is ahead until PutJob reaches the thread.
LEMMA AheadStep ==
    ASSUME TInv, Next, NEW p \in Party, MadeOK(p), ~ PrepareSharings(p), NEW i \in Thread
    PROVE  /\ \A k, l \in 1 .. Len(calls'[p]) : IsMT(calls'[p][k]) /\ IsMT(calls'[p][l]) => k = l
           /\ Ahead(p, i)' <=> Ahead(p, i) /\ ~ (PutJob(p) /\ i = woken[p] /\ HeadMT(p))
           /\ PutJob(p) /\ i = woken[p] /\ HeadMT(p) => Ahead(p, i)
           /\ calls'[p] # <<>> => calls[p] # <<>>
<1> DEFINE c == calls[p]
           t == Tail(c)
<1>1. c \in Seq(Call) /\ \A k, l \in 1 .. Len(c) : IsMT(c[k]) /\ IsMT(c[l]) => k = l
  BY DEF TInv, TypeOK, MadeOK
<1>2. ASSUME c # <<>>
      PROVE  /\ \A k, l \in 1 .. Len(t) : IsMT(t[k]) /\ IsMT(t[l]) => k = l
             /\ SomeMT(c) <=> IsMT(Head(c)) \/ SomeMT(t)
             /\ IsMT(Head(c)) => ~ SomeMT(t)
  <2> HIDE DEF c
  <2> QED BY <1>1, <1>2, TailMT
<1>3. CASE calls'[p] = c /\ ~ PutJob(p)
  BY <1>1, <1>3, WokenStep DEF Ahead, HeadMT
<1>4. CASE c # <<>> /\ calls'[p] = t /\ ~ PutJob(p) /\ ~ IsMT(Head(c))
  <2>1. Woken(p, i)' <=> Woken(p, i)
    BY <1>4, WokenStep
  <2>2. ~ Woken(p, i)
    <3>1. Main(p)
      <4>1. ASSUME ~ Main(p) PROVE FALSE
        <5>1. calls'[p] = c
          BY <4>1, MainOnly DEF TInv
        <5>2. Len(t) = Len(c) - 1 /\ Len(c) \in Nat
          BY <1>1, <1>4
        <5>3. t = c
          BY <1>4, <5>1
        <5> HIDE DEF c, t
        <5>4. Len(c) = Len(c) - 1
          BY <5>2, <5>3
        <5> QED BY <5>2, <5>4
      <4> QED BY <4>1
    <3> QED BY <1>4, <3>1 DEF Woken, Main, PrepareSharings, Returned, Garble, WakeupWorkerThreads, NoneWorking,
          SomeWorking, WaitEvent, SetSendTask, SetReceiveTask, SendKey, ReceiveKey, Online, Calls
  <2> QED BY <1>2, <1>4, <2>1, <2>2 DEF Ahead, HeadMT
<1>5. CASE Garble(p) /\ c # <<>> /\ NoMT(c) /\ NoMT(calls'[p]) /\ ~ PutJob(p)
  BY <1>5 DEF NoMT, Ahead, SomeMT
<1>6. CASE PutJob(p)
  <2>1. /\ main[p] = "wake" /\ c # <<>> /\ woken[p] \in Nat /\ i \in Nat
        /\ \/ /\ woken[p] + 1 = ThreadsFor(Head(c).job)
              /\ calls'[p] = t /\ main'[p] = "next"
           \/ calls'[p] = c /\ main'[p] = "wake"
        /\ woken'[p] = woken[p] + 1
    BY <1>6, PutJobCalls, ThreadsAre
  <2>2. HeadMT(p) <=> IsMT(Head(c))
    BY DEF HeadMT
  <2>3. Woken(p, i) <=> i < woken[p]
    BY <2>1 DEF Woken
  <2>4. CASE woken[p] + 1 = ThreadsFor(Head(c).job) /\ calls'[p] = t /\ main'[p] = "next"
    <3>1. ~ Woken(p, i)' /\ (Ahead(p, i)' <=> SomeMT(t))
      BY <2>4 DEF Woken, Ahead
    <3>2. CASE IsMT(Head(c))
      <4>1. ThreadsFor(Head(c).job) = 2 * NumOTThreads
        BY <3>2 DEF IsMT, MTJob, ThreadsFor
      <4>2. i < 2 * NumOTThreads
        BY <2>1, ThreadsAre
      <4>3. i <= woken[p]
        BY <2>1, <2>4, <4>1, <4>2, ThreadsAre
      <4>4. Ahead(p, i) <=> i = woken[p]
        BY <1>2, <2>1, <2>2, <2>3, <3>2, <4>3 DEF Ahead
      <4> QED BY <1>2, <1>6, <2>1, <2>2, <2>4, <3>1, <3>2, <4>4
    <3>3. CASE ~ IsMT(Head(c))
      <4>1. Ahead(p, i) <=> SomeMT(t)
        BY <1>2, <2>1, <2>2, <3>3 DEF Ahead
      <4> QED BY <1>2, <2>1, <2>2, <2>4, <3>1, <3>3, <4>1
    <3> QED BY <3>2, <3>3
  <2>5. CASE calls'[p] = c /\ main'[p] = "wake"
    <3>1. Woken(p, i)' <=> i < woken[p] + 1
      BY <2>1, <2>5 DEF Woken
    <3>2. Ahead(p, i)' <=> SomeMT(c) /\ ~ (IsMT(Head(c)) /\ i < woken[p] + 1)
      BY <2>5, <3>1 DEF Ahead, HeadMT
    <3>3. Ahead(p, i) <=> SomeMT(c) /\ ~ (IsMT(Head(c)) /\ i < woken[p])
      BY <2>3 DEF Ahead, HeadMT
    <3>4. IsMT(Head(c)) => SomeMT(c)
      BY <1>2, <2>1
    <3>5. i < woken[p] + 1 <=> i < woken[p] \/ i = woken[p]
      BY <2>1
    <3>6. ~ (i < i)
      BY <2>1
    <3> QED BY <1>1, <1>6, <2>1, <2>2, <2>5, <3>2, <3>3, <3>4, <3>5, <3>6
  <2> QED BY <2>1, <2>4, <2>5
<1> QED BY <1>3, <1>4, <1>5, <1>6, CallsStep

\* A thread is rid of its triples by making them.
LEMMA MTDone ==
    ASSUME TInv, Next, NEW p \in Party, NEW i \in Thread, HasMT(p, i)
    PROVE  HasMT(p, i)' \/ PaillierMTs(i)
<1>0. TypeOK
  BY DEF TInv
<1>1. PICK e \in MTJob : HasJob(p, i, e)
  BY DEF HasMT
<1>2. e \in Job
  BY DEF MTJob, Job
<1>3. CASE HasJob(p, i, e)'
  BY <1>3 DEF HasMT
<1>4. CASE worker[p][i] = e /\ worker'[p][i] # e
  <2>1. ASSUME NEW q \in Party, Main(q) PROVE FALSE
    <3>1. worker'[p] = worker[p]
      BY <1>0, <2>1, MainKeepsJobs, PutJobGives
    <3> QED BY <1>4, <3>1
  <2>2. ASSUME NEW q \in Party, NEW k \in Thread, Worker(q, k) PROVE FALSE
    <3>1. q # p => worker'[p] = worker[p]
      BY <1>0, <2>2, OthersThreads DEF SameThreads
    <3>2. q = p /\ k # i => worker'[p][i] = worker[p][i]
      BY <1>0, <2>2, WorkerStep
    <3>3. q = p /\ k = i
      BY <1>4, <3>1, <3>2
    <3>4. worker[p][i] \in {"MTPaillier", "MTDGK"}
      BY <1>4 DEF MTJob
    <3> QED BY <2>2, <3>3, <3>4 DEF Worker, TakeJob, IKNPDone, SendData, SendDone, ReceiveData, Notify, RaiseEvent, At
  <2>3. ASSUME NEW q \in Party, Transmit(q) \/ IKNPOTs(q) PROVE FALSE
    BY <1>4, <2>3 DEF Transmit, IKNPOTs
  <2>4. ASSUME NEW q \in Party, BaseOTs(q) PROVE FALSE
    <3>1. /\ worker[q][Snd] = "NP" /\ worker[Peer(q)][Rcv] = "NP"
          /\ worker' = [worker EXCEPT ![q][Snd] = "notify", ![Peer(q)][Rcv] = "notify"]
          /\ worker \in [Party -> [Thread -> Job \cup {"idle", "sending", "notify", "raise"}]]
      BY <1>0, <2>4 DEF BaseOTs, At, TypeOK
    <3>2. Peer(q) \in Party /\ Peer(q) # q /\ Snd \in Thread /\ Rcv \in Thread /\ e # "NP"
      BY PeerIs, ThreadsAre DEF MTJob
    <3> QED BY <1>4, <3>1, <3>2
  <2>5. ASSUME NEW k \in Thread, PaillierMTs(k) PROVE k = i
    <3>1. worker'[p] = [worker[p] EXCEPT ![k] = "notify"]
      BY <2>5 DEF PaillierMTs
    <3> QED BY <1>0, <1>4, <3>1 DEF TypeOK
  <2> QED BY <2>1, <2>2, <2>3, <2>4, <2>5 DEF Next
<1> QED BY <1>1, <1>2, <1>3, <1>4, HasJobStep

LEMMA ToMakeStep ==
    ASSUME TInv, Next, NEW p \in Party, MadeOK(p), ~ PrepareSharings(p), NEW i \in Thread
    PROVE  /\ ~ (Ahead(p, i)' /\ HasMT(p, i)')
           /\ ToMake(p, i)' <=> ToMake(p, i) /\ ~ PaillierMTs(i)
           /\ PaillierMTs(i) => ToMake(p, i)
<1>0. TypeOK /\ ~ (Ahead(p, i) /\ HasMT(p, i))
  BY DEF TInv, MadeOK
<1>1. /\ Ahead(p, i)' <=> Ahead(p, i) /\ ~ (PutJob(p) /\ i = woken[p] /\ HeadMT(p))
      /\ PutJob(p) /\ i = woken[p] /\ HeadMT(p) => Ahead(p, i)
  BY AheadStep
<1>2. CASE PaillierMTs(i)
  <2>1. worker[p][i] \in MTJob /\ worker'[p] = [worker[p] EXCEPT ![i] = "notify"]
    BY <1>2 DEF PaillierMTs, MTJob
  <2>2. HasMT(p, i)
    BY <2>1 DEF HasMT, HasJob
  <2>3. worker'[p][i] = "notify"
    BY <1>0, <2>1 DEF TypeOK
  <2>4. ~ HasMT(p, i)'
    BY <2>3 DEF HasMT, HasJob, MTJob
  <2> QED BY <1>0, <1>1, <1>2, <2>2, <2>4 DEF ToMake
<1>3. CASE ~ PaillierMTs(i)
  <2>1. HasMT(p, i) => HasMT(p, i)'
    BY <1>3, MTDone
  <2>2. HasMT(p, i)' => HasMT(p, i) \/ (PutJob(p) /\ i = woken[p] /\ HeadMT(p))
    <3>1. SUFFICES ASSUME NEW e \in MTJob, HasJob(p, i, e)', ~ HasJob(p, i, e)
                   PROVE  PutJob(p) /\ i = woken[p] /\ HeadMT(p)
      BY DEF HasMT
    <3>2. e \in Job
      BY DEF MTJob, Job
    <3>3. PutJob(p) /\ i = woken[p] /\ Head(calls[p]).job = e
      BY <3>1, <3>2, HasJobStep
    <3>4. Head(calls[p]).op = "wake"
      BY <3>3, PutJobGives DEF HeadIs
    <3> QED BY <3>3, <3>4 DEF HeadMT, IsMT
  <2>3. CASE PutJob(p) /\ i = woken[p] /\ HeadMT(p)
    <3>1. worker'[p][i] \in {"idle", "raise"} /\ workerEvt'[p][i] /\ job'[p][i] = Head(calls[p]).job
      BY <2>3, PutJobGives
    <3>2. Head(calls[p]).job \in MTJob
      BY <2>3 DEF HeadMT, IsMT
    <3>3. HasMT(p, i)'
      BY <3>1, <3>2 DEF HasMT, HasJob
    <3> QED BY <1>1, <1>3, <2>3, <3>3 DEF ToMake
  <2>4. CASE ~ (PutJob(p) /\ i = woken[p] /\ HeadMT(p))
    BY <1>0, <1>1, <1>3, <2>1, <2>2, <2>4 DEF ToMake
  <2> QED BY <2>3, <2>4
<1> QED BY <1>2, <1>3

\* Only the threads' job makes triples, and only Reset forgets how many.
LEMMA MadeStep ==
    ASSUME TInv, Next, NEW p \in Party, ~ PrepareSharings(p)
    PROVE  /\ made[p] \subseteq made'[p]
           /\ \A i \in Thread : PaillierMTs(i) => made'[p] = made[p] \cup MadeBy(p, pktask[p], i)
           /\ (\A i \in Thread : ~ PaillierMTs(i)) => made'[p] = made[p]
           /\ calls'[p] # <<>> => pktask'[p] = pktask[p]
           /\ pktask[p] = 0 => pktask'[p] = 0
<1>0. TypeOK /\ OrderOK(p)
  BY DEF TInv, ThreadsOK
<1>1. ASSUME NEW i \in Thread, PaillierMTs(i)
      PROVE  made'[p] = made[p] \cup MadeBy(p, pktask[p], i) /\ pktask' = pktask
  BY <1>1 DEF PaillierMTs, MadeBy
<1>2. ASSUME NEW q \in Party, Main(q), ~ PrepareSharings(q), ~ Online(q)
      PROVE  made' = made /\ pktask' = pktask
  BY <1>2 DEF Main, Garble, WakeupWorkerThreads, PutJob, NoneWorking, SomeWorking, WaitEvent,
    SetSendTask, SetReceiveTask, SendKey, ReceiveKey
<1>3. ASSUME NEW q \in Party, PrepareSharings(q)
      PROVE  made'[p] = made[p] /\ pktask'[p] = pktask[p]
  <2>1. q # p
    BY <1>3
  <2> QED BY <1>0, <1>3, <2>1 DEF PrepareSharings, TypeOK
<1>4. ASSUME NEW q \in Party, Online(q)
      PROVE  /\ made'[p] = made[p] /\ (q # p => pktask'[p] = pktask[p])
             /\ q = p => pktask'[p] = 0 /\ calls'[p] = <<>>
  <2>1. made' = made /\ pktask' = [pktask EXCEPT ![q] = 0]
    BY <1>4 DEF Online
  <2>2. ASSUME q = p PROVE calls'[p] = <<>>
    <3>1. calls[p] # <<>> /\ Head(calls[p]).op = "online" /\ Return(p)
      BY <1>4, <2>2 DEF Online, Calls
    <3>2. calls'[p] = Tail(calls[p])
      BY <1>0, <3>1 DEF Return, TypeOK
    <3>3. ~ (Tail(calls[p]) # <<>>)
      BY <1>0, <3>1, CallsAre DEF MayFollow
    <3> QED BY <3>2, <3>3
  <2> QED BY <1>0, <2>1, <2>2 DEF TypeOK
<1>5. ASSUME NEW q \in Party, BaseOTs(q) \/ IKNPOTs(q) \/ Transmit(q) \/ \E i \in Thread : Worker(q, i)
      PROVE  made' = made /\ pktask' = pktask
  BY <1>5 DEF BaseOTs, IKNPOTs, Transmit, Worker, TakeJob, IKNPDone, SendData, SendDone, ReceiveData, Notify, RaiseEvent
<1>6. \/ \E i \in Thread : PaillierMTs(i)
      \/ made'[p] = made[p] /\ (pktask'[p] = pktask[p] \/ (pktask'[p] = 0 /\ calls'[p] = <<>>))
  BY <1>2, <1>3, <1>4, <1>5 DEF Next
<1> QED BY <1>1, <1>6

LEMMA NextMade ==
    ASSUME MInv, Next, NEW p \in Party
    PROVE  MadeOK(p)'
<1>0. TInv /\ TypeOK /\ ThreadsOK(p) /\ MadeOK(p)
  BY DEF MInv, TInv
<1>1. CASE PrepareSharings(p)
  <2> DEFINE c == Circuits[circuit[p] + 1]
             l == ExecCircuit(p, c)
  <2>1. main[p] = "next" /\ main' = main /\ calls[p] = <<>> /\ calls' = [calls EXCEPT ![p] = l]
        /\ made' = [made EXCEPT ![p] = {}]
        /\ pktask' = [pktask EXCEPT ![p] = IF MTGenAlg = "MT_OT" THEN 0 ELSE c.muls]
        /\ circuit[p] < Len(Circuits)
    BY <1>1 DEF PrepareSharings, Returned
  <2>2. circuit[p] + 1 \in 1 .. Len(Circuits)
    <3>1. circuit[p] \in 0 .. Len(Circuits) /\ Len(Circuits) \in Nat
      BY <1>0, CircuitsAre DEF TypeOK
    <3> QED BY <2>1, <3>1
  <2>3. Whole(l)
    BY <2>2, CircuitsAre, ExecCircuitWhole
  <2> HIDE DEF l, c
  <2>4. calls'[p] = l /\ made'[p] = {} /\ main'[p] = "next" /\ (MTGenAlg = "MT_OT" => pktask'[p] = 0)
    BY <1>0, <2>1 DEF TypeOK
  <2>5. \A i \in Thread : ~ HasMT(p, i)
    <3>1. \A i \in Thread : ~ Busy(p, i)
      BY <1>0, <2>1 DEF ThreadsOK, MainOK, HeadIs
    <3> QED BY <3>1 DEF Busy, HasMT, HasJob, MTJob
  <2>6. \A i \in Thread : ~ HasMT(p, i)'
    <3>1. ASSUME NEW i \in Thread, NEW e \in MTJob PROVE ~ HasJob(p, i, e)'
      <4>1. e \in Job
        BY DEF MTJob, Job
      <4>2. ~ PutJob(p)
        BY <2>1 DEF PutJob
      <4>3. ~ HasJob(p, i, e)
        BY <2>5 DEF HasMT
      <4> QED BY <1>0, <4>1, <4>2, <4>3, HasJobStep
    <3> QED BY <3>1 DEF HasMT
  <2>7. MTGenAlg # "MT_OT" => \A i \in Thread : ToMake(p, i)'
    BY <2>3, <2>4 DEF Whole, ToMake, Ahead, Woken
  <2>8. \A k, m \in 1 .. Len(calls'[p]) : IsMT(calls'[p][k]) /\ IsMT(calls'[p][m]) => k = m
    BY <2>3, <2>4 DEF Whole, OneMT
  <2>9. MTGenAlg # "MT_OT" =>
          made'[p] = UNION {MadeBy(p, pktask'[p], i) : i \in {t \in Thread : ~ ToMake(p, t)'}}
    BY <2>4, <2>7
  <2> QED BY <2>4, <2>6, <2>8, <2>9 DEF MadeOK
<1>2. CASE ~ PrepareSharings(p)
  <2>1. 0 \in Thread
    BY ThreadsAre
  <2>2. /\ \A k, l \in 1 .. Len(calls'[p]) : IsMT(calls'[p][k]) /\ IsMT(calls'[p][l]) => k = l
        /\ calls'[p] # <<>> => calls[p] # <<>>
    BY <1>0, <1>2, <2>1, AheadStep
  <2>3. \A i \in Thread : /\ ~ (Ahead(p, i)' /\ HasMT(p, i)')
                          /\ ToMake(p, i)' <=> ToMake(p, i) /\ ~ PaillierMTs(i)
    BY <1>0, <1>2, ToMakeStep
  <2>4. circuit'[p] = circuit[p]
    BY <1>0, <1>2, CallsStep
  <2>5. /\ made[p] \subseteq made'[p]
        /\ \A i \in Thread : PaillierMTs(i) => made'[p] = made[p] \cup MadeBy(p, pktask[p], i)
        /\ (\A i \in Thread : ~ PaillierMTs(i)) => made'[p] = made[p]
        /\ calls'[p] # <<>> => pktask'[p] = pktask[p]
        /\ pktask[p] = 0 => pktask'[p] = 0
    BY <1>0, <1>2, MadeStep
  <2>6. ASSUME circuit[p] > 0, calls'[p] # <<>>, MTGenAlg # "MT_OT"
        PROVE  made'[p] = UNION {MadeBy(p, pktask'[p], i) : i \in {t \in Thread : ~ ToMake(p, t)'}}
    <3>1. made[p] = UNION {MadeBy(p, pktask[p], i) : i \in {t \in Thread : ~ ToMake(p, t)}}
      BY <1>0, <2>2, <2>6 DEF MadeOK
    <3> DEFINE old == {t \in Thread : ~ ToMake(p, t)}
               new == {t \in Thread : ~ ToMake(p, t)'}
    <3>2. PICK n : n = pktask[p]
      OBVIOUS
    <3>3. pktask'[p] = n
      BY <2>5, <2>6, <3>2
    <3>4. made[p] = UNION {MadeBy(p, n, i) : i \in old}
      BY <3>1, <3>2
    <3>5. CASE \A i \in Thread : ~ PaillierMTs(i)
      <4>1. new = old /\ made'[p] = made[p]
        BY <2>3, <2>5, <3>5
      <4> HIDE DEF old, new
      <4>2. made'[p] = UNION {MadeBy(p, n, i) : i \in new}
        BY <3>4, <4>1
      <4> QED BY <3>3, <4>2 DEF new
    <3>6. ASSUME NEW k \in Thread, PaillierMTs(k)
          PROVE  made'[p] = UNION {MadeBy(p, pktask'[p], i) : i \in new}
      <4>1. \A i \in Thread : PaillierMTs(i) => i = k
        <5>1. ASSUME NEW i \in Thread, PaillierMTs(i), i # k PROVE FALSE
          <6>1. worker[p][i] \in {"MTPaillier", "MTDGK"} /\ worker'[p] = [worker[p] EXCEPT ![i] = "notify"]
            BY <5>1 DEF PaillierMTs
          <6>2. worker'[p] = [worker[p] EXCEPT ![k] = "notify"]
            BY <3>6 DEF PaillierMTs
          <6>3. worker'[p][i] = "notify" /\ worker'[p][i] = worker[p][i]
            BY <1>0, <5>1, <6>1, <6>2 DEF TypeOK
          <6> QED BY <6>1, <6>3
        <5> QED BY <5>1
      <4>2. new = old \cup {k} /\ made'[p] = made[p] \cup MadeBy(p, n, k)
        BY <2>3, <2>5, <3>2, <3>6, <4>1
      <4> HIDE DEF old, new
      <4>3. made'[p] = UNION {MadeBy(p, n, i) : i \in new}
        BY <3>4, <4>2
      <4> QED BY <3>3, <4>3
    <3> QED BY <3>5, <3>6
  <2>7. MTGenAlg = "MT_OT" => pktask'[p] = 0
    BY <1>0, <2>5 DEF MadeOK
  <2> QED BY <2>2, <2>3, <2>4, <2>6, <2>7 DEF MadeOK
<1> QED BY <1>1, <1>2

LEMMA InitMade == ASSUME Init, NEW p \in Party PROVE MadeOK(p)
<1>1. calls[p] = ConnectAndBaseOTs /\ circuit[p] = 0 /\ pktask[p] = 0 /\ NoMT(ConnectAndBaseOTs)
  BY FirstCalls DEF Init
<1>2. \A k \in 1 .. Len(calls[p]) : ~ IsMT(calls[p][k])
  BY <1>1 DEF NoMT
<1> QED BY <1>1, <1>2 DEF MadeOK, Ahead, SomeMT

\* Between the start of a circuit and its end, the homomorphic triples that were
\* made are those of the threads that are through with their job.
THEOREM MadeInvariance == Spec => []MInv
<1>1. Init => MInv
  BY InitTypes, InitThreads, InitMade DEF MInv, TInv
<1>2. MInv /\ [Next]_vars => MInv'
  <2>1. ASSUME MInv, Next PROVE MInv'
    <3>1. TInv'
      BY <2>1, NextThreads DEF MInv
    <3> QED BY <2>1, <3>1, NextMade DEF MInv
  <2>2. ASSUME MInv, UNCHANGED vars PROVE MInv'
    <3>1. TInv'
      BY <2>2, NextThreads DEF MInv
    <3>2. \A p \in Party : MadeOK(p)'
      BY <2>2 DEF MInv, vars, MadeOK, ToMake, Ahead, HasMT, HeadMT, Woken, HasJob
    <3> QED BY <3>1, <3>2 DEF MInv
  <2> QED BY <2>1, <2>2
<1> QED BY <1>1, <1>2, PTL DEF Spec

\* Half of what thread i makes, and where its halves start.
Share(n, i) == Pairs(n) + (IF i < Extra(n) THEN 1 ELSE 0)
From(n, i, s) == StartOf(n, i) + (IF s THEN Share(n, i) ELSE 0)
MTsOf(n, i, s) == From(n, i, s) .. From(n, i, s) + Share(n, i) - 1
Total(n) == n + (n % 2)

LEMMA StartsAre ==
    ASSUME NEW n \in Nat
    PROVE  /\ StartOf(n, 0) = 0 /\ StartOf(n, 2 * NumOTThreads) = Total(n)
           /\ Total(n) \in Nat
           /\ \A i \in Nat : StartOf(n, i) \in Nat /\ Share(n, i) \in Nat
                             /\ StartOf(n, i+1) = StartOf(n, i) + (2 * Share(n, i))
           /\ \A i, j \in Nat : i <= j => StartOf(n, i) <= StartOf(n, j)
<1> DEFINE a == Pairs(n)
           b == Extra(n)
<1>1. /\ a \in Nat /\ b \in Nat /\ b <= 2 * NumOTThreads
      /\ n = (4 * NumOTThreads * a) + (n % (4 * NumOTThreads))
      /\ 2 * b = (n % (4 * NumOTThreads)) + (n % 2)
      /\ n % (4 * NumOTThreads) \in Nat
      /\ NumOTThreads \in Nat \ {0}
  BY PairsAre, ThreadsAre
<1>2. \A i \in Nat : StartOf(n, i) = 2 * ((i * a) + (IF i < b THEN i ELSE b))
  BY DEF StartOf
<1>3. \A i \in Nat : Share(n, i) = a + (IF i < b THEN 1 ELSE 0)
  BY DEF Share
<1> HIDE DEF a, b
<1>4. \A i \in Nat : i * a \in Nat /\ (i + 1) * a = (i * a) + a
  BY <1>1
<1>5. \A i \in Nat : StartOf(n, i) \in Nat /\ Share(n, i) \in Nat
  BY <1>1, <1>2, <1>3, <1>4
<1>6. ASSUME NEW i \in Nat PROVE StartOf(n, i+1) = StartOf(n, i) + (2 * Share(n, i))
  <2>1. PICK x \in Nat : x = i * a
    BY <1>4
  <2>2. StartOf(n, i) = 2 * (x + (IF i < b THEN i ELSE b))
    BY <1>2, <2>1
  <2>3. StartOf(n, i+1) = 2 * ((x + a) + (IF i + 1 < b THEN i + 1 ELSE b))
    BY <1>2, <1>4, <2>1
  <2>4. Share(n, i) = a + (IF i < b THEN 1 ELSE 0)
    BY <1>3
  <2>5. (IF i + 1 < b THEN i + 1 ELSE b) = (IF i < b THEN i ELSE b) + (IF i < b THEN 1 ELSE 0)
    BY <1>1
  <2> QED BY <1>1, <2>2, <2>3, <2>4, <2>5
<1>7. ASSUME NEW i \in Nat, NEW j \in Nat, i <= j PROVE StartOf(n, i) <= StartOf(n, j)
  <2>1. PICK d \in Nat : j = i + d
    <3>1. j - i \in Nat /\ j = i + (j - i)
      BY <1>7
    <3> QED BY <3>1
  <2>2. PICK x \in Nat, y \in Nat : x = i * a /\ y = d * a
    BY <1>4
  <2>3. j * a = x + y
    BY <1>1, <2>1, <2>2
  <2>4. StartOf(n, i) = 2 * (x + (IF i < b THEN i ELSE b)) /\ StartOf(n, j) = 2 * ((x + y) + (IF j < b THEN j ELSE b))
    BY <1>2, <2>2, <2>3
  <2> QED BY <1>1, <1>7, <2>2, <2>4
<1>8. StartOf(n, 0) = 0
  <2>1. 0 * a = 0
    BY <1>1
  <2>2. (IF 0 < b THEN 0 ELSE b) = 0
    BY <1>1
  <2>3. StartOf(n, 0) = 2 * (0 + 0)
    BY <1>2, <2>1, <2>2
  <2> QED BY <2>3
<1>9. StartOf(n, 2 * NumOTThreads) = Total(n)
  <2> DEFINE t == 2 * NumOTThreads
             r == n % (4 * NumOTThreads)
             e == n % 2
  <2>1. t \in Nat /\ ~ (t < b) /\ e \in Nat
    BY <1>1
  <2>2. StartOf(n, t) = 2 * ((t * a) + b)
    BY <1>2, <2>1
  <2>3. PICK x \in Nat : x = NumOTThreads * a
    BY <1>1
  <2>4. t * a = 2 * x /\ 4 * NumOTThreads * a = 4 * x
    BY <1>1, <2>3
  <2>5. n = (4 * x) + r /\ 2 * b = r + e /\ r \in Nat
    BY <1>1, <2>4
  <2> HIDE DEF t, r, e
  <2>6. StartOf(n, t) = n + e
    BY <1>1, <2>1, <2>2, <2>4, <2>5
  <2> QED BY <2>6 DEF t, e, Total
<1>10. Total(n) \in Nat
  BY DEF Total
<1> QED BY <1>5, <1>6, <1>7, <1>8, <1>9, <1>10

\* Every triple is in one half of one thread.
LEMMA EachInOneHalf ==
    ASSUME NEW n \in Nat
    PROVE  /\ \A i \in Thread, s \in BOOLEAN : MTsOf(n, i, s) \subseteq 0 .. Total(n) - 1
           /\ \A k \in 0 .. Total(n) - 1 : \E i \in Thread, s \in BOOLEAN : k \in MTsOf(n, i, s)
           /\ \A i, j \in Thread, s, r \in BOOLEAN : \A k \in MTsOf(n, i, s) \cap MTsOf(n, j, r) : i = j /\ s = r
<1>0. Thread \subseteq Nat /\ NumOTThreads \in Nat \ {0} /\ \A i \in Nat : i < 2 * NumOTThreads <=> i \in Thread
  BY ThreadsAre
<1>1. ASSUME NEW i \in Nat, NEW s \in BOOLEAN, NEW k \in MTsOf(n, i, s)
      PROVE  /\ k \in Nat /\ StartOf(n, i) <= k /\ k < StartOf(n, i+1)
             /\ s <=> StartOf(n, i) + Share(n, i) <= k
  <2>1. StartOf(n, i) \in Nat /\ Share(n, i) \in Nat /\ StartOf(n, i+1) = StartOf(n, i) + (2 * Share(n, i))
    BY StartsAre
  <2>2. CASE s
    <3>1. k \in StartOf(n, i) + Share(n, i) .. StartOf(n, i) + Share(n, i) + Share(n, i) - 1
      BY <2>2 DEF MTsOf, From
    <3> QED BY <2>1, <2>2, <3>1
  <2>3. CASE ~ s
    <3>1. k \in StartOf(n, i) + 0 .. StartOf(n, i) + 0 + Share(n, i) - 1
      BY <2>3 DEF MTsOf, From
    <3> QED BY <2>1, <2>3, <3>1
  <2> QED BY <2>2, <2>3
<1>2. ASSUME NEW i \in Thread, NEW s \in BOOLEAN, NEW k \in MTsOf(n, i, s) PROVE k \in 0 .. Total(n) - 1
  <2>1. i \in Nat /\ i + 1 \in Nat /\ i + 1 <= 2 * NumOTThreads /\ 2 * NumOTThreads \in Nat
    BY <1>0
  <2>2. StartOf(n, i+1) <= Total(n) /\ StartOf(n, i+1) \in Nat /\ Total(n) \in Nat
    BY <2>1, StartsAre
  <2>3. k \in Nat /\ k < StartOf(n, i+1)
    BY <1>1, <2>1
  <2> QED BY <2>2, <2>3
<1>3. ASSUME NEW k \in 0 .. Total(n) - 1 PROVE \E i \in Thread, s \in BOOLEAN : k \in MTsOf(n, i, s)
  <2> DEFINE Above == {j \in Nat : k < StartOf(n, j)}
  <2>1. k \in Nat /\ k < Total(n)
    BY StartsAre
  <2>2. 2 * NumOTThreads \in Above
    BY <1>0, <2>1, StartsAre
  <2>3. PICK j \in Above : \A m \in Above : j <= m
    BY <2>2, LeastNat
  <2>4. j \in Nat /\ k < StartOf(n, j) /\ j <= 2 * NumOTThreads
    BY <2>2, <2>3
  <2>5. j # 0
    BY <2>1, <2>4, StartsAre
  <2>6. PICK i \in Nat : j = i + 1
    <3>1. j - 1 \in Nat /\ j = (j - 1) + 1
      BY <2>4, <2>5
    <3> QED BY <3>1
  <2>7. i \in Thread
    BY <1>0, <2>4, <2>6
  <2>8. i \notin Above
    BY <2>3, <2>4, <2>6
  <2>9. /\ StartOf(n, i) \in Nat /\ Share(n, i) \in Nat /\ StartOf(n, i) <= k
        /\ k < StartOf(n, i) + (2 * Share(n, i))
    BY <2>1, <2>4, <2>6, <2>8, StartsAre
  <2>10. CASE StartOf(n, i) + Share(n, i) <= k
    <3>1. k \in StartOf(n, i) + Share(n, i) .. StartOf(n, i) + Share(n, i) + Share(n, i) - 1
      BY <2>1, <2>9, <2>10
    <3>2. k \in MTsOf(n, i, TRUE)
      BY <3>1 DEF MTsOf, From
    <3> QED BY <2>7, <3>2
  <2>11. CASE ~ (StartOf(n, i) + Share(n, i) <= k)
    <3>1. k \in StartOf(n, i) + 0 .. StartOf(n, i) + 0 + Share(n, i) - 1
      BY <2>1, <2>9, <2>11
    <3>2. k \in MTsOf(n, i, FALSE)
      BY <3>1 DEF MTsOf, From
    <3> QED BY <2>7, <3>2
  <2> QED BY <2>10, <2>11
<1>4. ASSUME NEW i \in Thread, NEW j \in Thread, NEW s \in BOOLEAN, NEW r \in BOOLEAN,
             NEW k \in MTsOf(n, i, s) \cap MTsOf(n, j, r)
      PROVE  i = j /\ s = r
  <2>1. i \in Nat /\ j \in Nat /\ i + 1 \in Nat /\ j + 1 \in Nat
    BY <1>0
  <2>2. /\ k \in Nat /\ StartOf(n, i) <= k /\ k < StartOf(n, i+1) /\ (s <=> StartOf(n, i) + Share(n, i) <= k)
    BY <1>1, <2>1
  <2>3. /\ StartOf(n, j) <= k /\ k < StartOf(n, j+1) /\ (r <=> StartOf(n, j) + Share(n, j) <= k)
    BY <1>1, <2>1
  <2>4. \A x \in {i, i+1, j, j+1} : StartOf(n, x) \in Nat
    BY <2>1, StartsAre
  <2>5. ~ (i + 1 <= j)
    <3>1. i + 1 <= j => StartOf(n, i+1) <= StartOf(n, j)
      BY <2>1, StartsAre
    <3> QED BY <2>2, <2>3, <2>4, <3>1
  <2>6. ~ (j + 1 <= i)
    <3>1. j + 1 <= i => StartOf(n, j+1) <= StartOf(n, i)
      BY <2>1, StartsAre
    <3> QED BY <2>2, <2>3, <2>4, <3>1
  <2>7. i = j
    BY <2>1, <2>5, <2>6
  <2>8. s <=> r
    BY <2>2, <2>3, <2>7
  <2> QED BY <2>7, <2>8
<1> QED BY <1>2, <1>3, <1>4

LEMMA HalfIs ==
    ASSUME NEW n \in Nat, NEW i \in Thread, NEW s \in BOOLEAN
    PROVE  Half(n, i, s) = {[mt |-> k, second |-> s] : k \in MTsOf(n, i, s)}
<1>1. i \in Nat
  BY ThreadsAre
<1>2. MyNumMTs(n, i) = 2 * Share(n, i) /\ Share(n, i) \in Nat
  BY <1>1, PairsAre, StartsAre DEF Share
<1>3. MyNumMTs(n, i) \div 2 = Share(n, i) /\ (MyNumMTs(n, i) + 1) \div 2 = Share(n, i)
  BY <1>2
<1>4. MyStart(n, i) = StartOf(n, i)
  BY <1>1, MyStartIs
<1> QED BY <1>3, <1>4 DEF Half, MTsOf, From

Triple(p, k, s, i) == [mt |-> k, own |-> (s = (p = "CLIENT")), by |-> i]

LEMMA MadeByIs ==
    ASSUME NEW p \in Party, NEW n \in Nat, NEW i \in Thread, NEW x
    PROVE  x \in MadeBy(p, n, i) <=> \E s \in BOOLEAN : \E k \in MTsOf(n, i, s) : x = Triple(p, k, s, i)
<1>1. ASSUME x \in MadeBy(p, n, i)
      PROVE  \E s \in BOOLEAN : \E k \in MTsOf(n, i, s) : x = Triple(p, k, s, i)
  <2>0. PICK h \in Half(n, i, FALSE) \cup Half(n, i, TRUE) : x = [mt |-> h.mt, own |-> (h.second = (p = "CLIENT")), by |-> i]
    BY <1>1 DEF MadeBy
  <2>1. PICK s \in BOOLEAN : h \in Half(n, i, s)
    BY <2>0
  <2>2. PICK k \in MTsOf(n, i, s) : h = [mt |-> k, second |-> s]
    BY <2>1, HalfIs
  <2>3. h.mt = k /\ h.second = s
    BY <2>2
  <2>4. x = Triple(p, k, s, i)
    BY <2>0, <2>3 DEF Triple
  <2> QED BY <2>4
<1>2. ASSUME NEW s \in BOOLEAN, NEW k \in MTsOf(n, i, s), x = Triple(p, k, s, i)
      PROVE  x \in MadeBy(p, n, i)
  <2> DEFINE h == [mt |-> k, second |-> s]
  <2>1. h \in Half(n, i, s) /\ h.mt = k /\ h.second = s
    BY HalfIs
  <2> HIDE DEF h
  <2>2. h \in Half(n, i, FALSE) \cup Half(n, i, TRUE)
    BY <2>1
  <2>3. x = [mt |-> h.mt, own |-> (h.second = (p = "CLIENT")), by |-> i]
    BY <1>2, <2>1 DEF Triple
  <2> QED BY <2>2, <2>3 DEF MadeBy
<1> QED BY <1>1, <1>2

\* Before the online phase all threads have made their triples.
LEMMA AllMade ==
    ASSUME MInv, NEW p \in Party, Calls(p, "online"), pktask[p] > 0, NEW x
    PROVE  x \in made[p] <=>
             \E i \in Thread, s \in BOOLEAN : \E k \in MTsOf(pktask[p], i, s) : x = Triple(p, k, s, i)
<1> DEFINE c == calls[p]
<1>0. TypeOK /\ OrderOK(p) /\ MainOK(p) /\ MadeOK(p) /\ pktask[p] \in Nat
  BY DEF MInv, TInv, ThreadsOK, TypeOK
<1>1. main[p] = "next" /\ c # <<>> /\ Head(c).op = "online" /\ c \in Seq(Call)
  BY <1>0 DEF Calls, TypeOK
<1>2. Tail(c) = <<>> /\ Last(c) = Head(c)
  BY <1>0, <1>1, CallsAre DEF MayFollow
<1>3. circuit[p] > 0
  <2>1. circuit[p] # 0
    BY <1>0, <1>1, <1>2, CallsAre
  <2> QED BY <1>0, <2>1, CircuitsAre DEF TypeOK
<1>4. ~ SomeMT(c)
  <2>1. SomeMT(c) <=> IsMT(Head(c)) \/ SomeMT(Tail(c))
    <3>1. \A k, l \in 1 .. Len(c) : IsMT(c[k]) /\ IsMT(c[l]) => k = l
      BY <1>0 DEF MadeOK
    <3> HIDE DEF c
    <3> QED BY <1>1, <3>1, TailMT
  <2>2. ~ IsMT(Head(c))
    BY <1>1 DEF IsMT
  <2>3. ~ SomeMT(<<>>)
    BY DEF SomeMT
  <2> QED BY <1>2, <2>1, <2>2, <2>3
<1>5. \A i \in Thread : ~ ToMake(p, i)
  <2>1. \A i \in Thread : ~ Busy(p, i)
    BY <1>0, <1>1 DEF MainOK, HeadIs
  <2> QED BY <1>4, <2>1 DEF ToMake, Ahead, HasMT, HasJob, Busy, MTJob
<1>6. MTGenAlg # "MT_OT"
  BY <1>0 DEF MadeOK
<1>7. made[p] = UNION {MadeBy(p, pktask[p], i) : i \in {t \in Thread : ~ ToMake(p, t)}}
  BY <1>0, <1>1, <1>3, <1>6 DEF MadeOK
<1>8. x \in made[p] <=> \E i \in Thread : x \in MadeBy(p, pktask[p], i)
  BY <1>5, <1>7
<1> QED BY <1>0, <1>8, MadeByIs

\* The triples of the first halves, or of the second.
HalfMTs(n, s) == UNION {MTsOf(n, i, s) : i \in Thread}

LEMMA OwnMTs ==
    ASSUME MInv, NEW p \in Party, Calls(p, "online"), pktask[p] > 0
    PROVE  /\ {h.mt : h \in {m \in made[p] : m.own}} = HalfMTs(pktask[p], p = "CLIENT")
           /\ {h.mt : h \in {m \in made[p] : ~m.own}} = HalfMTs(pktask[p], p = "SERVER")
<1> PICK n : n = pktask[p]
  OBVIOUS
<1>1. \A x : x \in made[p] <=>
        \E i \in Thread, s \in BOOLEAN : \E k \in MTsOf(n, i, s) : x = Triple(p, k, s, i)
  BY AllMade
<1>2. \A k, s, i : Triple(p, k, s, i).mt = k /\ (Triple(p, k, s, i).own <=> s = (p = "CLIENT"))
  BY DEF Triple
<1>3. (p = "SERVER") = ~ (p = "CLIENT")
  BY DEF Party
<1> PICK b \in BOOLEAN : b = (p = "CLIENT")
  OBVIOUS
<1>4. ASSUME NEW w \in BOOLEAN,
             NEW M, \A y : y \in M <=> \E h \in made[p] : (h.own <=> w) /\ y = h.mt
      PROVE  M = HalfMTs(n, w <=> b)
  <2>1. ASSUME NEW y \in M PROVE y \in HalfMTs(n, w <=> b)
    <3>1. PICK h \in made[p] : (h.own <=> w) /\ y = h.mt
      BY <1>4
    <3>2. PICK i \in Thread, s \in BOOLEAN : \E k \in MTsOf(n, i, s) : h = Triple(p, k, s, i)
      BY <1>1
    <3>3. PICK k \in MTsOf(n, i, s) : h = Triple(p, k, s, i)
      BY <3>2
    <3>4. y = k /\ (s = b <=> w)
      BY <1>2, <3>1, <3>3
    <3>5. s = (w <=> b)
      BY <3>4
    <3> QED BY <3>3, <3>4, <3>5 DEF HalfMTs
  <2>2. ASSUME NEW y \in HalfMTs(n, w <=> b) PROVE y \in M
    <3>1. PICK s \in BOOLEAN : s = (w <=> b)
      OBVIOUS
    <3>2. PICK i \in Thread : y \in MTsOf(n, i, s)
      BY <2>2, <3>1 DEF HalfMTs
    <3>3. Triple(p, y, s, i) \in made[p]
      BY <1>1, <3>2
    <3>4. Triple(p, y, s, i).mt = y /\ (Triple(p, y, s, i).own <=> w)
      <4>1. (s = b) <=> w
        BY <3>1
      <4> QED BY <1>2, <4>1
    <3> QED BY <1>4, <3>3, <3>4
  <2> QED BY <2>1, <2>2
<1>5. {h.mt : h \in {m \in made[p] : m.own}} = HalfMTs(n, TRUE <=> b)
  <2> DEFINE M == {h.mt : h \in {m \in made[p] : m.own}}
  <2>1. \A y : y \in M <=> \E h \in made[p] : (h.own <=> TRUE) /\ y = h.mt
    OBVIOUS
  <2> HIDE DEF M
  <2>2. M = HalfMTs(n, TRUE <=> b)
    BY <1>4, <2>1
  <2> QED BY <2>2 DEF M
<1>6. {h.mt : h \in {m \in made[p] : ~m.own}} = HalfMTs(n, FALSE <=> b)
  <2> DEFINE M == {h.mt : h \in {m \in made[p] : ~m.own}}
  <2>1. \A y : y \in M <=> \E h \in made[p] : (h.own <=> FALSE) /\ y = h.mt
    OBVIOUS
  <2> HIDE DEF M
  <2>2. M = HalfMTs(n, FALSE <=> b)
    BY <1>4, <2>1
  <2> QED BY <2>2 DEF M
<1>7. (TRUE <=> b) = (p = "CLIENT") /\ (FALSE <=> b) = (p = "SERVER")
  BY <1>3
<1> QED BY <1>5, <1>6, <1>7

\* Each party makes each triple of a circuit exactly once, and the one party's
\* under its own key are the other's under a foreign key, in every reachable state.
THEOREM TriplesDividedHolds == Spec => []TriplesDivided
<1>1. MInv => TriplesDivided
  <2> SUFFICES ASSUME MInv, NEW p \in Party, Calls(p, "online"), pktask[p] > 0
               PROVE  LET n == pktask[p]
                          own(q) == {h.mt : h \in {m \in made[q] : m.own}}
                          other(q) == {h.mt : h \in {m \in made[q] : ~m.own}}
                      IN  /\ Cardinality(made[p]) = n + (n % 2)
                          /\ own(p) \cup other(p) = 0 .. n + (n % 2) - 1
                          /\ Calls(Peer(p), "online") /\ pktask[Peer(p)] = n => own(p) = other(Peer(p))
    BY DEF TriplesDivided
  <2> DEFINE own(q) == {h.mt : h \in {m \in made[q] : m.own}}
             other(q) == {h.mt : h \in {m \in made[q] : ~m.own}}
  <2> PICK n \in Nat : n = pktask[p]
    BY DEF MInv, TInv, TypeOK
  <2>1. /\ \A i \in Thread, s \in BOOLEAN : MTsOf(n, i, s) \subseteq 0 .. Total(n) - 1
        /\ \A k \in 0 .. Total(n) - 1 : \E i \in Thread, s \in BOOLEAN : k \in MTsOf(n, i, s)
        /\ \A i, j \in Thread, s, r \in BOOLEAN : \A k \in MTsOf(n, i, s) \cap MTsOf(n, j, r) : i = j /\ s = r
        /\ Total(n) \in Nat
    BY EachInOneHalf, StartsAre
  <2>2. \A x : x \in made[p] <=>
          \E i \in Thread, s \in BOOLEAN : \E k \in MTsOf(n, i, s) : x = Triple(p, k, s, i)
    BY AllMade
  <2>3. Cardinality(made[p]) = Total(n)
    <3> DEFINE K == 0 .. Total(n) - 1
               f == [k \in K |-> CHOOSE x \in made[p] : x.mt = k]
    <3>1. \A k, s, i : Triple(p, k, s, i).mt = k
      BY DEF Triple
    <3>2. \A x \in made[p] : x.mt \in K
      BY <2>1, <2>2, <3>1
    <3>3. \A k \in K : \E x \in made[p] : x.mt = k
      <4>1. ASSUME NEW k \in K PROVE \E x \in made[p] : x.mt = k
        <5>1. PICK i \in Thread, s \in BOOLEAN : k \in MTsOf(n, i, s)
          BY <2>1
        <5>2. Triple(p, k, s, i) \in made[p]
          BY <2>2, <5>1
        <5> QED BY <3>1, <5>2
      <4> QED BY <4>1
    <3>4. ASSUME NEW x \in made[p], NEW y \in made[p], x.mt = y.mt PROVE x = y
      <4>1. PICK i \in Thread, s \in BOOLEAN : \E k \in MTsOf(n, i, s) : x = Triple(p, k, s, i)
        BY <2>2
      <4>2. PICK j \in Thread, r \in BOOLEAN : \E k \in MTsOf(n, j, r) : y = Triple(p, k, r, j)
        BY <2>2
      <4>3. PICK k \in MTsOf(n, i, s) : x = Triple(p, k, s, i)
        BY <4>1
      <4>4. PICK l \in MTsOf(n, j, r) : y = Triple(p, l, r, j)
        BY <4>2
      <4>5. k = l
        BY <3>1, <3>4, <4>3, <4>4
      <4>6. i = j /\ s = r
        BY <2>1, <4>5
      <4> QED BY <4>3, <4>4, <4>5, <4>6
    <3> HIDE DEF K
    <3>5. \A k \in K : f[k] \in made[p] /\ f[k].mt = k
      BY <3>3
    <3>6. f \in [K -> made[p]]
      BY <3>5
    <3> HIDE DEF f
    <3>7. \A k, l \in K : f[k] = f[l] => k = l
      BY <3>5
    <3>8. \A x \in made[p] : \E k \in K : f[k] = x
      BY <3>2, <3>4, <3>5
    <3>9. f \in Bijection(K, made[p])
      BY <3>6, <3>7, <3>8 DEF Bijection, Injection, Surjection, IsInjective
    <3>10. IsFiniteSet(K) /\ Cardinality(K) = Total(n)
      <4>1. 0 \in Int /\ Total(n) - 1 \in Int
        BY <2>1
      <4>2. IsFiniteSet(K) /\ Cardinality(K) = IF 0 > Total(n) - 1 THEN 0 ELSE (Total(n) - 1) - 0 + 1
        BY <4>1, FS_Interval DEF K
      <4> QED BY <2>1, <4>2
    <3>11. ExistsBijection(K, made[p])
      BY <3>9 DEF ExistsBijection
    <3> QED BY <3>10, <3>11, FS_Bijection
  <2>4. own(p) = HalfMTs(n, p = "CLIENT") /\ other(p) = HalfMTs(n, p = "SERVER")
    BY OwnMTs
  <2>5. own(p) \cup other(p) = 0 .. Total(n) - 1
    <3>1. HalfMTs(n, TRUE) \cup HalfMTs(n, FALSE) = 0 .. Total(n) - 1
      <4> DEFINE K == 0 .. Total(n) - 1
      <4> HIDE DEF K
      <4>1. \A i \in Thread, s \in BOOLEAN : MTsOf(n, i, s) \subseteq K
        BY <2>1 DEF K
      <4>2. \A k \in K : \E i \in Thread : k \in MTsOf(n, i, TRUE) \/ k \in MTsOf(n, i, FALSE)
        BY <2>1 DEF K
      <4>3. HalfMTs(n, TRUE) \cup HalfMTs(n, FALSE) = K
        BY <4>1, <4>2 DEF HalfMTs
      <4> QED BY <4>3 DEF K
    <3>2. CASE p = "CLIENT"
      BY <2>4, <3>1, <3>2
    <3>3. CASE p = "SERVER"
      BY <2>4, <3>1, <3>3
    <3> QED BY <3>2, <3>3 DEF Party
  <2>6. ASSUME Calls(Peer(p), "online"), pktask[Peer(p)] = n PROVE own(p) = other(Peer(p))
    <3> PICK q \in Party : q = Peer(p)
      BY PeerIs
    <3>1. other(q) = HalfMTs(n, q = "SERVER")
      BY <2>6, OwnMTs
    <3>2. (q = "SERVER") = (p = "CLIENT")
      BY DEF Party, Peer
    <3> QED BY <2>4, <3>1, <3>2
  <2>7. Cardinality(made[p]) = n + (n % 2) /\ own(p) \cup other(p) = 0 .. n + (n % 2) - 1
    BY <2>3, <2>5 DEF Total
  <2>8. /\ Cardinality(made[p]) = pktask[p] + (pktask[p] % 2)
        /\ own(p) \cup other(p) = 0 .. pktask[p] + (pktask[p] % 2) - 1
        /\ Calls(Peer(p), "online") /\ pktask[Peer(p)] = pktask[p] => own(p) = other(Peer(p))
    <3> HIDE DEF own, other
    <3> QED BY <2>6, <2>7
  <2> QED BY <2>8
<1> QED BY <1>1, MadeInvariance, PTL

-------------------------------------------------------------------------------
(***************************************************************************)
(* Concatenations.                                                         *)
(***************************************************************************)

\* f[i] is the concatenation of the first i of s.
Flattens(f, s, n) == f = [i \in 1 .. n |-> IF i = 1 THEN s[i] ELSE f[i-1] \o s[i]]
CanFlatten(s, n) == \E f : Flattens(f, s, n)

LEMMA FlattensAt ==
    ASSUME NEW s, NEW n \in Nat, NEW f, Flattens(f, s, n)
    PROVE  DOMAIN f = 1 .. n /\ \A i \in 1 .. n : f[i] = IF i = 1 THEN s[i] ELSE f[i-1] \o s[i]
BY DEF Flattens

LEMMA FlattensExists ==
    ASSUME NEW s, NEW n \in Nat
    PROVE  CanFlatten(s, n)
<1> DEFINE bad == {k \in Nat : ~ CanFlatten(s, k)}
<1>1. SUFFICES ASSUME bad # {} PROVE FALSE
  OBVIOUS
<1>2. PICK m \in bad : \A k \in bad : m <= k
  BY <1>1, LeastNat
<1>3. m \in Nat /\ ~ CanFlatten(s, m) /\ \A k \in Nat : k < m => CanFlatten(s, k)
  BY <1>2
<1>4. m # 0
  <2>1. Flattens([i \in 1 .. 0 |-> s], s, 0)
    BY DEF Flattens
  <2> QED BY <1>3, <2>1 DEF CanFlatten
<1> DEFINE k == m - 1
<1>5. k \in Nat /\ m = k + 1 /\ CanFlatten(s, k)
  BY <1>3, <1>4
<1>6. PICK f : Flattens(f, s, k)
  BY <1>5 DEF CanFlatten
<1> HIDE DEF k
<1>7. \A i \in 1 .. k : f[i] = IF i = 1 THEN s[i] ELSE f[i-1] \o s[i]
  BY <1>5, <1>6, FlattensAt
<1> DEFINE g == [i \in 1 .. m |-> IF i = 1 THEN s[i] ELSE f[i-1] \o s[i]]
<1>8. \A i \in 1 .. m : g[i] = IF i = 1 THEN s[i] ELSE f[i-1] \o s[i]
  OBVIOUS
<1>9. \A i \in 1 .. k : g[i] = f[i]
  <2>1. \A i \in 1 .. k : i \in 1 .. m
    BY <1>5
  <2> QED BY <1>7, <1>8, <2>1
<1>10. \A i \in 1 .. m : i # 1 => i - 1 \in 1 .. k
  BY <1>5
<1>11. g = [i \in 1 .. m |-> IF i = 1 THEN s[i] ELSE g[i-1] \o s[i]]
  BY <1>9, <1>10
<1>12. Flattens(g, s, m)
  BY <1>11 DEF Flattens
<1> QED BY <1>3, <1>12 DEF CanFlatten

\* Equal up to n.
EqualTo(f, g, n) == \A i \in 1 .. n : f[i] = g[i]

LEMMA FlattensEqual ==
    ASSUME NEW s, NEW t, NEW n \in Nat, NEW m \in Nat, NEW f, NEW g,
           Flattens(f, s, n), Flattens(g, t, m), n <= m, EqualTo(s, t, n)
    PROVE  EqualTo(f, g, n)
<1> DEFINE bad == {i \in 1 .. n : f[i] # g[i]}
<1>1. /\ \A i \in 1 .. n : f[i] = IF i = 1 THEN s[i] ELSE f[i-1] \o s[i]
      /\ \A i \in 1 .. m : g[i] = IF i = 1 THEN t[i] ELSE g[i-1] \o t[i]
  BY FlattensAt
<1>2. \A i \in 1 .. n : s[i] = t[i]
  BY DEF EqualTo
<1>3. SUFFICES ASSUME bad # {} PROVE FALSE
  BY DEF EqualTo
<1>4. bad \subseteq Nat
  OBVIOUS
<1>5. PICK i \in bad : \A j \in bad : i <= j
  BY <1>3, <1>4, LeastNat
<1>6. i \in 1 .. n /\ i \in 1 .. m /\ f[i] # g[i] /\ s[i] = t[i]
  BY <1>2, <1>5
<1>7. CASE i = 1
  BY <1>1, <1>6, <1>7
<1>8. CASE i # 1
  <2>1. i - 1 \in 1 .. n /\ ~ (i <= i - 1)
    BY <1>6, <1>8
  <2>2. f[i-1] = g[i-1]
    BY <1>5, <2>1
  <2>3. f[i] = f[i-1] \o s[i] /\ g[i] = g[i-1] \o t[i]
    BY <1>1, <1>6, <1>8
  <2> QED BY <1>6, <2>2, <2>3
<1> QED BY <1>7, <1>8

LEMMA FlattenIs ==
    ASSUME NEW s, Len(s) \in Nat, Len(s) > 0
    PROVE  \E f : Flattens(f, s, Len(s)) /\ FlattenSeq(s) = f[Len(s)]
<1> DEFINE f == CHOOSE h : h = [i \in 1 .. Len(s) |-> IF i = 1 THEN s[i] ELSE h[i-1] \o s[i]]
<1>1. f = [i \in 1 .. Len(s) |-> IF i = 1 THEN s[i] ELSE f[i-1] \o s[i]]
  <2>1. \E h : h = [i \in 1 .. Len(s) |-> IF i = 1 THEN s[i] ELSE h[i-1] \o s[i]]
    BY FlattensExists DEF CanFlatten, Flattens
  <2> QED BY ONLY <2>1
<1>2. Flattens(f, s, Len(s))
  BY <1>1 DEF Flattens
<1>3. FlattenSeq(s) = f[Len(s)]
  <2>1. Len(s) # 0
    OBVIOUS
  <2> QED BY <2>1, Zenon DEF FlattenSeq
<1> QED BY <1>2, <1>3

LEMMA FlattenEmpty == FlattenSeq(<<>>) = <<>>
  BY DEF FlattenSeq

LEMMA FlattenAppend ==
    ASSUME NEW X, NEW s \in Seq(Seq(X)), NEW x \in Seq(X)
    PROVE  FlattenSeq(Append(s, x)) = FlattenSeq(s) \o x
<1> DEFINE n == Len(s)
           t == Append(s, x)
<1>1. n \in Nat /\ Len(t) = n + 1 /\ t[n+1] = x /\ \A i \in 1 .. n : t[i] = s[i]
  OBVIOUS
<1>0. n = 0 => s = <<>>
  OBVIOUS
<1> HIDE DEF n, t
<1>2. PICK g : Flattens(g, t, n + 1) /\ FlattenSeq(t) = g[n+1]
  <2>1. Len(t) = n + 1 /\ Len(t) \in Nat /\ Len(t) > 0
    BY <1>1
  <2> QED BY <2>1, FlattenIs
<1>3. \A i \in 1 .. n + 1 : g[i] = IF i = 1 THEN t[i] ELSE g[i-1] \o t[i]
  BY <1>1, <1>2, FlattensAt
<1>4. g[n+1] = IF n = 0 THEN x ELSE g[n] \o x
  BY <1>1, <1>3
<1>5. CASE n = 0
  <2>1. FlattenSeq(s) = <<>>
    BY <1>0, <1>5, FlattenEmpty
  <2>2. <<>> \o x = x
    BY ConcatEmptySeq
  <2> QED BY <1>2, <1>4, <1>5, <2>1, <2>2 DEF t
<1>6. CASE n # 0
  <2>1. n > 0
    BY <1>1, <1>6
  <2>2. PICK f : Flattens(f, s, n) /\ FlattenSeq(s) = f[n]
    BY <1>1, <2>1, FlattenIs DEF n
  <2>3. EqualTo(f, g, n)
    <3>1. n + 1 \in Nat /\ n <= n + 1 /\ EqualTo(s, t, n)
      BY <1>1 DEF EqualTo
    <3>2. Flattens(g, t, n + 1)
      BY <1>2
    <3>3. n \in Nat
      BY <1>1
    <3> QED BY <2>2, <3>1, <3>2, <3>3, FlattensEqual
  <2>4. f[n] = g[n]
    BY <1>1, <2>1, <2>3 DEF EqualTo
  <2> QED BY <1>2, <1>4, <1>6, <2>2, <2>4 DEF t
<1> QED BY <1>5, <1>6

LEMMA ConcatThree ==
    ASSUME NEW X, NEW a \in Seq(X), NEW b \in Seq(X), NEW c \in Seq(X)
    PROVE  Associate(a, b, c)
BY ConcatAssociative DEF Associate

\* Of lists no longer than n: their concatenation is a sequence of what they
\* are lists of.
FlattensIn(X, n) == \A s \in Seq(Seq(X)) : Len(s) = n => FlattenSeq(s) \in Seq(X)

LEMMA FlattenType ==
    ASSUME NEW X, NEW s \in Seq(Seq(X))
    PROVE  FlattenSeq(s) \in Seq(X)
<1> DEFINE bad == {n \in Nat : ~ FlattensIn(X, n)}
<1>1. SUFFICES ASSUME bad # {} PROVE FALSE
  <2>1. Len(s) \in Nat
    OBVIOUS
  <2> QED BY <2>1 DEF FlattensIn
<1>2. PICK n \in bad : \A k \in bad : n <= k
  BY <1>1, LeastNat
<1>3. n \in Nat /\ ~ FlattensIn(X, n) /\ \A k \in Nat : k < n => FlattensIn(X, k)
  BY <1>2
<1>4. PICK t \in Seq(Seq(X)) : Len(t) = n /\ FlattenSeq(t) \notin Seq(X)
  BY <1>3 DEF FlattensIn
<1>5. t # <<>>
  BY <1>4, FlattenEmpty
<1>6. PICK a \in Seq(Seq(X)), x \in Seq(X) : t = Append(a, x)
  BY <1>5, SequenceEmptyOrAppend
<1>7. Len(a) \in Nat /\ Len(a) < n
  BY <1>4, <1>6
<1>8. FlattenSeq(a) \in Seq(X)
  BY <1>3, <1>7 DEF FlattensIn
<1>9. FlattenSeq(t) = FlattenSeq(a) \o x
  BY <1>6, FlattenAppend
<1> QED BY <1>4, <1>8, <1>9, ConcatProperties

FlattensBoth(X, n) ==
    \A s, t \in Seq(Seq(X)) : Len(t) = n => FlattenSeq(s \o t) = FlattenSeq(s) \o FlattenSeq(t)

LEMMA FlattenConcat ==
    ASSUME NEW X, NEW s \in Seq(Seq(X)), NEW t \in Seq(Seq(X))
    PROVE  FlattenSeq(s \o t) = FlattenSeq(s) \o FlattenSeq(t)
<1> DEFINE bad == {n \in Nat : ~ FlattensBoth(X, n)}
<1>1. SUFFICES ASSUME bad # {} PROVE FALSE
  <2>1. Len(t) \in Nat
    OBVIOUS
  <2> QED BY <2>1 DEF FlattensBoth
<1>2. PICK n \in bad : \A k \in bad : n <= k
  BY <1>1, LeastNat
<1>3. n \in Nat /\ ~ FlattensBoth(X, n) /\ \A k \in Nat : k < n => FlattensBoth(X, k)
  BY <1>2
<1>4. PICK u \in Seq(Seq(X)), v \in Seq(Seq(X)) :
         Len(v) = n /\ FlattenSeq(u \o v) # FlattenSeq(u) \o FlattenSeq(v)
  BY <1>3 DEF FlattensBoth
<1>0. FlattenSeq(u) \in Seq(X)
  BY FlattenType
<1>5. v # <<>>
  <2>1. u \o <<>> = u /\ FlattenSeq(u) \o <<>> = FlattenSeq(u)
    BY <1>0, ConcatEmptySeq
  <2> QED BY <1>4, <2>1, FlattenEmpty
<1>6. PICK a \in Seq(Seq(X)), x \in Seq(X) : v = Append(a, x)
  BY <1>5, SequenceEmptyOrAppend
<1>7. Len(a) \in Nat /\ Len(a) < n
  BY <1>4, <1>6
<1>8. FlattenSeq(u \o a) = FlattenSeq(u) \o FlattenSeq(a)
  BY <1>3, <1>7 DEF FlattensBoth
<1>9. u \o Append(a, x) = Append(u \o a, x)
  <2>1. Append(a, x) = a \o <<x>>
    BY AppendIsConcat
  <2>2. u \o a \in Seq(Seq(X)) /\ <<x>> \in Seq(Seq(X))
    OBVIOUS
  <2>3. (u \o a) \o <<x>> = u \o (a \o <<x>>)
    <3>1. Associate(u, a, <<x>>)
      BY <2>2, ConcatThree
    <3> QED BY <3>1 DEF Associate
  <2>4. Append(u \o a, x) = (u \o a) \o <<x>>
    BY <2>2, AppendIsConcat
  <2> QED BY <2>1, <2>3, <2>4
<1>10. FlattenSeq(u \o v) = FlattenSeq(u \o a) \o x
  <2>1. u \o a \in Seq(Seq(X))
    OBVIOUS
  <2> QED BY <1>6, <1>9, <2>1, FlattenAppend
<1>11. FlattenSeq(v) = FlattenSeq(a) \o x /\ FlattenSeq(a) \in Seq(X)
  BY <1>6, FlattenAppend, FlattenType
<1>12. (FlattenSeq(u) \o FlattenSeq(a)) \o x = FlattenSeq(u) \o (FlattenSeq(a) \o x)
  <2>1. Associate(FlattenSeq(u), FlattenSeq(a), x)
    BY <1>0, <1>11, ConcatThree
  <2> QED BY <2>1 DEF Associate
<1> QED BY <1>4, <1>8, <1>10, <1>11, <1>12

LEMMA FlattenOne ==
    ASSUME NEW X, NEW x \in Seq(X)
    PROVE  FlattenSeq(<<x>>) = x
<1>1. <<>> \in Seq(Seq(X)) /\ Append(<<>>, x) = <<x>>
  OBVIOUS
<1>2. FlattenSeq(<<x>>) = <<>> \o x
  BY <1>1, FlattenAppend, FlattenEmpty
<1> QED BY <1>2, ConcatEmptySeq

\* What f says of each of a list, one after the other.
Parts(f, list) == [k \in DOMAIN list |-> f[list[k]]]
Flow(f, list) == FlattenSeq(Parts(f, list))

\* h maps a.
Maps(f, a, h) == Len(h) = Len(a) /\ \A k \in 1 .. Len(a) : h[k] = f[a[k]]

LEMMA PartsAre ==
    ASSUME NEW S, NEW Y, NEW f \in [S -> Y], NEW a \in Seq(S)
    PROVE  Parts(f, a) \in Seq(Y) /\ Maps(f, a, Parts(f, a))
<1>1. Len(a) \in Nat /\ DOMAIN a = 1 .. Len(a) /\ \A k \in 1 .. Len(a) : a[k] \in S
  OBVIOUS
<1>2. Parts(f, a) \in [1 .. Len(a) -> Y]
  BY <1>1 DEF Parts
<1>3. \A k \in 1 .. Len(a) : Parts(f, a)[k] = f[a[k]]
  BY <1>1 DEF Parts
<1>4. Parts(f, a) \in Seq(Y) /\ Len(Parts(f, a)) = Len(a)
  BY <1>1, <1>2, ListIs
<1> QED BY <1>3, <1>4 DEF Maps

LEMMA FlowType ==
    ASSUME NEW S, NEW X, NEW f \in [S -> Seq(X)], NEW a \in Seq(S)
    PROVE  Flow(f, a) \in Seq(X)
<1>1. Parts(f, a) \in Seq(Seq(X))
  BY PartsAre
<1> QED BY <1>1, FlattenType DEF Flow

\* g is s, then t.
Joins(s, t, g) ==
    /\ Len(s) \in Nat /\ Len(t) \in Nat /\ Len(g) = Len(s) + Len(t)
    /\ \A k \in 1 .. Len(s) : g[k] = s[k]
    /\ \A k \in 1 .. Len(s) + Len(t) :
          ~ (k <= Len(s)) => k - Len(s) \in 1 .. Len(t) /\ g[k] = t[k - Len(s)]

LEMMA ConcatAt ==
    ASSUME NEW Y, NEW s \in Seq(Y), NEW t \in Seq(Y)
    PROVE  s \o t \in Seq(Y) /\ Joins(s, t, s \o t)
<1>1. Len(s) \in Nat /\ Len(t) \in Nat
  OBVIOUS
<1>2. s \o t \in Seq(Y) /\ Len(s \o t) = Len(s) + Len(t)
      /\ \A k \in 1 .. Len(s) + Len(t) : (s \o t)[k] = IF k <= Len(s) THEN s[k] ELSE t[k - Len(s)]
  BY ConcatProperties
<1> QED BY <1>1, <1>2 DEF Joins

\* Mapping a concatenation.
MapsBoth(f, a, b) == Parts(f, a \o b) = Parts(f, a) \o Parts(f, b)

LEMMA MapsConcat ==
    ASSUME NEW S, NEW Y, NEW f \in [S -> Y], NEW a \in Seq(S), NEW b \in Seq(S)
    PROVE  MapsBoth(f, a, b)
<1> DEFINE n == a \o b
           fa == Parts(f, a)
           fb == Parts(f, b)
           fn == Parts(f, n)
           g == fa \o fb
<1>1. n \in Seq(S) /\ Joins(a, b, n)
  BY ConcatAt
<1> HIDE DEF n
<1>2. /\ fa \in Seq(Y) /\ Maps(f, a, fa)
      /\ fb \in Seq(Y) /\ Maps(f, b, fb)
      /\ fn \in Seq(Y) /\ Maps(f, n, fn)
  BY <1>1, PartsAre
<1> HIDE DEF fa, fb, fn
<1>3. g \in Seq(Y) /\ Joins(fa, fb, g)
  BY <1>2, ConcatAt
<1> HIDE DEF g
<1>4. ASSUME NEW k \in 1 .. Len(fn) PROVE fn[k] = g[k]
  <2>1. k \in 1 .. Len(a) + Len(b) /\ fn[k] = f[n[k]]
    BY <1>1, <1>2 DEF Joins, Maps
  <2>2. CASE k <= Len(a)
    <3>1. k \in 1 .. Len(a)
      BY <1>1, <2>1, <2>2 DEF Joins
    <3>2. n[k] = a[k] /\ g[k] = fa[k] /\ fa[k] = f[a[k]]
      BY <1>1, <1>2, <1>3, <3>1 DEF Joins, Maps
    <3> QED BY <2>1, <3>2
  <2>3. CASE ~ (k <= Len(a))
    <3>1. k - Len(a) \in 1 .. Len(b) /\ n[k] = b[k - Len(a)]
      BY <1>1, <2>1, <2>3 DEF Joins
    <3>2. g[k] = fb[k - Len(a)] /\ fb[k - Len(a)] = f[b[k - Len(a)]]
      BY <1>2, <1>3, <2>1, <2>3, <3>1 DEF Joins, Maps
    <3> QED BY <2>1, <3>1, <3>2
  <2> QED BY <2>2, <2>3
<1>5. Len(fn) = Len(g)
  BY <1>1, <1>2, <1>3 DEF Joins, Maps
<1>6. fn = g
  BY <1>2, <1>3, <1>4, <1>5, SeqEqual
<1> QED BY <1>6 DEF MapsBoth, fn, fa, fb, n, g

FlowsBoth(f, a, b) == Flow(f, a \o b) = Flow(f, a) \o Flow(f, b)

LEMMA FlowConcat ==
    ASSUME NEW S, NEW X, NEW f \in [S -> Seq(X)], NEW a \in Seq(S), NEW b \in Seq(S)
    PROVE  FlowsBoth(f, a, b)
<1> DEFINE fa == Parts(f, a)
           fb == Parts(f, b)
<1>1. fa \in Seq(Seq(X)) /\ fb \in Seq(Seq(X))
  BY PartsAre
<1>2. MapsBoth(f, a, b)
  BY MapsConcat
<1>3. Flow(f, a \o b) = FlattenSeq(fa \o fb)
  BY <1>2 DEF Flow, MapsBoth
<1>4. Flow(f, a) = FlattenSeq(fa) /\ Flow(f, b) = FlattenSeq(fb)
  BY DEF Flow
<1> HIDE DEF fa, fb
<1> QED BY <1>1, <1>3, <1>4, FlattenConcat DEF FlowsBoth

LEMMA FlowOne ==
    ASSUME NEW S, NEW X, NEW f \in [S -> Seq(X)], NEW c \in S
    PROVE  Flow(f, <<c>>) = f[c] /\ Flow(f, <<>>) = <<>>
<1>1. Parts(f, <<c>>) = <<f[c]>>
  BY DEF Parts
<1>2. Parts(f, <<>>) = <<>>
  BY DEF Parts
<1>3. f[c] \in Seq(X)
  OBVIOUS
<1>4. FlattenSeq(<<f[c]>>) = f[c]
  BY <1>3, FlattenOne
<1> QED BY <1>1, <1>2, <1>4, FlattenEmpty DEF Flow

LEMMA FlowHead ==
    ASSUME NEW S, NEW X, NEW f \in [S -> Seq(X)], NEW a \in Seq(S), a # <<>>
    PROVE  Flow(f, a) = f[Head(a)] \o Flow(f, Tail(a))
<1>1. Head(a) \in S /\ Tail(a) \in Seq(S) /\ <<Head(a)>> \in Seq(S) /\ a = <<Head(a)>> \o Tail(a)
  OBVIOUS
<1>2. FlowsBoth(f, <<Head(a)>>, Tail(a))
  BY <1>1, FlowConcat
<1>3. Flow(f, <<Head(a)>>) = f[Head(a)]
  BY <1>1, FlowOne
<1> QED BY <1>1, <1>2, <1>3 DEF FlowsBoth

-------------------------------------------------------------------------------
(***************************************************************************)
(* What calls send and receive.                                            *)
(***************************************************************************)

Byte == {"S_YAO", "S_YAO_REV", "key"} \X {"table", "univ", "output", "key"} \X Nat

LEMMA BytesAre == Bytes = Seq(Byte)
  BY DEF Bytes, Byte

\* What is garbled and not sent, and what follows the tables.
ToSend(y, need, sent) == Tables(y, sent, NumTables(need)) \o AfterTables(y, need)

LEMMA AfterTablesIs ==
    ASSUME NEW y \in YaoSharing, NEW need \in Need
    PROVE  /\ UnivTables(y, need.univ) \in Bytes /\ Outputs(y, need.outs) \in Bytes
           /\ AfterTables(y, need) \in Bytes
<1>1. need.univ \in Nat /\ need.outs \in Nat
  BY DEF Need
<1>2. UnivTables(y, need.univ) \in Bytes /\ Outputs(y, need.outs) \in Bytes
  BY <1>1, UnivTablesAre, OutputsAre
<1> QED BY <1>2, BytesAre, ConcatAt DEF AfterTables

LEMMA ToSendIs ==
    ASSUME NEW y \in YaoSharing, NEW need \in Need, Increasing(need), NEW sent \in Nat, sent <= NumTables(need)
    PROVE  /\ Tables(y, sent, NumTables(need)) \in Bytes /\ AfterTables(y, need) \in Bytes
           /\ ToSend(y, need, sent) \in Bytes
<1>1. NumTables(need) \in Nat
  BY NumTablesIs
<1>2. Tables(y, sent, NumTables(need)) \in Bytes /\ AfterTables(y, need) \in Bytes
  BY <1>1, TablesAre, AfterTablesIs
<1> QED BY <1>2, BytesAre, ConcatAt DEF ToSend

LEMMA SentIs ==
    ASSUME NEW c \in Call
    PROVE  SentBy(c) \in Bytes /\ ReceivedBy(c) \in Bytes
<1>1. ReceivedBy(c) \in Bytes
  BY CallIs, KeyIs, NoBytes DEF ReceivedBy
<1>2. CASE c.op = "garble"
  <2>1. c \in Garbling
    BY <1>2, CallIs
  <2>2. SentBy(c) = ToSend(c.sharing, c.need, c.sent)
    BY <1>2 DEF SentBy, ToSend
  <2> QED BY <1>1, <2>1, <2>2, GarblingIs, ToSendIs
<1>3. CASE c.op # "garble"
  <2>1. SentBy(c) = IF c.op = "sndkey" THEN Key ELSE IF c.op = "sndtask" THEN c.data ELSE <<>>
    BY <1>3 DEF SentBy
  <2> QED BY <1>1, <2>1, CallIs, KeyIs, NoBytes
<1> QED BY <1>2, <1>3

Sent == [c \in Call |-> SentBy(c)]
Received == [c \in Call |-> ReceivedBy(c)]

LEMMA SentMaps == Sent \in [Call -> Seq(Byte)] /\ Received \in [Call -> Seq(Byte)]
  BY SentIs, BytesAre DEF Sent, Received

LEMMA AllSentIs ==
    ASSUME NEW list \in Seq(Call)
    PROVE  AllSent(list) = Flow(Sent, list) /\ AllReceived(list) = Flow(Received, list)
<1>1. \A k \in DOMAIN list : list[k] \in Call
  OBVIOUS
<1>2. [k \in DOMAIN list |-> SentBy(list[k])] = Parts(Sent, list)
  BY <1>1 DEF Sent, Parts
<1>3. [k \in DOMAIN list |-> ReceivedBy(list[k])] = Parts(Received, list)
  BY <1>1 DEF Received, Parts
<1> QED BY <1>2, <1>3 DEF AllSent, AllReceived, Flow

\* These calls send s and receive r.
Moves(list, s, r) == list \in Seq(Call) /\ AllSent(list) = s /\ AllReceived(list) = r

LEMMA MovesIs ==
    ASSUME NEW list, NEW s, NEW r, Moves(list, s, r)
    PROVE  s \in Bytes /\ r \in Bytes /\ s \in Seq(Byte) /\ r \in Seq(Byte)
<1>1. list \in Seq(Call) /\ s = Flow(Sent, list) /\ r = Flow(Received, list)
  BY AllSentIs DEF Moves
<1> QED BY <1>1, SentMaps, FlowType, BytesAre

LEMMA MovesConcat ==
    ASSUME NEW a, NEW b, NEW s, NEW r, NEW t, NEW u, Moves(a, s, r), Moves(b, t, u)
    PROVE  Moves(a \o b, s \o t, r \o u)
<1>1. a \in Seq(Call) /\ b \in Seq(Call)
  BY DEF Moves
<1>2. a \o b \in Seq(Call)
  BY <1>1, ConcatAt
<1>3. FlowsBoth(Sent, a, b) /\ FlowsBoth(Received, a, b)
  BY <1>1, SentMaps, FlowConcat
<1>4. /\ AllSent(a \o b) = Flow(Sent, a \o b) /\ AllReceived(a \o b) = Flow(Received, a \o b)
      /\ s = Flow(Sent, a) /\ t = Flow(Sent, b) /\ r = Flow(Received, a) /\ u = Flow(Received, b)
  BY <1>1, <1>2, AllSentIs DEF Moves
<1> QED BY <1>2, <1>3, <1>4 DEF Moves, FlowsBoth

LEMMA MovesOne ==
    ASSUME NEW c \in Call
    PROVE  Moves(<<c>>, SentBy(c), ReceivedBy(c)) /\ Moves(<<>>, <<>>, <<>>)
<1>1. <<c>> \in Seq(Call) /\ <<>> \in Seq(Call)
  OBVIOUS
<1>2. AllSent(<<c>>) = Flow(Sent, <<c>>) /\ AllReceived(<<c>>) = Flow(Received, <<c>>)
      /\ AllSent(<<>>) = Flow(Sent, <<>>) /\ AllReceived(<<>>) = Flow(Received, <<>>)
  BY <1>1, AllSentIs
<1>3. /\ Flow(Sent, <<c>>) = Sent[c] /\ Flow(Received, <<c>>) = Received[c]
      /\ Flow(Sent, <<>>) = <<>> /\ Flow(Received, <<>>) = <<>>
  BY SentMaps, FlowOne
<1> QED BY <1>1, <1>2, <1>3 DEF Moves, Sent, Received

\* The rest of a list, and what a call that is made takes from it.
LEMMA MovesTail ==
    ASSUME NEW list \in Seq(Call), list # <<>>
    PROVE  /\ AllSent(list) = SentBy(Head(list)) \o AllSent(Tail(list))
           /\ AllReceived(list) = ReceivedBy(Head(list)) \o AllReceived(Tail(list))
<1>1. Head(list) \in Call /\ Tail(list) \in Seq(Call)
  OBVIOUS
<1>2. /\ AllSent(list) = Flow(Sent, list) /\ AllReceived(list) = Flow(Received, list)
      /\ AllSent(Tail(list)) = Flow(Sent, Tail(list)) /\ AllReceived(Tail(list)) = Flow(Received, Tail(list))
  BY <1>1, AllSentIs
<1>3. /\ Flow(Sent, list) = Sent[Head(list)] \o Flow(Sent, Tail(list))
      /\ Flow(Received, list) = Received[Head(list)] \o Flow(Received, Tail(list))
  BY SentMaps, FlowHead
<1> QED BY <1>1, <1>2, <1>3 DEF Sent, Received

\* Calls that only send, only receive, or do neither.
LEMMA MovesOnly ==
    ASSUME NEW a, NEW b, NEW s, NEW t, Moves(a, s, <<>>), Moves(b, t, <<>>)
    PROVE  Moves(a \o b, s \o t, <<>>)
<1>1. <<>> \o <<>> = <<>>
  OBVIOUS
<1> QED BY <1>1, MovesConcat

LEMMA ReceivesOnly ==
    ASSUME NEW a, NEW b, NEW s, NEW t, Moves(a, <<>>, s), Moves(b, <<>>, t)
    PROVE  Moves(a \o b, <<>>, s \o t)
<1>1. <<>> \o <<>> = <<>>
  OBVIOUS
<1> QED BY <1>1, MovesConcat

LEMMA SilentFirst ==
    ASSUME NEW a, NEW b, NEW s, NEW r, Moves(a, <<>>, <<>>), Moves(b, s, r)
    PROVE  Moves(a \o b, s, r)
<1>1. s \in Seq(Byte) /\ r \in Seq(Byte)
  BY MovesIs
<1>2. <<>> \o s = s /\ <<>> \o r = r
  BY <1>1, ConcatEmptySeq
<1> QED BY <1>2, MovesConcat

LEMMA SilentLast ==
    ASSUME NEW a, NEW b, NEW s, NEW r, Moves(a, s, r), Moves(b, <<>>, <<>>)
    PROVE  Moves(a \o b, s, r)
<1>1. s \in Seq(Byte) /\ r \in Seq(Byte)
  BY MovesIs
<1>2. s \o <<>> = s /\ r \o <<>> = r
  BY <1>1, ConcatEmptySeq
<1> QED BY <1>2, MovesConcat

LEMMA CallsMove ==
    /\ Moves(<<>>, <<>>, <<>>)
    /\ Moves(Wait, <<>>, <<>>)
    /\ \A e \in Job : Moves(Wake(e), <<>>, <<>>)
    /\ Moves(<<[op |-> "online"]>>, <<>>, <<>>)
    /\ Moves(KeyExchange, Key, Key)
    /\ \A d \in Bytes : Moves(AddSendTask(d), d, <<>>) /\ Moves(AddReceiveTask(d), <<>>, d)
<1>1. Moves(<<>>, <<>>, <<>>) /\ Moves(Wait, <<>>, <<>>)
  <2>1. SentBy(WaitCall) = <<>> /\ ReceivedBy(WaitCall) = <<>> /\ Wait = <<WaitCall>>
    BY DEF WaitCall, SentBy, ReceivedBy, Wait
  <2> QED BY <2>1, CallKinds, MovesOne
<1>2. ASSUME NEW e \in Job PROVE Moves(Wake(e), <<>>, <<>>)
  <2>1. SentBy(WakeCall(e)) = <<>> /\ ReceivedBy(WakeCall(e)) = <<>> /\ Wake(e) = <<WakeCall(e)>>
    BY DEF WakeCall, SentBy, ReceivedBy, Wake
  <2>2. WakeCall(e) \in Call
    BY CallKinds
  <2> QED BY <2>1, <2>2, MovesOne
<1>3. Moves(<<[op |-> "online"]>>, <<>>, <<>>)
  <2>1. SentBy([op |-> "online"]) = <<>> /\ ReceivedBy([op |-> "online"]) = <<>>
    BY DEF SentBy, ReceivedBy
  <2> QED BY <2>1, CallKinds, MovesOne
<1>4. Moves(KeyExchange, Key, Key)
  <2> DEFINE s == [op |-> "sndkey"]
             r == [op |-> "rcvkey"]
  <2>1. /\ s \in Call /\ r \in Call
        /\ SentBy(s) = Key /\ ReceivedBy(s) = <<>> /\ SentBy(r) = <<>> /\ ReceivedBy(r) = Key
    BY CallKinds DEF SentBy, ReceivedBy
  <2>2. KeyExchange = <<s>> \o <<r>>
    BY DEF KeyExchange
  <2> HIDE DEF s, r
  <2>3. Moves(<<s>>, Key, <<>>) /\ Moves(<<r>>, <<>>, Key)
    BY <2>1, MovesOne
  <2>4. Moves(<<s>> \o <<r>>, Key \o <<>>, <<>> \o Key)
    BY <2>3, MovesConcat
  <2>5. Key \o <<>> = Key /\ <<>> \o Key = Key
    BY KeyIs, BytesAre, ConcatEmptySeq
  <2> QED BY <2>2, <2>4, <2>5
<1>5. ASSUME NEW d \in Bytes PROVE Moves(AddSendTask(d), d, <<>>) /\ Moves(AddReceiveTask(d), <<>>, d)
  <2>1. /\ SendCall(d) \in Call /\ ReceiveCall(d) \in Call
        /\ SentBy(SendCall(d)) = d /\ ReceivedBy(SendCall(d)) = <<>>
        /\ SentBy(ReceiveCall(d)) = <<>> /\ ReceivedBy(ReceiveCall(d)) = d
    BY CallKinds DEF SendCall, ReceiveCall, SentBy, ReceivedBy
  <2>2. AddSendTask(d) = (Wait \o <<SendCall(d)>>) \o Wake("Send")
        /\ AddReceiveTask(d) = (Wait \o <<ReceiveCall(d)>>) \o Wake("Receive")
    BY DEF AddSendTask, AddReceiveTask, SendCall, ReceiveCall
  <2> HIDE DEF SendCall, ReceiveCall
  <2>3. Moves(<<SendCall(d)>>, d, <<>>) /\ Moves(<<ReceiveCall(d)>>, <<>>, d)
    BY <2>1, MovesOne
  <2>4. Moves(Wait \o <<SendCall(d)>>, d, <<>>) /\ Moves(Wait \o <<ReceiveCall(d)>>, <<>>, d)
    BY <1>1, <2>3, SilentFirst
  <2>5. Moves(Wake("Send"), <<>>, <<>>) /\ Moves(Wake("Receive"), <<>>, <<>>)
    BY <1>2 DEF Job
  <2> QED BY <2>2, <2>4, <2>5, SilentLast
<1> QED BY <1>1, <1>2, <1>3, <1>4, <1>5

\* t is the tables of y from one to another.
AreTables(y, from, to, t) ==
    t \in Seq(Byte) /\ Len(t) = to - from /\ \A k \in 1 .. to - from : t[k] = <<y, "table", from + k>>

LEMMA TablesBetween ==
    ASSUME NEW y \in YaoSharing, NEW from \in Nat, NEW to \in Nat, from <= to
    PROVE  AreTables(y, from, to, Tables(y, from, to))
BY TablesAre, BytesAre DEF AreTables

LEMMA TablesSplit ==
    ASSUME NEW y \in YaoSharing, NEW from \in Nat, NEW mid \in Nat, NEW to \in Nat, from <= mid, mid <= to
    PROVE  Tables(y, from, to) = Tables(y, from, mid) \o Tables(y, mid, to)
<1> DEFINE a == Tables(y, from, mid)
           b == Tables(y, mid, to)
           c == Tables(y, from, to)
<1>0. from <= to
  OBVIOUS
<1>1. AreTables(y, from, mid, a) /\ AreTables(y, mid, to, b) /\ AreTables(y, from, to, c)
  BY <1>0, TablesBetween
<1>2. /\ a \in Seq(Byte) /\ Len(a) = mid - from /\ \A k \in 1 .. mid - from : a[k] = <<y, "table", from + k>>
      /\ b \in Seq(Byte) /\ Len(b) = to - mid /\ \A k \in 1 .. to - mid : b[k] = <<y, "table", mid + k>>
      /\ c \in Seq(Byte) /\ Len(c) = to - from /\ \A k \in 1 .. to - from : c[k] = <<y, "table", from + k>>
  BY <1>1 DEF AreTables
<1> HIDE DEF a, b, c
<1> DEFINE g == a \o b
<1>3. g \in Seq(Byte) /\ Joins(a, b, g)
  BY <1>2, ConcatAt
<1> HIDE DEF g
<1>4. Len(c) = Len(g)
  BY <1>2, <1>3 DEF Joins
<1>5. ASSUME NEW k \in 1 .. Len(c) PROVE c[k] = g[k]
  <2>1. CASE k <= Len(a)
    <3>1. k \in 1 .. Len(a)
      BY <1>2, <2>1
    <3>2. g[k] = a[k]
      BY <1>3, <3>1 DEF Joins
    <3> QED BY <1>2, <3>1, <3>2
  <2>2. CASE ~ (k <= Len(a))
    <3>1. k \in 1 .. Len(a) + Len(b)
      BY <1>2
    <3>2. k - Len(a) \in 1 .. Len(b) /\ g[k] = b[k - Len(a)]
      BY <1>3, <2>2, <3>1 DEF Joins
    <3>3. b[k - Len(a)] = <<y, "table", mid + (k - Len(a))>>
      BY <1>2, <3>2
    <3>4. mid + (k - Len(a)) = from + k
      BY <1>2
    <3> QED BY <1>2, <3>2, <3>3, <3>4
  <2> QED BY <2>1, <2>2
<1>6. c = g
  BY <1>2, <1>3, <1>4, <1>5, SeqEqual
<1> QED BY <1>6 DEF a, b, c, g

LEMMA NothingToSend ==
    ASSUME NEW y, NEW n \in Nat
    PROVE  Tables(y, n, n) = <<>> /\ UnivTables(y, 0) = <<>> /\ Outputs(y, 0) = <<>>
<1>1. n - n = 0 /\ 1 .. 0 = {}
  OBVIOUS
<1> QED BY <1>1 DEF Tables, UnivTables, Outputs

\* What follows the tables is sent, and received, by the calls for it.
LEMMA AfterTablesMove ==
    ASSUME NEW y \in YaoSharing, NEW need \in Need
    PROVE  /\ Moves(SendUnivAndOutputs(y, need), AfterTables(y, need), <<>>)
           /\ Moves(ReceiveUnivAndOutputs(y, need), <<>>, AfterTables(y, need))
<1> DEFINE u == UnivTables(y, need.univ)
           o == Outputs(y, need.outs)
           su == IF need.univ > 0 THEN AddSendTask(u) ELSE <<>>
           so == IF need.outs > 0 THEN AddSendTask(o) ELSE <<>>
           ru == IF need.univ > 0 THEN AddReceiveTask(u) ELSE <<>>
           ro == IF need.outs > 0 THEN AddReceiveTask(o) ELSE <<>>
<1>1. /\ SendUnivAndOutputs(y, need) = su \o so /\ ReceiveUnivAndOutputs(y, need) = ru \o ro
      /\ AfterTables(y, need) = u \o o
  BY DEF SendUnivAndOutputs, ReceiveUnivAndOutputs, AfterTables
<1>2. u \in Bytes /\ o \in Bytes
  BY AfterTablesIs
<1>3. (~ (need.univ > 0) => u = <<>>) /\ (~ (need.outs > 0) => o = <<>>)
  <2>1. need.univ \in Nat /\ need.outs \in Nat
    BY DEF Need
  <2>2. (~ (need.univ > 0) => need.univ = 0) /\ (~ (need.outs > 0) => need.outs = 0)
    BY <2>1
  <2> QED BY <2>2, NothingToSend
<1> HIDE DEF u, o
<1>4. Moves(su, u, <<>>) /\ Moves(so, o, <<>>)
  BY <1>2, <1>3, CallsMove
<1>5. Moves(ru, <<>>, u) /\ Moves(ro, <<>>, o)
  BY <1>2, <1>3, CallsMove
<1> HIDE DEF su, so, ru, ro
<1>6. Moves(su \o so, u \o o, <<>>) /\ Moves(ru \o ro, <<>>, u \o o)
  BY <1>4, <1>5, MovesOnly, ReceivesOnly
<1> QED BY <1>1, <1>6

\* Garbling sends no more and no less, wherever the windows end.
LEMMA GarblingMoves ==
    ASSUME NEW g \in Garbling
    PROVE  /\ Moves(<<g>>, ToSend(g.sharing, g.need, g.sent), <<>>)
           /\ Moves(IF g.gate < Len(g.need.ands) THEN EvaluateANDGate(g) ELSE SendRest(g),
                    ToSend(g.sharing, g.need, g.sent), <<>>)
<1> DEFINE n == NumTables(g.need)
           y == g.sharing
           o == AfterTables(y, g.need)
<1>1. /\ g.op = "garble" /\ y \in YaoSharing /\ g.need \in Need /\ g.sent \in Nat /\ g.gate \in Nat
      /\ g.sent <= n /\ Increasing(g.need) /\ n \in Nat
  BY GarblingIs, NumTablesIs DEF Need
<1>2. Tables(y, g.sent, n) \in Bytes /\ o \in Bytes /\ ToSend(y, g.need, g.sent) \in Bytes
  BY <1>1, ToSendIs
<1>3. ASSUME NEW h \in Garbling PROVE Moves(<<h>>, ToSend(h.sharing, h.need, h.sent), <<>>)
  <2>1. h.op = "garble" /\ h \in Call
    BY GarblingIs, CallKinds
  <2>2. SentBy(h) = ToSend(h.sharing, h.need, h.sent) /\ ReceivedBy(h) = <<>>
    BY <2>1 DEF SentBy, ReceivedBy, ToSend
  <2> QED BY <2>1, <2>2, MovesOne
<1>4. ASSUME g.gate < Len(g.need.ands) PROVE Moves(EvaluateANDGate(g), ToSend(y, g.need, g.sent), <<>>)
  <2> DEFINE ctr == g.need.ands[g.gate + 1]
             h == GarbleFrom(y, g.need, g.gate + 1, ctr)
             i == GarbleFrom(y, g.need, g.gate + 1, g.sent)
  <2>1. /\ ctr \in Nat /\ g.sent < ctr /\ ctr <= n
        /\ h \in Garbling /\ i \in Garbling /\ NextWindow(g, ctr) \in Bytes
    BY <1>4, NextGarbling
  <2>2. EvaluateANDGate(g) = IF ctr - g.sent >= Window THEN AddSendTask(NextWindow(g, ctr)) \o <<h>> ELSE <<i>>
    BY DEF EvaluateANDGate
  <2>3. /\ h.sharing = y /\ h.need = g.need /\ h.sent = ctr
        /\ i.sharing = y /\ i.need = g.need /\ i.sent = g.sent
    BY DEF GarbleFrom
  <2> HIDE DEF h, i, ctr, y, n
  <2>4. Moves(<<h>>, ToSend(y, g.need, ctr), <<>>) /\ Moves(<<i>>, ToSend(y, g.need, g.sent), <<>>)
    BY <1>3, <2>1, <2>3
  <2>5. Moves(AddSendTask(NextWindow(g, ctr)), NextWindow(g, ctr), <<>>)
    BY <2>1, CallsMove
  <2>6. Moves(AddSendTask(NextWindow(g, ctr)) \o <<h>>, NextWindow(g, ctr) \o ToSend(y, g.need, ctr), <<>>)
    BY <2>4, <2>5, MovesOnly
  <2>7. NextWindow(g, ctr) \o ToSend(y, g.need, ctr) = ToSend(y, g.need, g.sent)
    <3> DEFINE a == Tables(y, g.sent, ctr)
               b == Tables(y, ctr, n)
    <3>0. g.sent <= ctr
      BY <1>1, <2>1
    <3>1. Tables(y, g.sent, n) = a \o b
      BY <1>1, <2>1, <3>0, TablesSplit
    <3>9. a \in Bytes /\ b \in Bytes
      BY <1>1, <2>1, <3>0, TablesAre
    <3>2. NextWindow(g, ctr) = a
      BY DEF NextWindow, y
    <3>3. ToSend(y, g.need, ctr) = b \o o /\ ToSend(y, g.need, g.sent) = Tables(y, g.sent, n) \o o
      BY DEF ToSend, n
    <3> HIDE DEF a, b, o
    <3>4. Associate(a, b, o)
      BY <1>2, <3>9, BytesAre, ConcatThree
    <3> QED BY <3>1, <3>2, <3>3, <3>4 DEF Associate
  <2> QED BY <2>2, <2>4, <2>6, <2>7
<1>5. Moves(SendRest(g), ToSend(y, g.need, g.sent), <<>>)
  <2> DEFINE l == IF g.sent < n THEN AddSendTask(NextWindow(g, n)) ELSE <<>>
             m == SendUnivAndOutputs(y, g.need)
  <2>1. SendRest(g) = l \o m
    BY DEF SendRest
  <2>2. NextWindow(g, n) = Tables(y, g.sent, n)
    BY DEF NextWindow
  <2>3. Moves(l, Tables(y, g.sent, n), <<>>)
    <3>1. CASE g.sent < n
      BY <1>2, <2>2, <3>1, CallsMove
    <3>2. CASE ~ (g.sent < n)
      <4>1. g.sent = n
        BY <1>1, <3>2
      <4>2. Tables(y, g.sent, n) = <<>>
        BY <1>1, <4>1, NothingToSend
      <4> QED BY <3>2, <4>2, CallsMove
    <3> QED BY <3>1, <3>2
  <2>4. Moves(m, o, <<>>)
    BY <1>1, AfterTablesMove
  <2> HIDE DEF l, m, o
  <2>5. Moves(l \o m, Tables(y, g.sent, n) \o o, <<>>)
    BY <2>3, <2>4, MovesOnly
  <2> QED BY <2>1, <2>5 DEF ToSend, o
<1> QED BY <1>3, <1>4, <1>5

\* What party p's calls for a Yao sharing send or receive.
LEMMA YaoMoves ==
    ASSUME NEW p \in Party, NEW c \in Circuit, NEW y \in YaoSharing
    PROVE  /\ p = Garbler(y) => Moves(YaoPerformSetupPhase(p, c, y), ToSend(y, YaoNeed(c, y), 0), <<>>)
           /\ p # Garbler(y) => Moves(YaoPerformSetupPhase(p, c, y), <<>>, ToSend(y, YaoNeed(c, y), 0))
           /\ Moves(YaoFinishSetupPhase(p, c, y), <<>>, <<>>)
<1> DEFINE need == YaoNeed(c, y)
           n == NumTables(need)
           o == AfterTables(y, need)
           all == ToSend(y, need, 0)
           g == GarbleFrom(y, need, 0, 0)
           l == IF need.ands # <<>> THEN AddReceiveTask(Tables(y, 0, n)) ELSE <<>>
           m == ReceiveUnivAndOutputs(y, need)
<1>1. need \in Need /\ Increasing(need) /\ Layered(need) /\ n \in Nat /\ 0 \in Nat /\ 0 <= n
      /\ (need.ands = <<>> => n = 0)
  BY YaoNeedIs, NumTablesIs
<1>2. Tables(y, 0, n) \in Bytes /\ o \in Bytes /\ all = Tables(y, 0, n) \o o
  <2> HIDE DEF need
  <2>1. Tables(y, 0, n) \in Bytes /\ o \in Bytes
    BY <1>1, TablesAre, AfterTablesIs
  <2> QED BY <2>1 DEF ToSend
<1>3. YaoPerformSetupPhase(p, c, y) =
        IF ~ Used(need) THEN <<>> ELSE IF p = Garbler(y) THEN <<g>> ELSE l \o m
  BY DEF YaoPerformSetupPhase, CreateAndSendGarbledCircuit, ReceiveGarbledCircuitAndOutputShares
<1>4. Moves(YaoFinishSetupPhase(p, c, y), <<>>, <<>>)
  BY CallsMove DEF YaoFinishSetupPhase
<1>5. need.ands = <<>> => Tables(y, 0, n) = <<>>
  BY <1>1, NothingToSend
<1>6. ~ Used(need) => need.ands = <<>> /\ o = <<>>
  <2>1. need.depth \in Nat
    BY <1>1 DEF Need
  <2>2. ~ Used(need) => need.ands = <<>> /\ need.univ = 0 /\ need.outs = 0
    BY <1>1, <2>1 DEF Used, Layered
  <2>3. <<>> \o <<>> = <<>>
    OBVIOUS
  <2> QED BY <2>2, <2>3, NothingToSend DEF AfterTables
<1>7. ~ Used(need) => all = <<>>
  <2>1. <<>> \o <<>> = <<>>
    OBVIOUS
  <2> QED BY <1>2, <1>5, <1>6, <2>1
<1>8. Moves(<<g>>, all, <<>>)
  <2> HIDE DEF need
  <2>1. g \in Garbling
    BY <1>1, FirstGarbling
  <2>2. g.sharing = y /\ g.need = need /\ g.sent = 0
    BY DEF GarbleFrom
  <2> HIDE DEF g
  <2> QED BY <2>1, <2>2, GarblingMoves
<1> HIDE DEF need, n, o, all, g
<1>9. Moves(l, <<>>, Tables(y, 0, n)) /\ Moves(m, <<>>, o)
  <2>1. Moves(l, <<>>, Tables(y, 0, n))
    BY <1>2, <1>5, CallsMove
  <2>2. Moves(m, <<>>, o)
    BY <1>1, AfterTablesMove DEF o
  <2> QED BY <2>1, <2>2
<1> HIDE DEF l, m
<1>10. Moves(l \o m, <<>>, all)
  BY <1>2, <1>9, ReceivesOnly
<1>11. (p = Garbler(y) => Moves(YaoPerformSetupPhase(p, c, y), all, <<>>))
       /\ (p # Garbler(y) => Moves(YaoPerformSetupPhase(p, c, y), <<>>, all))
  BY <1>3, <1>7, <1>8, <1>10, CallsMove
<1> QED BY <1>4, <1>11 DEF all, need

\* With a circuit, a party sends what it is to send for it, and receives what
\* the other sends.
LEMMA ExecCircuitMoves ==
    ASSUME NEW p \in Party, NEW c \in Circuit
    PROVE  Moves(ExecCircuit(p, c), CircuitSent(p, c), CircuitSent(Peer(p), c))
<1> DEFINE key == IF MTGenAlg = "MT_DGK" /\ c.muls > 0 THEN Key ELSE <<>>
           mine == ToSend(Garbled(p), YaoNeed(c, Garbled(p)), 0)
           other == ToSend(Garbled(Peer(p)), YaoNeed(c, Garbled(Peer(p))), 0)
           a == YaoPerformSetupPhase(p, c, YaoOrder(p)[1])
           b == YaoPerformSetupPhase(p, c, YaoOrder(p)[2])
           d == YaoFinishSetupPhase(p, c, "S_YAO")
           e == YaoFinishSetupPhase(p, c, "S_YAO_REV")
           f == <<[op |-> "online"]>>
           s == PerformSetupPhase(c)
<1>1. Moves(s, key, key)
  <2> DEFINE s1 == Wake("IKNPOTExt")
             s3 == IF MTGenAlg = "MT_PAILLIER" THEN Wake("MTPaillier") \o Wait ELSE <<>>
             s4 == IF MTGenAlg = "MT_DGK" /\ c.muls > 0 THEN KeyExchange ELSE <<>>
             s5 == IF MTGenAlg = "MT_DGK" THEN Wake("MTDGK") \o Wait ELSE <<>>
  <2>1. s = s1 \o Wait \o s3 \o s4 \o s5
    BY DEF PerformSetupPhase
  <2>2. Moves(s1, <<>>, <<>>) /\ Moves(Wait, <<>>, <<>>)
        /\ Moves(Wake("MTPaillier"), <<>>, <<>>) /\ Moves(Wake("MTDGK"), <<>>, <<>>)
    BY CallsMove DEF Job
  <2>3. Moves(s3, <<>>, <<>>) /\ Moves(s5, <<>>, <<>>)
    BY <2>2, CallsMove, SilentFirst
  <2>4. Moves(s4, key, key)
    BY CallsMove
  <2> HIDE DEF s1, s3, s4, s5, key
  <2>5. Moves(s1 \o Wait, <<>>, <<>>)
    BY <2>2, SilentFirst
  <2>6. Moves(s1 \o Wait \o s3, <<>>, <<>>)
    BY <2>3, <2>5, SilentFirst
  <2>7. Moves(s1 \o Wait \o s3 \o s4, key, key)
    BY <2>4, <2>6, SilentFirst
  <2> QED BY <2>1, <2>3, <2>7, SilentLast
<1>2. Moves(a, mine, <<>>) /\ Moves(b, <<>>, other)
  <2>1. CASE p = "SERVER"
    <3>1. /\ Garbled(p) = "S_YAO" /\ Garbled(Peer(p)) = "S_YAO_REV"
          /\ YaoOrder(p)[1] = "S_YAO" /\ YaoOrder(p)[2] = "S_YAO_REV"
          /\ p = Garbler("S_YAO") /\ p # Garbler("S_YAO_REV")
      BY <2>1 DEF Garbled, Peer, YaoOrder, Garbler
    <3> QED BY <3>1, YaoMoves DEF YaoSharing
  <2>2. CASE p = "CLIENT"
    <3>1. /\ Garbled(p) = "S_YAO_REV" /\ Garbled(Peer(p)) = "S_YAO"
          /\ YaoOrder(p)[1] = "S_YAO_REV" /\ YaoOrder(p)[2] = "S_YAO"
          /\ p = Garbler("S_YAO_REV") /\ p # Garbler("S_YAO")
      BY <2>2 DEF Garbled, Peer, YaoOrder, Garbler
    <3> QED BY <3>1, YaoMoves DEF YaoSharing
  <2> QED BY <2>1, <2>2 DEF Party
<1>3. Moves(d, <<>>, <<>>) /\ Moves(e, <<>>, <<>>) /\ Moves(f, <<>>, <<>>)
  BY CallsMove, YaoMoves DEF YaoSharing
<1>4. ExecCircuit(p, c) = s \o a \o b \o d \o e \o f
  BY DEF ExecCircuit
<1>5. CircuitSent(p, c) = key \o mine /\ CircuitSent(Peer(p), c) = key \o other
  <2>1. ASSUME NEW q \in Party
        PROVE  CircuitSent(q, c) = key \o ToSend(Garbled(q), YaoNeed(c, Garbled(q)), 0)
    <3> DEFINE need == YaoNeed(c, Garbled(q))
               t == Tables(Garbled(q), 0, NumTables(need))
               o == AfterTables(Garbled(q), need)
    <3>1. Garbled(q) \in YaoSharing
      BY DEF Garbled, YaoSharing
    <3>2. need \in Need /\ Increasing(need)
      BY <3>1, YaoNeedIs
    <3>3. t \in Bytes /\ o \in Bytes
      <4> HIDE DEF need
      <4>1. 0 \in Nat /\ 0 <= NumTables(need)
        BY <3>2, NumTablesIs
      <4> QED BY <3>1, <3>2, <4>1, ToSendIs
    <3>4. key \in Bytes
      BY KeyIs, NoBytes
    <3>5. CircuitSent(q, c) = (key \o t) \o o
      BY DEF CircuitSent
    <3>6. ToSend(Garbled(q), need, 0) = t \o o
      BY DEF ToSend
    <3> HIDE DEF t, o, key, need
    <3>7. Associate(key, t, o)
      BY <3>3, <3>4, BytesAre, ConcatThree
    <3> QED BY <3>5, <3>6, <3>7 DEF Associate, need
  <2> QED BY <2>1, PeerIs
<1> HIDE DEF key, mine, other, a, b, d, e, f, s
<1>6. Moves(s \o a, key \o mine, key)
  <2>1. Moves(s \o a, key \o mine, key \o <<>>)
    BY <1>1, <1>2, MovesConcat
  <2>2. key \o <<>> = key
    <3>1. key \in Seq(Byte)
      BY <1>1, MovesIs
    <3> QED BY <3>1, ConcatEmptySeq
  <2> QED BY <2>1, <2>2
<1>7. Moves(s \o a \o b, key \o mine, key \o other)
  <2>1. Moves(s \o a \o b, (key \o mine) \o <<>>, key \o other)
    BY <1>2, <1>6, MovesConcat
  <2>2. (key \o mine) \o <<>> = key \o mine
    <3>1. key \o mine \in Seq(Byte)
      BY <1>6, MovesIs
    <3> QED BY <3>1, ConcatEmptySeq
  <2> QED BY <2>1, <2>2
<1>8. Moves(s \o a \o b \o d, key \o mine, key \o other)
  BY <1>3, <1>7, SilentLast
<1>9. Moves(s \o a \o b \o d \o e, key \o mine, key \o other)
  BY <1>3, <1>8, SilentLast
<1>10. Moves(s \o a \o b \o d \o e \o f, key \o mine, key \o other)
  BY <1>3, <1>9, SilentLast
<1> QED BY <1>4, <1>5, <1>10

-------------------------------------------------------------------------------
(***************************************************************************)
(* The streams.                                                            *)
(***************************************************************************)

LEMMA Beginning ==
    ASSUME NEW X, NEW got \in Seq(X), NEW e \in Seq(X)
    PROVE  Len(got) \in 0 .. Len(got \o e) /\ SubSeq(got \o e, 1, Len(got)) = got
<1> DEFINE s == got \o e
           n == Len(got)
<1>1. s \in Seq(X) /\ Joins(got, e, s)
  BY ConcatAt
<1> HIDE DEF s
<1>2. n \in Nat /\ Len(s) \in Nat /\ n <= Len(s) /\ \A k \in 1 .. n : s[k] = got[k]
  BY <1>1 DEF Joins
<1>3. \A k \in 1 .. n : s[k] \in X
  BY <1>1, <1>2
<1> DEFINE t == SubSeq(s, 1, n)
<1>4. t \in Seq(X) /\ Len(t) = n /\ \A k \in 1 .. n : t[k] = s[k]
  BY <1>1, <1>2
<1> HIDE DEF t
<1>5. t = got
  BY <1>2, <1>4, SeqEqual
<1> QED BY <1>2, <1>5 DEF t, s

\* After got, e is left of a and d of b.
After(got, a, e, b, d) == a = got \o e /\ b = got \o d

LEMMA AlikeGot ==
    ASSUME NEW X, NEW a \in Seq(X), NEW e, NEW b, NEW d, BeginAlike(a, e, b, d)
    PROVE  \E got \in Seq(X) : After(got, a, e, b, d)
<1>1. PICK n \in 0 .. Len(a) : LET got == SubSeq(a, 1, n) IN a = got \o e /\ b = got \o d
  BY DEF BeginAlike
<1>2. SubSeq(a, 1, n) \in Seq(X)
  OBVIOUS
<1> QED BY <1>1, <1>2 DEF After

LEMMA GotAlike ==
    ASSUME NEW X, NEW got \in Seq(X), NEW a, NEW e \in Seq(X), NEW b, NEW d, After(got, a, e, b, d)
    PROVE  BeginAlike(a, e, b, d)
<1>1. Len(got) \in 0 .. Len(a) /\ SubSeq(a, 1, Len(got)) = got
  BY Beginning DEF After
<1> QED BY <1>1 DEF BeginAlike, After

\* More of either is to come.
LEMMA AlikeMore ==
    ASSUME NEW X, NEW a \in Seq(X), NEW e \in Seq(X), NEW b \in Seq(X), NEW d \in Seq(X), NEW x \in Seq(X),
           BeginAlike(a, e, b, d)
    PROVE  BeginAlike(a \o x, e \o x, b, d) /\ BeginAlike(a, e, b \o x, d \o x)
<1>1. PICK got \in Seq(X) : After(got, a, e, b, d)
  BY AlikeGot
<1>2. Associate(got, e, x) /\ Associate(got, d, x)
  BY ConcatThree
<1>3. After(got, a \o x, e \o x, b, d) /\ After(got, a, e, b \o x, d \o x)
  BY <1>1, <1>2 DEF After, Associate
<1>4. e \o x \in Seq(X)
  OBVIOUS
<1> QED BY <1>3, <1>4, GotAlike

\* The same is taken from both.
LEMMA AlikeTake ==
    ASSUME NEW X, NEW a \in Seq(X), NEW e \in Seq(X), NEW b \in Seq(X), NEW d \in Seq(X), NEW x \in Seq(X),
           BeginAlike(a, x \o e, b, x \o d)
    PROVE  BeginAlike(a, e, b, d)
<1>1. PICK got \in Seq(X) : After(got, a, x \o e, b, x \o d)
  BY AlikeGot
<1>2. Associate(got, x, e) /\ Associate(got, x, d)
  BY ConcatThree
<1>3. After(got \o x, a, e, b, d)
  BY <1>1, <1>2 DEF After, Associate
<1>4. got \o x \in Seq(X)
  OBVIOUS
<1> QED BY <1>3, <1>4, GotAlike

\* One is a beginning of the other.
Compatible(a, b) == \A k \in 1 .. Len(a) : k <= Len(b) => a[k] = b[k]

LEMMA AlikeAgree ==
    ASSUME NEW X, NEW a \in Seq(X), NEW e \in Seq(X), NEW b \in Seq(X), NEW d \in Seq(X),
           BeginAlike(a, e, b, d), Compatible(a, b)
    PROVE  Compatible(e, d)
<1>1. PICK got \in Seq(X) : After(got, a, e, b, d)
  BY AlikeGot
<1>2. Joins(got, e, got \o e) /\ Joins(got, d, got \o d)
  BY ConcatAt
<1>3. Joins(got, e, a) /\ Joins(got, d, b)
  BY <1>1, <1>2 DEF After
<1>4. ASSUME NEW k \in 1 .. Len(e), k <= Len(d) PROVE e[k] = d[k]
  <2> DEFINE m == Len(got) + k
  <2>1. /\ m \in 1 .. Len(a) /\ m <= Len(b) /\ m - Len(got) = k /\ ~ (m <= Len(got))
        /\ m \in 1 .. Len(got) + Len(e) /\ m \in 1 .. Len(got) + Len(d)
    BY <1>3, <1>4 DEF Joins
  <2> HIDE DEF m
  <2>2. a[m] = b[m]
    BY <2>1 DEF Compatible
  <2>3. a[m] = e[k] /\ b[m] = d[k]
    BY <1>3, <2>1 DEF Joins
  <2> QED BY <2>2, <2>3
<1> QED BY <1>4 DEF Compatible

LEMMA BeginningCompatible ==
    ASSUME NEW X, NEW a \in Seq(X), NEW r \in Seq(X)
    PROVE  Compatible(a, a \o r) /\ Compatible(a \o r, a)
<1>1. Joins(a, r, a \o r)
  BY ConcatAt
<1> QED BY <1>1 DEF Joins, Compatible

\* What is sent for each of the circuits up to k.
Shares(p, k) == [l \in 1 .. k |-> CircuitSent(p, Circuits[l])]

LEMMA CircuitSentIs ==
    ASSUME NEW p \in Party, NEW c \in Circuit
    PROVE  CircuitSent(p, c) \in Seq(Byte)
<1>1. Moves(ExecCircuit(p, c), CircuitSent(p, c), CircuitSent(Peer(p), c))
  BY ExecCircuitMoves
<1> QED BY <1>1, MovesIs

LEMMA SharesAre ==
    ASSUME NEW p \in Party, NEW k \in 0 .. Len(Circuits)
    PROVE  Shares(p, k) \in Seq(Seq(Byte)) /\ Len(Shares(p, k)) = k
<1>1. k \in Nat /\ \A l \in 1 .. k : Circuits[l] \in Circuit
  BY CircuitsAre
<1>2. Shares(p, k) \in [1 .. k -> Seq(Byte)]
  BY <1>1, CircuitSentIs DEF Shares
<1> QED BY <1>1, <1>2, ListIs

FirstIs == FirstSent \in Seq(Byte)

LEMMA FirstSentIs == FirstIs
  BY KeyIs, NoBytes, BytesAre DEF FirstSent, FirstIs

LEMMA StreamIs ==
    ASSUME NEW p \in Party, NEW k \in 0 .. Len(Circuits)
    PROVE  Stream(p, k) = FirstSent \o FlattenSeq(Shares(p, k)) /\ Stream(p, k) \in Seq(Byte)
<1>1. Stream(p, k) = FirstSent \o FlattenSeq(Shares(p, k))
  BY DEF Stream, Shares
<1>2. FlattenSeq(Shares(p, k)) \in Seq(Byte)
  BY SharesAre, FlattenType
<1>3. FirstSent \in Seq(Byte)
  BY FirstSentIs DEF FirstIs
<1> QED BY <1>1, <1>2, <1>3, ConcatAt

\* A stream goes on with the next circuit, and begins the later ones.
LEMMA StreamGrows ==
    ASSUME NEW p \in Party, NEW m \in 0 .. Len(Circuits), NEW n \in m .. Len(Circuits)
    PROVE  \E r \in Seq(Byte) : /\ Stream(p, n) = Stream(p, m) \o r
                                /\ n = m + 1 => r = CircuitSent(p, Circuits[m+1])
<1> DEFINE more == [l \in 1 .. n - m |-> CircuitSent(p, Circuits[m+l])]
           a == Shares(p, m)
           b == Shares(p, n)
           r == FlattenSeq(more)
<1>0. Len(Circuits) \in Nat /\ m \in Nat /\ n \in Nat /\ n - m \in Nat /\ n \in 0 .. Len(Circuits)
  BY CircuitsAre
<1>1. a \in Seq(Seq(Byte)) /\ Len(a) = m /\ b \in Seq(Seq(Byte)) /\ Len(b) = n
  BY <1>0, SharesAre
<1>2. more \in Seq(Seq(Byte)) /\ Len(more) = n - m
  <2>1. \A l \in 1 .. n - m : Circuits[m+l] \in Circuit
    BY <1>0, CircuitsAre
  <2>2. more \in [1 .. n - m -> Seq(Byte)]
    BY <2>1, CircuitSentIs
  <2> HIDE DEF more
  <2> QED BY <1>0, <2>2, ListIs
<1>3. /\ \A l \in 1 .. m : a[l] = CircuitSent(p, Circuits[l])
      /\ \A l \in 1 .. n : b[l] = CircuitSent(p, Circuits[l])
      /\ \A l \in 1 .. n - m : more[l] = CircuitSent(p, Circuits[m+l])
  BY DEF Shares
<1>4. n = m + 1 => more = <<CircuitSent(p, Circuits[m+1])>>
  <2>1. ASSUME n = m + 1 PROVE Len(more) = 1 /\ more[1] = CircuitSent(p, Circuits[m+1])
    <3> HIDE DEF more
    <3>1. n - m = 1
      BY <1>0, <2>1
    <3> QED BY <1>2, <1>3, <3>1
  <2> HIDE DEF more
  <2> QED BY <1>2, <2>1
<1> HIDE DEF more, a, b
<1> DEFINE g == a \o more
<1>5. g \in Seq(Seq(Byte)) /\ Joins(a, more, g)
  BY <1>1, <1>2, ConcatAt
<1> HIDE DEF g
<1>6. Len(b) = Len(g)
  BY <1>0, <1>1, <1>2, <1>5 DEF Joins
<1>7. ASSUME NEW l \in 1 .. Len(b) PROVE b[l] = g[l]
  <2>1. CASE l <= m
    <3>1. l \in 1 .. m /\ l \in 1 .. n /\ l \in 1 .. Len(a)
      BY <1>0, <1>1, <2>1
    <3>2. g[l] = a[l]
      BY <1>5, <3>1 DEF Joins
    <3> QED BY <1>3, <3>1, <3>2
  <2>2. CASE ~ (l <= m)
    <3>1. l \in 1 .. n /\ l \in 1 .. Len(a) + Len(more) /\ ~ (l <= Len(a)) /\ m + (l - m) = l /\ l - m \in 1 .. n - m
      BY <1>0, <1>1, <1>2, <2>2
    <3>2. g[l] = more[l - m]
      BY <1>1, <1>5, <3>1 DEF Joins
    <3>3. more[l - m] = CircuitSent(p, Circuits[m + (l - m)])
      BY <1>3, <3>1
    <3> QED BY <1>3, <3>1, <3>2, <3>3
  <2> QED BY <2>1, <2>2
<1>8. b = g
  BY <1>1, <1>5, <1>6, <1>7, SeqEqual
<1>9. FlattenSeq(b) = FlattenSeq(a) \o r
  BY <1>1, <1>2, <1>8, FlattenConcat DEF g
<1>10. r \in Seq(Byte) /\ FlattenSeq(a) \in Seq(Byte)
  BY <1>1, <1>2, FlattenType
<1>11. Stream(p, n) = FirstSent \o FlattenSeq(b) /\ Stream(p, m) = FirstSent \o FlattenSeq(a)
  BY <1>0, StreamIs DEF a, b
<1>12. n = m + 1 => r = CircuitSent(p, Circuits[m+1])
  <2>1. ASSUME n = m + 1 PROVE r = CircuitSent(p, Circuits[m+1])
    <3>1. m + 1 \in 1 .. Len(Circuits)
      BY <1>0, <2>1
    <3>2. CircuitSent(p, Circuits[m+1]) \in Seq(Byte)
      BY <3>1, CircuitsAre, CircuitSentIs
    <3> QED BY <1>4, <2>1, <3>2, FlattenOne
  <2> QED BY <2>1
<1> HIDE DEF r
<1>13. Associate(FirstSent, FlattenSeq(a), r)
  <2>1. FirstSent \in Seq(Byte)
    BY FirstSentIs DEF FirstIs
  <2> QED BY <1>10, <2>1, ConcatThree
<1>14. Stream(p, n) = Stream(p, m) \o r
  BY <1>9, <1>11, <1>13 DEF Associate
<1> QED BY <1>10, <1>12, <1>14

LEMMA StreamsCompatible ==
    ASSUME NEW p \in Party, NEW m \in 0 .. Len(Circuits), NEW n \in 0 .. Len(Circuits)
    PROVE  Compatible(Stream(p, m), Stream(p, n))
<1>1. Stream(p, m) \in Seq(Byte) /\ Stream(p, n) \in Seq(Byte) /\ Len(Circuits) \in Nat
  BY StreamIs, CircuitsAre
<1>2. CASE m <= n
  <2>1. n \in m .. Len(Circuits)
    BY <1>1, <1>2
  <2>2. PICK r \in Seq(Byte) : Stream(p, n) = Stream(p, m) \o r
    BY <2>1, StreamGrows
  <2> QED BY <1>1, <2>2, BeginningCompatible
<1>3. CASE ~ (m <= n)
  <2>1. m \in n .. Len(Circuits)
    BY <1>1, <1>3
  <2>2. PICK r \in Seq(Byte) : Stream(p, m) = Stream(p, n) \o r
    BY <2>1, StreamGrows
  <2> QED BY <1>1, <2>2, BeginningCompatible
<1> QED BY <1>2, <1>3

-------------------------------------------------------------------------------
(***************************************************************************)
(* Transfers.                                                              *)
(***************************************************************************)

\* What waits for the sending thread.
Message == [data : Bytes, raise : BOOLEAN]
Data == [m \in Message |-> m.data]

LEMMA QueuedAre ==
    ASSUME NEW list \in Seq(Message)
    PROVE  AllQueued(list) = Flow(Data, list) /\ AllQueued(list) \in Seq(Byte) /\ Data \in [Message -> Seq(Byte)]
<1>1. Data \in [Message -> Seq(Byte)]
  BY BytesAre DEF Data, Message
<1>2. \A k \in DOMAIN list : list[k] \in Message
  OBVIOUS
<1>3. [k \in DOMAIN list |-> list[k].data] = Parts(Data, list)
  BY <1>2 DEF Data, Parts
<1>4. AllQueued(list) = Flow(Data, list)
  BY <1>3 DEF AllQueued, Flow
<1> QED BY <1>1, <1>4, FlowType

LEMMA QueuedNext ==
    ASSUME NEW list \in Seq(Message)
    PROVE  /\ \A m \in Message : AllQueued(Append(list, m)) = AllQueued(list) \o m.data
           /\ list # <<>> => AllQueued(list) = Head(list).data \o AllQueued(Tail(list))
<1>1. Data \in [Message -> Seq(Byte)] /\ AllQueued(list) = Flow(Data, list)
  BY QueuedAre
<1>2. ASSUME NEW m \in Message PROVE AllQueued(Append(list, m)) = AllQueued(list) \o m.data
  <2>1. <<m>> \in Seq(Message) /\ Append(list, m) \in Seq(Message) /\ Append(list, m) = list \o <<m>>
    BY AppendIsConcat
  <2>2. FlowsBoth(Data, list, <<m>>)
    BY <1>1, <2>1, FlowConcat
  <2>3. Flow(Data, <<m>>) = Data[m]
    BY <1>1, FlowOne
  <2>4. AllQueued(Append(list, m)) = Flow(Data, Append(list, m))
    BY <2>1, QueuedAre
  <2> QED BY <1>1, <2>1, <2>2, <2>3, <2>4 DEF FlowsBoth, Data
<1>3. ASSUME list # <<>> PROVE AllQueued(list) = Head(list).data \o AllQueued(Tail(list))
  <2>1. Head(list) \in Message /\ Tail(list) \in Seq(Message)
    BY <1>3
  <2>2. Flow(Data, list) = Data[Head(list)] \o Flow(Data, Tail(list))
    BY <1>1, <1>3, FlowHead
  <2>3. AllQueued(Tail(list)) = Flow(Data, Tail(list))
    BY <2>1, QueuedAre
  <2> QED BY <1>1, <2>1, <2>2, <2>3 DEF Data
<1> QED BY <1>2, <1>3

\* The jobs that use a task.
TaskJob == {"Send", "Receive"}
TaskCall(e) == IF e = "Send" THEN "sndtask" ELSE "rcvtask"

\* The job e is to be done, or is being done.
ToDo(p, e) == HeadWakes(p, e) \/ HasJob(p, 0, e)

\* What p is to send, but for what is on the way.
Sending(p) == AllQueued(outbox[p]) \o (Loaded(p) \o AllSent(calls[p]))

LEMMA PartsOfStream ==
    ASSUME TypeOK, NEW p \in Party
    PROVE  /\ AllQueued(outbox[p]) \in Seq(Byte) /\ AllSent(calls[p]) \in Seq(Byte)
           /\ AllReceived(calls[p]) \in Seq(Byte)
           /\ Loaded(p) \in Seq(Byte) /\ Awaited(p) \in Seq(Byte)
           /\ sndtask[p] \in Seq(Byte) /\ rcvtask[p] \in Seq(Byte) /\ wire[p] \in Seq(Byte)
           /\ Sending(p) \in Seq(Byte) /\ Expected(p) \in Seq(Byte) /\ Pending(p) \in Seq(Byte)
<1>1. /\ outbox[p] \in Seq(Message) /\ calls[p] \in Seq(Call)
      /\ sndtask[p] \in Seq(Byte) /\ rcvtask[p] \in Seq(Byte) /\ wire[p] \in Seq(Byte)
  BY BytesAre DEF TypeOK, Message
<1>2. AllQueued(outbox[p]) \in Seq(Byte)
  BY <1>1, QueuedAre
<1>3. AllSent(calls[p]) \in Seq(Byte) /\ AllReceived(calls[p]) \in Seq(Byte)
  <2>1. Moves(calls[p], AllSent(calls[p]), AllReceived(calls[p]))
    BY <1>1 DEF Moves
  <2> QED BY <2>1, MovesIs
<1>4. Loaded(p) \in Seq(Byte) /\ Awaited(p) \in Seq(Byte)
  BY <1>1 DEF Loaded, Awaited
<1>5. Loaded(p) \o AllSent(calls[p]) \in Seq(Byte) /\ Expected(p) \in Seq(Byte)
  BY <1>3, <1>4, ConcatAt DEF Expected
<1>6. Sending(p) \in Seq(Byte)
  BY <1>2, <1>5, ConcatAt DEF Sending
<1>7. Pending(p) = wire[p] \o Sending(p)
  BY DEF Pending, Sending
<1>8. Pending(p) \in Seq(Byte)
  BY <1>1, <1>6, <1>7, ConcatAt
<1> QED BY <1>1, <1>2, <1>3, <1>4, <1>5, <1>6, <1>8

\* A thread with a job is busy; none is where the main thread is to fill a task.
LEMMA ToDoBusy ==
    ASSUME TInv, NEW p \in Party, NEW e \in TaskJob
    PROVE  /\ HasJob(p, 0, e) => Busy(p, 0)
           /\ HeadWakes(p, e) => ~ Busy(p, 0)
<1>0. TypeOK /\ MainOK(p) /\ 0 \in Thread
  BY ThreadsAre DEF TInv, ThreadsOK
<1>1. HasJob(p, 0, e) => Busy(p, 0)
  BY DEF HasJob, Busy, TaskJob
<1>2. ASSUME HeadWakes(p, e) PROVE ~ Busy(p, 0)
  <2>1. calls[p] # <<>> /\ Head(calls[p]).op = "wake" /\ Head(calls[p]).job = e
    BY <1>2 DEF HeadWakes, IsWake
  <2>2. ThreadsFor(e) = 1
    BY DEF ThreadsFor, TaskJob
  <2>3. main[p] \in {"next", "wake", "block"} /\ woken[p] \in Nat
    BY <1>0 DEF TypeOK
  <2>4. CASE main[p] = "wake"
    <3>1. woken[p] < 1 /\ (Busy(p, 0) => 0 < woken[p])
      BY <1>0, <2>1, <2>2, <2>4 DEF MainOK
    <3> QED BY <2>3, <3>1
  <2>5. CASE main[p] # "wake"
    BY <1>0, <2>1, <2>3, <2>5 DEF MainOK, HeadIs
  <2> QED BY <2>4, <2>5
<1> QED BY <1>1, <1>2

LEMMA NoneToDo ==
    ASSUME TInv, NEW p \in Party, main[p] = "next",
           calls[p] = <<>> \/ Head(calls[p]).op \in {"sndtask", "rcvtask", "sndkey", "rcvkey", "online"}
    PROVE  Loaded(p) = <<>> /\ Awaited(p) = <<>> /\ \A e \in TaskJob : ~ ToDo(p, e)
<1>1. MainOK(p) /\ 0 \in Thread
  BY ThreadsAre DEF TInv, ThreadsOK
<1>2. ~ Busy(p, 0)
  BY <1>1 DEF MainOK, HeadIs
<1>3. ASSUME NEW e \in TaskJob PROVE ~ ToDo(p, e)
  <2>1. ~ HeadWakes(p, e)
    BY DEF HeadWakes, IsWake
  <2> QED BY <1>2, <2>1, ToDoBusy DEF ToDo
<1> QED BY <1>3 DEF Loaded, Awaited, ToDo, TaskJob

\* What follows in the list when a call is made.
LEMMA TaskFollows ==
    ASSUME TInv, NEW p \in Party, calls[p] # <<>>, calls'[p] = Tail(calls[p]), NEW e \in TaskJob
    PROVE  HeadWakes(p, e)' <=> Head(calls[p]).op = TaskCall(e)
<1>0. TypeOK /\ OrderOK(p)
  BY DEF TInv, ThreadsOK
<1> DEFINE c == calls[p]
           t == Tail(c)
<1>1. /\ Last(c).op \in {"wait", "rcvkey", "online"}
      /\ t # <<>> => MayFollow(Head(c), t[1]) /\ Head(t) = t[1]
      /\ t = <<>> => Last(c) = Head(c)
  BY <1>0, CallsAre
<1>2. HeadWakes(p, e)' <=> t # <<>> /\ IsWake(Head(t), e)
  BY DEF HeadWakes
<1> HIDE DEF t, c
<1>3. CASE t = <<>>
  <2>1. Head(c).op # TaskCall(e)
    BY <1>1, <1>3 DEF TaskCall
  <2> QED BY <1>2, <1>3, <2>1 DEF c
<1>4. CASE t # <<>>
  <2>1. Head(c).op = TaskCall(e) <=> IsWake(t[1], e)
    BY <1>1, <1>4 DEF MayFollow, TaskCall, TaskJob
  <2> QED BY <1>1, <1>2, <1>4, <2>1 DEF c
<1> QED BY <1>3, <1>4

\* Jobs of thread 0 in a step of its main thread.
LEMMA JobInMain ==
    ASSUME TInv, Next, NEW p \in Party, Main(p), NEW e \in TaskJob
    PROVE  /\ HasJob(p, 0, e) => HasJob(p, 0, e)'
           /\ ~ PutJob(p) => (HasJob(p, 0, e)' => HasJob(p, 0, e))
<1>0. TypeOK /\ 0 \in Thread /\ e \in Job
  BY ThreadsAre DEF TInv, TaskJob, Job
<1>1. worker'[p] = worker[p]
  BY <1>0, MainKeepsJobs, PutJobGives
<1> QED BY <1>0, <1>1, HasJobStep

\* A call other than a wake-up is made.
LEMMA ToDoReturn ==
    ASSUME TInv, Next, NEW p \in Party, Main(p), ~ PutJob(p),
           calls[p] # <<>>, Head(calls[p]).op # "wake", calls'[p] = Tail(calls[p]), NEW e \in TaskJob
    PROVE  IF Head(calls[p]).op = TaskCall(e) THEN ToDo(p, e)' ELSE ToDo(p, e)' <=> ToDo(p, e)
<1>1. ~ HeadWakes(p, e)
  BY DEF HeadWakes, IsWake
<1>2. HeadWakes(p, e)' <=> Head(calls[p]).op = TaskCall(e)
  BY TaskFollows
<1>3. HasJob(p, 0, e)' <=> HasJob(p, 0, e)
  BY JobInMain
<1> QED BY <1>1, <1>2, <1>3 DEF ToDo

\* The list and what is to be done stay as they are.
LEMMA ToDoSame ==
    ASSUME TInv, Next, NEW p \in Party, Main(p), ~ PutJob(p), calls'[p] = calls[p], NEW e \in TaskJob
    PROVE  ToDo(p, e)' <=> ToDo(p, e)
<1>1. HeadWakes(p, e)' <=> HeadWakes(p, e)
  BY DEF HeadWakes
<1> QED BY <1>1, JobInMain DEF ToDo

\* The wake-up becomes a job.
LEMMA ToDoPut ==
    ASSUME TInv, Next, NEW p \in Party, PutJob(p), NEW e \in TaskJob
    PROVE  ToDo(p, e)' <=> ToDo(p, e)
<1>0. /\ calls[p] # <<>> /\ Head(calls[p]).op = "wake" /\ woken[p] \in Nat /\ main[p] = "wake"
      /\ woken[p] < ThreadsFor(Head(calls[p]).job) /\ Head(calls[p]).job \in Job
      /\ Main(p) /\ 0 \in Thread /\ e \in Job /\ TypeOK
  BY PutJobGives, PutJobCalls, ThreadsAre DEF HeadIs, Main, TInv, TaskJob, Job
<1>1. CASE Head(calls[p]).job = e
  <2>1. ThreadsFor(e) = 1
    BY DEF ThreadsFor, TaskJob
  <2>2. woken[p] = 0
    BY <1>0, <1>1, <2>1
  <2>3. worker'[p][0] \in {"idle", "raise"} /\ workerEvt'[p][0] /\ job'[p][0] = e
    BY <1>1, <2>2, PutJobGives
  <2>4. ToDo(p, e)' /\ ToDo(p, e)
    BY <1>0, <1>1, <2>3 DEF ToDo, HasJob, HeadWakes, IsWake
  <2> QED BY <2>4
<1>2. CASE Head(calls[p]).job # e
  <2>1. ~ HeadWakes(p, e)
    BY <1>2 DEF HeadWakes, IsWake
  <2>2. ~ HeadWakes(p, e)'
    <3>1. CASE calls'[p] = calls[p]
      BY <1>2, <3>1 DEF HeadWakes, IsWake
    <3>2. CASE calls'[p] = Tail(calls[p])
      <4>1. Head(calls[p]).op # TaskCall(e)
        BY <1>0 DEF TaskCall
      <4> QED BY <1>0, <3>2, <4>1, TaskFollows
    <3> QED BY <3>1, <3>2, PutJobCalls
  <2>3. HasJob(p, 0, e)' <=> HasJob(p, 0, e)
    <3>1. HasJob(p, 0, e)' => HasJob(p, 0, e)
      BY <1>0, <1>2, HasJobStep
    <3> QED BY <1>0, <3>1, JobInMain
  <2> QED BY <2>1, <2>2, <2>3 DEF ToDo
<1> QED BY <1>1, <1>2

\* Nothing in front.
LEMMA EmptyFirst ==
    ASSUME NEW s \in Seq(Byte)
    PROVE  <<>> \o s = s /\ s \o <<>> = s
BY ConcatEmptySeq

\* A step that changes no task, no list of messages and no list of calls.
LEMMA FlowsKept ==
    ASSUME NEW p \in Party, AllSent(calls'[p]) = AllSent(calls[p]), AllReceived(calls'[p]) = AllReceived(calls[p]),
           sndtask'[p] = sndtask[p], rcvtask'[p] = rcvtask[p], outbox'[p] = outbox[p],
           \A e \in TaskJob : ToDo(p, e)' <=> ToDo(p, e)
    PROVE  Sending(p)' = Sending(p) /\ Expected(p)' = Expected(p)
<1>1. Loaded(p)' = Loaded(p) /\ Awaited(p)' = Awaited(p)
  BY DEF Loaded, Awaited, ToDo, TaskJob
<1> QED BY <1>1 DEF Sending, Expected

\* The main thread puts jobs, waits, or makes a call that moves nothing.
LEMMA MainKeepsFlows ==
    ASSUME TInv, Next, NEW p \in Party,
           WakeupWorkerThreads(p) \/ PutJob(p) \/ NoneWorking(p) \/ SomeWorking(p) \/ WaitEvent(p) \/ Online(p)
    PROVE  Sending(p)' = Sending(p) /\ Expected(p)' = Expected(p)
<1>0. TypeOK /\ Main(p) /\ calls[p] \in Seq(Call)
  BY DEF TInv, Main, TypeOK
<1>1. sndtask'[p] = sndtask[p] /\ rcvtask'[p] = rcvtask[p] /\ outbox'[p] = outbox[p]
  BY DEF WakeupWorkerThreads, PutJob, NoneWorking, SomeWorking, WaitEvent, Online
<1>2. CASE PutJob(p)
  <2>1. calls[p] # <<>> /\ Head(calls[p]).op = "wake" /\ (calls'[p] = Tail(calls[p]) \/ calls'[p] = calls[p])
    BY <1>2, PutJobCalls, PutJobGives DEF HeadIs
  <2>2. SentBy(Head(calls[p])) = <<>> /\ ReceivedBy(Head(calls[p])) = <<>>
    BY <2>1 DEF SentBy, ReceivedBy
  <2> DEFINE t == Tail(calls[p])
  <2>3. AllSent(calls[p]) = AllSent(t) /\ AllReceived(calls[p]) = AllReceived(t)
    <3>1. t \in Seq(Call)
      BY <1>0, <2>1
    <3>2. Moves(t, AllSent(t), AllReceived(t))
      BY <3>1 DEF Moves
    <3>3. AllSent(t) \in Seq(Byte) /\ AllReceived(t) \in Seq(Byte)
      BY <3>2, MovesIs
    <3>4. AllSent(calls[p]) = <<>> \o AllSent(t) /\ AllReceived(calls[p]) = <<>> \o AllReceived(t)
      BY <1>0, <2>1, <2>2, MovesTail
    <3> QED BY <3>3, <3>4, EmptyFirst
  <2>4. AllSent(calls'[p]) = AllSent(calls[p]) /\ AllReceived(calls'[p]) = AllReceived(calls[p])
    BY <2>1, <2>3
  <2>5. \A e \in TaskJob : ToDo(p, e)' <=> ToDo(p, e)
    BY <1>2, ToDoPut
  <2> QED BY <1>1, <2>4, <2>5, FlowsKept
<1>3. CASE WakeupWorkerThreads(p) \/ SomeWorking(p) \/ WaitEvent(p)
  <2>1. calls'[p] = calls[p]
    BY <1>0, <1>3 DEF WakeupWorkerThreads, SomeWorking, WaitEvent, ReadAgain, TypeOK
  <2>2. ~ PutJob(p)
    BY <1>3 DEF WakeupWorkerThreads, SomeWorking, WaitEvent, PutJob, Calls
  <2>3. \A e \in TaskJob : ToDo(p, e)' <=> ToDo(p, e)
    BY <1>0, <2>1, <2>2, ToDoSame
  <2> QED BY <1>1, <2>1, <2>3, FlowsKept
<1>4. CASE NoneWorking(p) \/ Online(p)
  <2>1. /\ calls[p] # <<>> /\ Head(calls[p]).op \in {"wait", "online"}
        /\ main[p] = "next" /\ Return(p)
    BY <1>4 DEF NoneWorking, Online, Calls
  <2>2. calls'[p] = Tail(calls[p]) /\ ~ PutJob(p)
    BY <1>0, <2>1 DEF Return, TypeOK, PutJob
  <2>3. SentBy(Head(calls[p])) = <<>> /\ ReceivedBy(Head(calls[p])) = <<>>
    BY <2>1 DEF SentBy, ReceivedBy
  <2> DEFINE t == Tail(calls[p])
  <2>4. AllSent(calls[p]) = AllSent(t) /\ AllReceived(calls[p]) = AllReceived(t)
    <3>1. t \in Seq(Call)
      BY <1>0, <2>1
    <3>2. Moves(t, AllSent(t), AllReceived(t))
      BY <3>1 DEF Moves
    <3>3. AllSent(t) \in Seq(Byte) /\ AllReceived(t) \in Seq(Byte)
      BY <3>2, MovesIs
    <3>4. AllSent(calls[p]) = <<>> \o AllSent(t) /\ AllReceived(calls[p]) = <<>> \o AllReceived(t)
      BY <1>0, <2>1, <2>3, MovesTail
    <3> QED BY <3>3, <3>4, EmptyFirst
  <2>5. ASSUME NEW e \in TaskJob PROVE ToDo(p, e)' <=> ToDo(p, e)
    <3>1. Head(calls[p]).op # TaskCall(e) /\ Head(calls[p]).op # "wake"
      BY <2>1 DEF TaskCall
    <3> QED BY <1>0, <2>1, <2>2, <3>1, ToDoReturn
  <2> QED BY <1>1, <2>2, <2>4, <2>5, FlowsKept
<1> QED BY <1>2, <1>3, <1>4

LEMMA GarbleKeepsFlows ==
    ASSUME TInv, Next, NEW p \in Party, Garble(p)
    PROVE  Sending(p)' = Sending(p) /\ Expected(p)' = Expected(p)
<1> DEFINE g == Head(calls[p])
           t == Tail(calls[p])
           a == IF g.gate < Len(g.need.ands) THEN EvaluateANDGate(g) ELSE SendRest(g)
           s == ToSend(g.sharing, g.need, g.sent)
<1>0. TypeOK /\ OrderOK(p) /\ Main(p) /\ calls[p] \in Seq(Call)
  BY DEF TInv, ThreadsOK, Main, TypeOK
<1>1. HeadIs(p, "garble") /\ main[p] = "next" /\ calls' = [calls EXCEPT ![p] = a \o t]
      /\ sndtask'[p] = sndtask[p] /\ rcvtask'[p] = rcvtask[p] /\ outbox'[p] = outbox[p]
  BY DEF Garble, Calls, HeadIs
<1>2. g \in Garbling /\ Rest(t) /\ calls[p] # <<>> /\ g.op = "garble"
  BY <1>0, <1>1, CallsGarble DEF HeadIs
<1>3. Moves(<<g>>, s, <<>>) /\ Moves(a, s, <<>>)
  BY <1>2, GarblingMoves
<1>4. Rest(a \o t)
  BY <1>2, RestGarble
<1>5. calls[p] = <<g>> \o t /\ t \in Seq(Call)
  BY <1>0, <1>2
<1>6. calls'[p] = a \o t
  BY <1>0, <1>1 DEF TypeOK
<1> HIDE DEF g, a, s, t
<1>7. Moves(t, AllSent(t), AllReceived(t))
  BY <1>5 DEF Moves
<1>8. Moves(<<g>> \o t, s \o AllSent(t), <<>> \o AllReceived(t)) /\ Moves(a \o t, s \o AllSent(t), <<>> \o AllReceived(t))
  BY <1>3, <1>7, MovesConcat
<1>9. AllSent(calls'[p]) = AllSent(calls[p]) /\ AllReceived(calls'[p]) = AllReceived(calls[p])
  BY <1>5, <1>6, <1>8 DEF Moves
<1>10. ASSUME NEW e \in TaskJob PROVE ToDo(p, e)' <=> ToDo(p, e)
  <2>1. ~ HeadWakes(p, e)
    BY <1>2 DEF HeadWakes, IsWake, g
  <2>2. ~ HeadWakes(p, e)'
    <3> DEFINE l == a \o t
    <3>1. l \in Seq(Call) /\ l # <<>> /\ l[1].op \in {"wait", "garble"}
      BY <1>4 DEF Rest, Chain
    <3> HIDE DEF l
    <3>2. Head(l).op # "wake"
      BY <3>1
    <3> QED BY <1>6, <3>2 DEF HeadWakes, IsWake, l
  <2>3. ~ PutJob(p)
    BY <1>1 DEF PutJob
  <2> QED BY <1>0, <2>1, <2>2, <2>3, JobInMain DEF ToDo
<1> QED BY <1>1, <1>9, <1>10, FlowsKept

\* What a task is filled with is what was to be sent or received next.
LEMMA TasksKeepFlows ==
    ASSUME TInv, Next, NEW p \in Party, SetSendTask(p) \/ SetReceiveTask(p)
    PROVE  Sending(p)' = Sending(p) /\ Expected(p)' = Expected(p)
<1> DEFINE c == Head(calls[p])
           t == Tail(calls[p])
<1>0. TypeOK /\ Main(p) /\ calls[p] \in Seq(Call)
  BY DEF TInv, Main, TypeOK
<1>1. /\ calls[p] # <<>> /\ c.op \in {"sndtask", "rcvtask"} /\ main[p] = "next" /\ Return(p) /\ outbox'[p] = outbox[p]
      /\ c.op = "sndtask" <=> SetSendTask(p)
  BY DEF SetSendTask, SetReceiveTask, Calls
<1>2. calls'[p] = t /\ ~ PutJob(p) /\ t \in Seq(Call) /\ c \in Call
  BY <1>0, <1>1 DEF Return, TypeOK, PutJob
<1>3. Loaded(p) = <<>> /\ Awaited(p) = <<>> /\ \A e \in TaskJob : ~ ToDo(p, e)
  BY <1>1, NoneToDo
<1>4. \A e \in TaskJob : IF c.op = TaskCall(e) THEN ToDo(p, e)' ELSE ToDo(p, e)' <=> ToDo(p, e)
  BY <1>0, <1>1, <1>2, ToDoReturn
<1>5. AllSent(calls[p]) = SentBy(c) \o AllSent(t) /\ AllReceived(calls[p]) = ReceivedBy(c) \o AllReceived(t)
  BY <1>0, <1>1, MovesTail
<1>6. AllSent(t) \in Seq(Byte) /\ AllReceived(t) \in Seq(Byte)
  <2>1. Moves(t, AllSent(t), AllReceived(t))
    BY <1>2 DEF Moves
  <2> QED BY <2>1, MovesIs
<1>7. CASE c.op = "sndtask"
  <2>1. sndtask'[p] = c.data /\ rcvtask'[p] = rcvtask[p] /\ c.data \in Seq(Byte)
    BY <1>0, <1>1, <1>2, <1>7, CallIs, BytesAre DEF SetSendTask, TypeOK
  <2>2. SentBy(c) = c.data /\ ReceivedBy(c) = <<>>
    BY <1>7 DEF SentBy, ReceivedBy
  <2>3. ToDo(p, "Send")' /\ ~ ToDo(p, "Receive")'
    BY <1>3, <1>4, <1>7 DEF TaskCall, TaskJob
  <2>4. Loaded(p)' = c.data /\ Awaited(p)' = <<>>
    BY <2>1, <2>3 DEF Loaded, Awaited, ToDo
  <2> HIDE DEF c, t
  <2>5. AllSent(calls[p]) = c.data \o AllSent(t) /\ AllReceived(calls[p]) = AllReceived(t)
    BY <1>5, <1>6, <2>2, EmptyFirst
  <2>6. c.data \o AllSent(t) \in Seq(Byte)
    BY <1>6, <2>1
  <2>7. <<>> \o (c.data \o AllSent(t)) = c.data \o AllSent(t)
    BY <2>6, EmptyFirst
  <2>8. Sending(p)' = Sending(p)
    BY <1>1, <1>2, <1>3, <2>4, <2>5, <2>7 DEF Sending
  <2>9. Expected(p)' = Expected(p)
    BY <1>2, <1>3, <2>4, <2>5 DEF Expected
  <2> QED BY <2>8, <2>9
<1>8. CASE c.op = "rcvtask"
  <2>0. SetReceiveTask(p)
    BY <1>1, <1>8
  <2>1. rcvtask'[p] = c.data /\ sndtask'[p] = sndtask[p] /\ c.data \in Seq(Byte)
    BY <1>0, <1>1, <1>2, <1>8, <2>0, CallIs, BytesAre DEF SetReceiveTask, TypeOK
  <2>2. ReceivedBy(c) = c.data /\ SentBy(c) = <<>>
    BY <1>8 DEF SentBy, ReceivedBy
  <2>3. ToDo(p, "Receive")' /\ ~ ToDo(p, "Send")'
    BY <1>3, <1>4, <1>8 DEF TaskCall, TaskJob
  <2>4. Awaited(p)' = c.data /\ Loaded(p)' = <<>>
    BY <2>1, <2>3 DEF Loaded, Awaited, ToDo
  <2> HIDE DEF c, t
  <2>5. AllReceived(calls[p]) = c.data \o AllReceived(t) /\ AllSent(calls[p]) = AllSent(t)
    BY <1>5, <1>6, <2>2, EmptyFirst
  <2>6. c.data \o AllReceived(t) \in Seq(Byte)
    BY <1>6, <2>1
  <2>7. <<>> \o (c.data \o AllReceived(t)) = c.data \o AllReceived(t)
    BY <2>6, EmptyFirst
  <2>8. Sending(p)' = Sending(p)
    BY <1>1, <1>2, <1>3, <2>4, <2>5 DEF Sending
  <2>9. Expected(p)' = Expected(p)
    BY <1>2, <1>3, <2>4, <2>5, <2>7 DEF Expected
  <2> QED BY <2>8, <2>9
<1> QED BY <1>1, <1>7, <1>8

\* The key exchange.
LEMMA KeysMove ==
    ASSUME TInv, Next, NEW p \in Party, SendKey(p) \/ ReceiveKey(p)
    PROVE  /\ Sending(p)' = Sending(p)
           /\ Expected(p) = IF ReceiveKey(p) THEN Key \o Expected(p)' ELSE Expected(p)'
           /\ Expected(p)' \in Seq(Byte)
<1> DEFINE c == Head(calls[p])
           t == Tail(calls[p])
<1>0. TypeOK /\ Main(p) /\ calls[p] \in Seq(Call) /\ outbox[p] \in Seq(Message)
  BY DEF TInv, Main, TypeOK, Message
<1>1. /\ calls[p] # <<>> /\ c.op \in {"sndkey", "rcvkey"} /\ main[p] = "next" /\ Return(p)
      /\ sndtask'[p] = sndtask[p] /\ rcvtask'[p] = rcvtask[p]
      /\ c.op = "rcvkey" <=> ReceiveKey(p)
  BY DEF SendKey, ReceiveKey, Calls
<1>2. calls'[p] = t /\ ~ PutJob(p) /\ t \in Seq(Call) /\ c \in Call
  BY <1>0, <1>1 DEF Return, TypeOK, PutJob
<1>3. Loaded(p) = <<>> /\ Awaited(p) = <<>> /\ \A e \in TaskJob : ~ ToDo(p, e)
  BY <1>1, NoneToDo
<1>4. \A e \in TaskJob : ~ ToDo(p, e)'
  <2>1. ASSUME NEW e \in TaskJob PROVE ~ ToDo(p, e)'
    <3>1. c.op # TaskCall(e) /\ c.op # "wake"
      BY <1>1 DEF TaskCall
    <3> QED BY <1>0, <1>1, <1>2, <1>3, <3>1, ToDoReturn
  <2> QED BY <2>1
<1>5. Loaded(p)' = <<>> /\ Awaited(p)' = <<>>
  BY <1>4 DEF Loaded, Awaited, ToDo, TaskJob
<1>6. AllSent(calls[p]) = SentBy(c) \o AllSent(t) /\ AllReceived(calls[p]) = ReceivedBy(c) \o AllReceived(t)
  BY <1>0, <1>1, MovesTail
<1>7. AllSent(t) \in Seq(Byte) /\ AllReceived(t) \in Seq(Byte)
  <2>1. Moves(t, AllSent(t), AllReceived(t))
    BY <1>2 DEF Moves
  <2> QED BY <2>1, MovesIs
<1>8. Expected(p)' = AllReceived(t)
  <2> HIDE DEF t
  <2>1. <<>> \o AllReceived(t) = AllReceived(t)
    BY <1>7, EmptyFirst
  <2> QED BY <1>2, <1>5, <2>1 DEF Expected
<1>9. Key \in Seq(Byte)
  BY KeyIs, BytesAre
<1>10. CASE c.op = "rcvkey"
  <2>1. ReceivedBy(c) = Key /\ SentBy(c) = <<>> /\ outbox'[p] = outbox[p]
    BY <1>1, <1>10 DEF SentBy, ReceivedBy, ReceiveKey
  <2> HIDE DEF c, t
  <2>2. AllSent(calls[p]) = AllSent(t)
    BY <1>6, <1>7, <2>1, EmptyFirst
  <2>3. Sending(p)' = Sending(p)
    BY <1>2, <1>3, <1>5, <2>1, <2>2 DEF Sending
  <2>4. Key \o AllReceived(t) \in Seq(Byte)
    BY <1>7, <1>9
  <2>5. Expected(p) = Key \o AllReceived(t)
    <3>1. <<>> \o (Key \o AllReceived(t)) = Key \o AllReceived(t)
      BY <2>4, EmptyFirst
    <3> QED BY <1>3, <1>6, <2>1, <3>1 DEF Expected
  <2> QED BY <1>1, <1>7, <1>8, <1>10, <2>3, <2>5 DEF c
<1>11. CASE c.op = "sndkey"
  <2> DEFINE m == [data |-> Key, raise |-> FALSE]
             q == AllQueued(outbox[p])
  <2>0. SendKey(p)
    BY <1>1, <1>11
  <2>1. ReceivedBy(c) = <<>> /\ SentBy(c) = Key
    BY <1>11 DEF SentBy, ReceivedBy
  <2>2. m \in Message /\ m.data = Key
    BY KeyIs DEF Message
  <2>3. outbox'[p] = Append(outbox[p], m)
    BY <1>0, <2>0 DEF SendKey, TypeOK, Key
  <2> HIDE DEF c, t, m
  <2>4. AllQueued(outbox'[p]) = q \o Key /\ q \in Seq(Byte)
    BY <1>0, <2>2, <2>3, QueuedNext, QueuedAre
  <2> HIDE DEF q
  <2>5. Associate(q, Key, AllSent(t))
    BY <1>7, <1>9, <2>4, ConcatThree
  <2>6. <<>> \o AllSent(t) = AllSent(t) /\ <<>> \o (Key \o AllSent(t)) = Key \o AllSent(t)
    <3>1. Key \o AllSent(t) \in Seq(Byte)
      BY <1>7, <1>9
    <3> QED BY <1>7, <3>1, EmptyFirst
  <2>7. Sending(p)' = (q \o Key) \o AllSent(t)
    BY <1>2, <1>5, <2>4, <2>6 DEF Sending
  <2>8. Sending(p) = q \o (Key \o AllSent(t))
    BY <1>3, <1>6, <2>1, <2>6 DEF Sending, q
  <2>9. Expected(p) = AllReceived(t)
    <3>1. <<>> \o AllReceived(t) = AllReceived(t)
      BY <1>7, EmptyFirst
    <3> QED BY <1>3, <1>6, <2>1, <3>1 DEF Expected
  <2> QED BY <1>1, <1>7, <1>8, <1>11, <2>5, <2>7, <2>8, <2>9 DEF Associate, c
<1> QED BY <1>1, <1>10, <1>11

\* A worker's step takes a job from what is to be done only when it is through.
LEMMA ToDoElsewhere ==
    ASSUME TInv, Next, NEW p \in Party, ~ Main(p), NEW e \in TaskJob, worker[p][0] = e => worker'[p][0] = e
    PROVE  ToDo(p, e)' <=> ToDo(p, e)
<1>0. TypeOK /\ 0 \in Thread /\ e \in Job /\ ~ PutJob(p)
  BY ThreadsAre DEF TInv, TaskJob, Job, Main
<1>1. HasJob(p, 0, e)' <=> HasJob(p, 0, e)
  BY <1>0, HasJobStep
<1>2. HeadWakes(p, e)' <=> HeadWakes(p, e)
  BY <1>0, MainOnly DEF HeadWakes
<1> QED BY <1>1, <1>2 DEF ToDo

\* A party no thread of which takes a step.
LEMMA OthersFlows ==
    ASSUME TypeOK, NEW p \in Party, NEW q \in Party, q # p,
           \/ Main(p) \/ Transmit(p) \/ \E i \in Thread : Worker(p, i)
    PROVE  Sending(q)' = Sending(q) /\ Expected(q)' = Expected(q) /\ circuit'[q] = circuit[q]
<1>1. SameThreads(q)
  BY OthersThreads
<1>2. sndtask'[q] = sndtask[q] /\ rcvtask'[q] = rcvtask[q]
  <2>1. CASE Main(p)
    BY <2>1 DEF Main, PrepareSharings, Garble, WakeupWorkerThreads, PutJob, NoneWorking, SomeWorking,
         WaitEvent, SetSendTask, SetReceiveTask, SendKey, ReceiveKey, Online, TypeOK
  <2>2. CASE Transmit(p)
    BY <2>2 DEF Transmit
  <2>3. CASE \E i \in Thread : Worker(p, i)
    BY <2>3 DEF Worker, TakeJob, IKNPDone, SendData, SendDone, ReceiveData, Notify, RaiseEvent
  <2> QED BY <2>1, <2>2, <2>3
<1>3. \A e \in TaskJob : ToDo(q, e)' <=> ToDo(q, e)
  BY <1>1 DEF SameThreads, ToDo, HasJob, HeadWakes
<1>4. AllSent(calls'[q]) = AllSent(calls[q]) /\ AllReceived(calls'[q]) = AllReceived(calls[q])
  BY <1>1 DEF SameThreads
<1> QED BY <1>1, <1>2, <1>3, <1>4, FlowsKept DEF SameThreads

\* The steps of the workers that transfer nothing.
LEMMA WorkersKeepFlows ==
    ASSUME TInv, Next, NEW p \in Party, ~ Main(p),
           sndtask' = sndtask, rcvtask' = rcvtask, outbox'[p] = outbox[p],
           worker[p][0] \in TaskJob => worker'[p][0] = worker[p][0]
    PROVE  Sending(p)' = Sending(p) /\ Expected(p)' = Expected(p)
<1>1. calls'[p] = calls[p]
  BY MainOnly DEF TInv
<1>2. \A e \in TaskJob : ToDo(p, e)' <=> ToDo(p, e)
  BY ToDoElsewhere
<1> QED BY <1>1, <1>2, FlowsKept

\* The send job hands the buffer to the channel.
LEMMA SendFlows ==
    ASSUME TInv, Next, NEW p \in Party, ~ Main(p), NEW i \in Thread, SendData(p, i)
    PROVE  Sending(p)' = Sending(p) /\ Expected(p)' = Expected(p)
<1> DEFINE m == [data |-> sndtask[p], raise |-> TRUE]
           q == AllQueued(outbox[p])
           s == AllSent(calls[p])
<1>0. TypeOK /\ ThreadsOK(p) /\ outbox[p] \in Seq(Message) /\ m \in Message /\ m.data = sndtask[p] /\ 0 \in Thread
  BY ThreadsAre DEF TInv, TypeOK, Message
<1>1. worker[p][i] = "Send" /\ worker'[p][i] = "sending" /\ outbox'[p] = Append(outbox[p], m)
  BY <1>0 DEF SendData, At, Go, TypeOK
<1>2. i = 0
  BY <1>0, <1>1 DEF ThreadsOK, JobsOK
<1>3. calls'[p] = calls[p] /\ sndtask'[p] = sndtask[p] /\ rcvtask'[p] = rcvtask[p]
  BY DEF SendData
<1>4. HasJob(p, 0, "Send") /\ ~ HasJob(p, 0, "Send")' /\ ~ HeadWakes(p, "Send")
  <2>1. HasJob(p, 0, "Send") /\ ~ HasJob(p, 0, "Send")'
    BY <1>1, <1>2 DEF HasJob
  <2> QED BY <2>1, ToDoBusy DEF TaskJob
<1>5. ~ HeadWakes(p, "Send")'
  BY <1>3, <1>4 DEF HeadWakes
<1>6. Loaded(p) = sndtask[p] /\ Loaded(p)' = <<>>
  BY <1>4, <1>5 DEF Loaded
<1>7. Awaited(p)' = Awaited(p)
  <2>1. ToDo(p, "Receive")' <=> ToDo(p, "Receive")
    BY <1>1, <1>2, ToDoElsewhere DEF TaskJob
  <2> QED BY <1>3, <2>1 DEF Awaited, ToDo
<1>8. q \in Seq(Byte) /\ s \in Seq(Byte) /\ sndtask[p] \in Seq(Byte)
  BY <1>0, PartsOfStream
<1> HIDE DEF m, q, s
<1>9. AllQueued(outbox'[p]) = q \o sndtask[p]
  BY <1>0, <1>1, QueuedNext DEF q
<1>10. Sending(p)' = (q \o sndtask[p]) \o s
  BY <1>3, <1>6, <1>8, <1>9, EmptyFirst DEF Sending, s
<1>11. Sending(p) = q \o (sndtask[p] \o s)
  BY <1>6 DEF Sending, q, s
<1>12. Associate(q, sndtask[p], s)
  BY <1>8, ConcatThree
<1> QED BY <1>3, <1>7, <1>10, <1>11, <1>12 DEF Associate, Expected

\* The receive job takes what was awaited.
LEMMA ReceiveFlows ==
    ASSUME TInv, Next, NEW p \in Party, ~ Main(p), NEW i \in Thread, ReceiveData(p, i)
    PROVE  /\ Sending(p)' = Sending(p)
           /\ Expected(p) = rcvtask[p] \o Expected(p)'
           /\ Expected(p)' \in Seq(Byte)
<1> DEFINE r == AllReceived(calls[p])
<1>0. TypeOK /\ ThreadsOK(p) /\ 0 \in Thread
  BY ThreadsAre DEF TInv
<1>1. worker[p][i] = "Receive" /\ worker'[p][i] = "notify" /\ outbox'[p] = outbox[p]
  BY <1>0 DEF ReceiveData, At, Go, TypeOK
<1>2. i = 0
  BY <1>0, <1>1 DEF ThreadsOK, JobsOK
<1>3. calls'[p] = calls[p] /\ sndtask'[p] = sndtask[p] /\ rcvtask'[p] = rcvtask[p]
  BY DEF ReceiveData
<1>4. HasJob(p, 0, "Receive") /\ ~ HasJob(p, 0, "Receive")' /\ ~ HeadWakes(p, "Receive")
  <2>1. HasJob(p, 0, "Receive") /\ ~ HasJob(p, 0, "Receive")'
    BY <1>1, <1>2 DEF HasJob
  <2> QED BY <2>1, ToDoBusy DEF TaskJob
<1>5. ~ HeadWakes(p, "Receive")'
  BY <1>3, <1>4 DEF HeadWakes
<1>6. Awaited(p) = rcvtask[p] /\ Awaited(p)' = <<>>
  BY <1>4, <1>5 DEF Awaited
<1>7. Loaded(p)' = Loaded(p)
  <2>1. ToDo(p, "Send")' <=> ToDo(p, "Send")
    BY <1>1, <1>2, ToDoElsewhere DEF TaskJob
  <2> QED BY <1>3, <2>1 DEF Loaded, ToDo
<1>8. r \in Seq(Byte)
  BY <1>0, PartsOfStream
<1>9. Sending(p)' = Sending(p)
  BY <1>1, <1>3, <1>7 DEF Sending
<1> HIDE DEF r
<1>10. Expected(p)' = r
  <2>1. Expected(p)' = <<>> \o r
    BY <1>3, <1>6 DEF Expected, r
  <2> QED BY <1>8, <2>1, EmptyFirst
<1>11. Expected(p) = rcvtask[p] \o r
  BY <1>6 DEF Expected, r
<1> QED BY <1>8, <1>9, <1>10, <1>11

\* The channel transmits a message.
LEMMA TransmitFlows ==
    ASSUME TInv, Next, NEW p \in Party, ~ Main(p), Transmit(p)
    PROVE  Pending(p)' = Pending(p) /\ Expected(p)' = Expected(p)
<1> DEFINE x == Head(outbox[p]).data
           q == AllQueued(Tail(outbox[p]))
           s == Loaded(p) \o AllSent(calls[p])
           w == wire[p]
<1>0. TypeOK /\ outbox[p] \in Seq(Message) /\ outbox[p] # <<>>
  BY DEF TInv, TypeOK, Message, Transmit
<1>1. /\ calls'[p] = calls[p] /\ sndtask'[p] = sndtask[p] /\ rcvtask'[p] = rcvtask[p]
      /\ outbox'[p] = Tail(outbox[p]) /\ wire'[p] = w \o x /\ worker'[p] = worker[p]
  BY <1>0 DEF Transmit, TypeOK
<1>2. \A e \in TaskJob : ToDo(p, e)' <=> ToDo(p, e)
  BY <1>1, ToDoElsewhere
<1>3. Loaded(p)' = Loaded(p) /\ Awaited(p)' = Awaited(p)
  BY <1>1, <1>2 DEF Loaded, Awaited, ToDo, TaskJob
<1>4. /\ w \in Seq(Byte) /\ Loaded(p) \in Seq(Byte) /\ AllSent(calls[p]) \in Seq(Byte)
  BY <1>0, PartsOfStream
<1>5. s \in Seq(Byte)
  BY <1>4, ConcatAt
<1>6. x \in Seq(Byte) /\ q \in Seq(Byte)
  <2>1. Head(outbox[p]) \in Message /\ Tail(outbox[p]) \in Seq(Message)
    BY <1>0
  <2>2. x \in Seq(Byte)
    BY <2>1, BytesAre DEF Message
  <2> QED BY <2>1, <2>2, QueuedAre
<1>7. AllQueued(outbox[p]) = x \o q
  BY <1>0, QueuedNext
<1>8. Expected(p)' = Expected(p)
  BY <1>1, <1>3 DEF Expected
<1>9. Pending(p)' = (w \o x) \o (q \o s)
  BY <1>1, <1>3 DEF Pending
<1>10. Pending(p) = w \o ((x \o q) \o s)
  BY <1>7 DEF Pending
<1> HIDE DEF x, q, s, w
<1>11. q \o s \in Seq(Byte)
  BY <1>5, <1>6, ConcatAt
<1>12. Associate(x, q, s) /\ Associate(w, x, q \o s)
  BY <1>4, <1>5, <1>6, <1>11, ConcatThree
<1> QED BY <1>8, <1>9, <1>10, <1>12 DEF Associate

\* With a circuit, a party is to send and to receive what is for it.
LEMMA PrepareFlows ==
    ASSUME TInv, Next, NEW p \in Party, PrepareSharings(p)
    PROVE  LET c == Circuits[circuit[p] + 1]
           IN  /\ Sending(p)' = Sending(p) \o CircuitSent(p, c)
               /\ Expected(p)' = Expected(p) \o CircuitSent(Peer(p), c)
               /\ circuit'[p] = circuit[p] + 1 /\ circuit[p] + 1 \in 1 .. Len(Circuits) /\ c \in Circuit
               /\ circuit'[Peer(p)] = circuit[Peer(p)] /\ wire' = wire
<1> DEFINE c == Circuits[circuit[p] + 1]
           q == AllQueued(outbox[p])
           s == CircuitSent(p, c)
           r == CircuitSent(Peer(p), c)
           l == ExecCircuit(p, c)
<1>0. TypeOK /\ Main(p) /\ ~ PutJob(p) /\ outbox[p] \in Seq(Message) /\ Peer(p) \in Party /\ Peer(p) # p
  BY PeerIs DEF TInv, TypeOK, Message, Main, PutJob, PrepareSharings, Returned
<1>1. main[p] = "next" /\ calls[p] = <<>> /\ circuit[p] < Len(Circuits) /\ circuit[p] \in 0 .. Len(Circuits)
  BY <1>0 DEF PrepareSharings, Returned, TypeOK
<1>2. circuit[p] + 1 \in 1 .. Len(Circuits) /\ c \in Circuit
  BY <1>1, CircuitsAre
<1>3. /\ calls'[p] = l /\ circuit'[p] = circuit[p] + 1 /\ circuit'[Peer(p)] = circuit[Peer(p)]
      /\ wire' = wire /\ outbox' = outbox /\ sndtask' = sndtask /\ rcvtask' = rcvtask
  BY <1>0 DEF PrepareSharings, TypeOK
<1>4. Loaded(p) = <<>> /\ Awaited(p) = <<>> /\ \A e \in TaskJob : ~ ToDo(p, e)
  BY <1>1, NoneToDo
<1>5. AllSent(calls[p]) = <<>> /\ AllReceived(calls[p]) = <<>>
  BY <1>1, CallsMove DEF Moves
<1>6. l \in Seq(Call) /\ AllSent(l) = s /\ AllReceived(l) = r /\ s \in Seq(Byte) /\ r \in Seq(Byte)
  BY <1>0, <1>2, ExecCircuitMoves, CircuitSentIs DEF Moves
<1>7. Head(l).op = "wake" /\ Head(l).job = "IKNPOTExt"
  <2>1. l[1] = WakeCall("IKNPOTExt") /\ l # <<>>
    BY <1>2, ExecCircuitWhole DEF Whole
  <2> HIDE DEF l
  <2>2. Head(l) = l[1]
    BY <1>6, <2>1
  <2> QED BY <2>1, <2>2 DEF WakeCall
<1>8. \A e \in TaskJob : ~ HeadWakes(p, e)'
  BY <1>3, <1>7 DEF HeadWakes, IsWake, TaskJob
<1>9. \A e \in TaskJob : ~ HasJob(p, 0, e)'
  BY <1>0, <1>4, JobInMain DEF ToDo
<1>10. Loaded(p)' = <<>> /\ Awaited(p)' = <<>>
  BY <1>8, <1>9 DEF Loaded, Awaited, TaskJob
<1>11. q \in Seq(Byte)
  BY <1>0, QueuedAre
<1> HIDE DEF c, l, s, r, q
<1>12. <<>> \o s = s /\ <<>> \o r = r /\ <<>> \o <<>> = <<>> /\ q \o <<>> = q
  BY <1>6, <1>11, EmptyFirst
<1>13. Sending(p)' = q \o s /\ Expected(p)' = r
  BY <1>3, <1>6, <1>10, <1>12 DEF Sending, Expected, q
<1>14. Sending(p) = q /\ Expected(p) = <<>>
  BY <1>4, <1>5, <1>12 DEF Sending, Expected, q
<1>15. Sending(p)' = Sending(p) \o s /\ Expected(p)' = Expected(p) \o r
  BY <1>12, <1>13, <1>14
<1> QED BY <1>2, <1>3, <1>15 DEF c, s, r

\* With nothing sent or received, nothing to show.
LEMMA StreamSame ==
    ASSUME NEW p \in Party, StreamOK(p), Pending(p)' = Pending(p), Expected(Peer(p))' = Expected(Peer(p)),
           circuit'[p] = circuit[p], circuit'[Peer(p)] = circuit[Peer(p)]
    PROVE  StreamOK(p)'
BY DEF StreamOK

LEMMA PendingIs ==
    ASSUME NEW p \in Party
    PROVE  Pending(p) = wire[p] \o Sending(p) /\ Pending(p)' = wire'[p] \o Sending(p)'
BY DEF Pending, Sending

\* What is expected next is what comes next.
LEMMA ComesNext ==
    ASSUME TypeOK, NEW p \in Party, StreamOK(p)
    PROVE  Compatible(Expected(Peer(p)), Pending(p))
<1> DEFINE a == Stream(p, circuit[Peer(p)])
           b == Stream(p, circuit[p])
<1>1. Peer(p) \in Party /\ circuit[p] \in 0 .. Len(Circuits) /\ circuit[Peer(p)] \in 0 .. Len(Circuits)
  BY PeerIs DEF TypeOK
<1>2. Expected(Peer(p)) \in Seq(Byte) /\ Pending(p) \in Seq(Byte)
  BY <1>1, PartsOfStream
<1>3. a \in Seq(Byte) /\ b \in Seq(Byte) /\ Compatible(a, b)
  BY <1>1, StreamIs, StreamsCompatible
<1>4. BeginAlike(a, Expected(Peer(p)), b, Pending(p))
  BY DEF StreamOK
<1> HIDE DEF a, b
<1> QED BY <1>2, <1>3, <1>4, AlikeAgree

\* If x \o e and w \o s go on alike and w is as long as x, it begins with x.
LEMMA FirstTaken ==
    ASSUME NEW X, NEW x \in Seq(X), NEW e \in Seq(X), NEW w \in Seq(X), NEW s \in Seq(X),
           Compatible(x \o e, w \o s), Len(w) >= Len(x)
    PROVE  /\ SubSeq(w, Len(x) + 1, Len(w)) \in Seq(X)
           /\ w = x \o SubSeq(w, Len(x) + 1, Len(w))
<1> DEFINE u == x \o e
           v == w \o s
           t == SubSeq(w, Len(x) + 1, Len(w))
           g == x \o t
<1>1. Joins(x, e, u) /\ Joins(w, s, v)
  BY ConcatAt
<1>2. t \in Seq(X) /\ Len(t) = Len(w) - Len(x) /\ \A k \in 1 .. Len(t) : t[k] = w[Len(x) + k]
  <2>1. Len(x) \in Nat /\ Len(w) \in Nat /\ Len(x) + 1 \in 1 .. Len(w) + 1
    OBVIOUS
  <2> QED BY <2>1
<1>3. Compatible(u, v)
  OBVIOUS
<1> HIDE DEF u, v, t
<1>4. g \in Seq(X) /\ Joins(x, t, g)
  BY <1>2, ConcatAt
<1> HIDE DEF g
<1>5. \A k \in 1 .. Len(x) : x[k] = w[k]
  BY <1>1, <1>3 DEF Joins, Compatible
<1>6. Len(g) = Len(w)
  BY <1>2, <1>4 DEF Joins
<1>7. ASSUME NEW k \in 1 .. Len(g) PROVE g[k] = w[k]
  <2>1. CASE k <= Len(x)
    <3>1. k \in 1 .. Len(x)
      BY <2>1
    <3> QED BY <1>4, <1>5, <3>1 DEF Joins
  <2>2. CASE ~ (k <= Len(x))
    <3>1. k - Len(x) \in 1 .. Len(t) /\ g[k] = t[k - Len(x)]
      BY <1>4, <2>2 DEF Joins
    <3>2. t[k - Len(x)] = w[Len(x) + (k - Len(x))]
      BY <1>2, <3>1
    <3>3. Len(x) + (k - Len(x)) = k
      OBVIOUS
    <3> QED BY <3>1, <3>2, <3>3
  <2> QED BY <2>1, <2>2
<1>8. g = w
  BY <1>4, <1>6, <1>7, SeqEqual
<1> QED BY <1>2, <1>8 DEF g, t

\* q takes x from the wire, which is what it expects.
LEMMA TakenStream ==
    ASSUME TypeOK, NEW p \in Party, StreamOK(p), NEW x \in Seq(Byte),
           Expected(Peer(p)) = x \o Expected(Peer(p))', Len(wire[p]) >= Len(x),
           wire'[p] = SubSeq(wire[p], Len(x) + 1, Len(wire[p])),
           Sending(p)' = Sending(p), circuit'[p] = circuit[p], circuit'[Peer(p)] = circuit[Peer(p)],
           Expected(Peer(p))' \in Seq(Byte)
    PROVE  StreamOK(p)'
<1> DEFINE a == Stream(p, circuit[Peer(p)])
           b == Stream(p, circuit[p])
           e == Expected(Peer(p))
           w == wire[p]
           s == Sending(p)
<1> PICK f \in Seq(Byte) : f = Expected(Peer(p))'
  OBVIOUS
<1> PICK t : t = SubSeq(w, Len(x) + 1, Len(w))
  OBVIOUS
<1>1. w \in Seq(Byte) /\ s \in Seq(Byte) /\ e = x \o f
  BY PartsOfStream
<1>2. Compatible(x \o f, w \o s)
  BY <1>1, ComesNext, PendingIs
<1>3. t \in Seq(Byte) /\ w = x \o t
  <2> HIDE DEF w, s
  <2> QED BY <1>1, <1>2, FirstTaken DEF w
<1>4. Pending(p) = x \o (t \o s)
  <2>1. Associate(x, t, s)
    BY <1>1, <1>3, ConcatThree
  <2> QED BY <1>3, <2>1, PendingIs DEF Associate
<1>5. Pending(p)' = t \o s
  BY PendingIs
<1>6. a \in Seq(Byte) /\ b \in Seq(Byte) /\ t \o s \in Seq(Byte)
  <2>1. circuit[p] \in 0 .. Len(Circuits) /\ circuit[Peer(p)] \in 0 .. Len(Circuits)
    BY PeerIs DEF TypeOK
  <2>2. a \in Seq(Byte) /\ b \in Seq(Byte)
    BY <2>1, StreamIs
  <2> HIDE DEF s
  <2>3. t \o s \in Seq(Byte)
    BY <1>1, <1>3, ConcatAt
  <2> QED BY <2>2, <2>3 DEF s
<1>7. BeginAlike(a, x \o f, b, x \o (t \o s))
  BY <1>1, <1>4 DEF StreamOK
<1>8. BeginAlike(a, f, b, t \o s)
  <2> HIDE DEF a, b, s
  <2> QED BY <1>6, <1>7, AlikeTake
<1> QED BY <1>5, <1>8 DEF StreamOK

\* The next circuit.
LEMMA PrepareStreams ==
    ASSUME TInv, Next, NEW p \in Party, PrepareSharings(p), StreamOK(p), StreamOK(Peer(p))
    PROVE  StreamOK(p)' /\ StreamOK(Peer(p))'
<1> DEFINE q == Peer(p)
           m == circuit[p]
           c == Circuits[m + 1]
           s == CircuitSent(p, c)
           r == CircuitSent(q, c)
           a == Stream(p, circuit[q])
           b == Stream(p, m)
           u == Stream(q, m)
           v == Stream(q, circuit[q])
<1>0. /\ TypeOK /\ q \in Party /\ q # p /\ Peer(q) = p /\ Main(p)
      /\ m \in 0 .. Len(Circuits) /\ circuit[q] \in 0 .. Len(Circuits)
  BY PeerIs DEF TInv, TypeOK, Main
<1>1. /\ Sending(p)' = Sending(p) \o s /\ Expected(p)' = Expected(p) \o r
      /\ circuit'[p] = m + 1 /\ m + 1 \in 1 .. Len(Circuits) /\ c \in Circuit
      /\ circuit'[q] = circuit[q] /\ wire' = wire
  BY PrepareFlows
<1>2. Sending(q)' = Sending(q) /\ Expected(q)' = Expected(q)
  BY <1>0, OthersFlows
<1>3. m + 1 \in m .. Len(Circuits) /\ m + 1 \in 0 .. Len(Circuits)
  BY <1>0, <1>1
<1>4. s \in Seq(Byte) /\ r \in Seq(Byte)
  BY <1>0, <1>1, CircuitSentIs
<1>5. Stream(p, m + 1) = b \o s
  BY <1>0, <1>3, StreamGrows
<1>6. Stream(q, m + 1) = u \o r
  BY <1>0, <1>3, StreamGrows
<1>7. a \in Seq(Byte) /\ b \in Seq(Byte) /\ u \in Seq(Byte) /\ v \in Seq(Byte)
  BY <1>0, StreamIs
<1>8. /\ Expected(p) \in Seq(Byte) /\ Expected(q) \in Seq(Byte) /\ Pending(p) \in Seq(Byte) /\ Pending(q) \in Seq(Byte)
      /\ Sending(p) \in Seq(Byte) /\ wire[p] \in Seq(Byte)
  BY <1>0, PartsOfStream
<1>9. BeginAlike(a, Expected(q), b, Pending(p))
  BY DEF StreamOK
<1>10. BeginAlike(u, Expected(p), v, Pending(q))
  <2> HIDE DEF q
  <2> QED BY <1>0 DEF StreamOK, q
<1>11. Pending(p)' = Pending(p) \o s
  <2>1. Pending(p)' = wire[p] \o (Sending(p) \o s)
    BY <1>1, PendingIs
  <2>2. Associate(wire[p], Sending(p), s)
    BY <1>4, <1>8, ConcatThree
  <2> QED BY <2>1, <2>2, PendingIs DEF Associate
<1>12. Pending(q)' = Pending(q)
  BY <1>0, <1>1, <1>2, PendingIs
<1>13. StreamOK(p)'
  <2>1. BeginAlike(a, Expected(q), b \o s, Pending(p) \o s)
    <3> HIDE DEF a, b, s
    <3> QED BY <1>4, <1>7, <1>8, <1>9, AlikeMore
  <2> QED BY <1>1, <1>2, <1>5, <1>11, <2>1 DEF StreamOK
<1>14. StreamOK(q)'
  <2>1. BeginAlike(u \o r, Expected(p) \o r, v, Pending(q))
    <3> HIDE DEF u, v, r
    <3> QED BY <1>4, <1>7, <1>8, <1>10, AlikeMore
  <2>2. BeginAlike(Stream(q, circuit'[p]), Expected(p)', Stream(q, circuit'[q]), Pending(q)')
    BY <1>1, <1>6, <1>12, <2>1
  <2> HIDE DEF q
  <2> QED BY <1>0, <2>2 DEF StreamOK
<1> QED BY <1>13, <1>14

\* A step of a main thread.
LEMMA MainStreams ==
    ASSUME TInv, Next, NEW p \in Party, Main(p), StreamOK(p), StreamOK(Peer(p))
    PROVE  StreamOK(p)' /\ StreamOK(Peer(p))'
<1> DEFINE q == Peer(p)
<1>0. TypeOK /\ q \in Party /\ q # p /\ Peer(q) = p
  BY PeerIs DEF TInv
<1>1. Sending(q)' = Sending(q) /\ Expected(q)' = Expected(q) /\ circuit'[q] = circuit[q]
  BY <1>0, OthersFlows
<1>2. CASE PrepareSharings(p)
  BY <1>2, PrepareStreams
<1>3. ~ PrepareSharings(p) => circuit' = circuit
  BY DEF Main, Garble, WakeupWorkerThreads, PutJob, NoneWorking, SomeWorking,
     WaitEvent, SetSendTask, SetReceiveTask, SendKey, ReceiveKey, Online
<1> HIDE DEF q
<1>4. ASSUME circuit' = circuit, wire' = wire, Sending(p)' = Sending(p), Expected(p)' = Expected(p)
      PROVE  StreamOK(p)' /\ StreamOK(q)'
  <2>1. Pending(p)' = Pending(p) /\ Pending(q)' = Pending(q)
    BY <1>0, <1>1, <1>4, PendingIs
  <2>2. StreamOK(p)'
    BY <1>1, <1>4, <2>1, StreamSame DEF q
  <2>3. StreamOK(q)'
    BY <1>0, <1>1, <1>4, <2>1, StreamSame DEF q
  <2> QED BY <2>2, <2>3
<1>5. CASE \/ WakeupWorkerThreads(p) \/ PutJob(p) \/ NoneWorking(p) \/ SomeWorking(p) \/ WaitEvent(p) \/ Online(p)
           \/ Garble(p) \/ SetSendTask(p) \/ SetReceiveTask(p)
  <2>1. circuit' = circuit /\ wire' = wire
    BY <1>5 DEF Garble, WakeupWorkerThreads, PutJob, NoneWorking, SomeWorking, WaitEvent,
       SetSendTask, SetReceiveTask, Online
  <2>2. Sending(p)' = Sending(p) /\ Expected(p)' = Expected(p)
    BY <1>5, MainKeepsFlows, GarbleKeepsFlows, TasksKeepFlows
  <2> QED BY <1>4, <2>1, <2>2 DEF q
<1>6. CASE SendKey(p)
  <2>1. circuit' = circuit /\ wire' = wire /\ ~ ReceiveKey(p)
    BY <1>6 DEF SendKey, ReceiveKey, Calls
  <2>2. Sending(p)' = Sending(p) /\ Expected(p)' = Expected(p)
    BY <1>6, <2>1, KeysMove
  <2> QED BY <1>4, <2>1, <2>2 DEF q
<1>7. CASE ReceiveKey(p)
  <2>1. circuit' = circuit /\ wire[q] # <<>> /\ wire'[q] = Tail(wire[q]) /\ wire'[p] = wire[p] /\ wire[q] \in Seq(Byte)
    BY <1>0, <1>7, BytesAre DEF ReceiveKey, TypeOK, q
  <2>2. Sending(p)' = Sending(p) /\ Expected(p) = Key \o Expected(p)' /\ Expected(p)' \in Seq(Byte)
    BY <1>7, KeysMove
  <2>3. StreamOK(p)'
    <3>1. Pending(p)' = Pending(p)
      BY <2>1, <2>2, PendingIs
    <3> QED BY <1>1, <2>1, <3>1, StreamSame DEF q
  <2>4. Key \in Seq(Byte) /\ Len(Key) = 1
    BY KeyIs, BytesAre DEF Key
  <2>5. Len(wire[q]) >= Len(Key) /\ wire'[q] = SubSeq(wire[q], Len(Key) + 1, Len(wire[q]))
    <3>1. Len(wire[q]) >= 1
      BY <2>1
    <3>2. Tail(wire[q]) = SubSeq(wire[q], 2, Len(wire[q]))
      BY <2>1
    <3> QED BY <2>1, <2>4, <3>1, <3>2
  <2>6. StreamOK(q)'
    <3> HIDE DEF Key
    <3> QED BY <1>0, <1>1, <2>1, <2>2, <2>4, <2>5, TakenStream DEF q
  <2> QED BY <2>3, <2>6 DEF q
<1> QED BY <1>2, <1>5, <1>6, <1>7 DEF Main

\* A step of worker threads in which nothing is transferred.
LEMMA QuietStreams ==
    ASSUME TInv, Next, \A p \in Party : ~ Main(p) /\ StreamOK(p),
           UNCHANGED <<sndtask, rcvtask, outbox, wire>>,
           \A p \in Party : worker[p][0] \in TaskJob => worker'[p][0] = worker[p][0]
    PROVE  \A p \in Party : StreamOK(p)'
<1>1. ASSUME NEW p \in Party
      PROVE  /\ Sending(p)' = Sending(p) /\ Expected(p)' = Expected(p) /\ circuit'[p] = circuit[p]
             /\ Pending(p)' = Pending(p)
  <2>1. Sending(p)' = Sending(p) /\ Expected(p)' = Expected(p)
    BY WorkersKeepFlows
  <2>2. circuit'[p] = circuit[p]
    BY MainOnly DEF TInv
  <2> QED BY <2>1, <2>2, PendingIs
<1>2. ASSUME NEW p \in Party PROVE StreamOK(p)'
  <2>1. Peer(p) \in Party
    BY PeerIs
  <2> QED BY <1>1, <2>1, StreamSame
<1> QED BY <1>2

\* A step of a worker or of the channel.
LEMMA WorkerStreams ==
    ASSUME TInv, Next, \A q \in Party : ~ Main(q) /\ StreamOK(q),
           NEW p \in Party, Transmit(p) \/ \E i \in Thread : Worker(p, i)
    PROVE  \A q \in Party : StreamOK(q)'
<1> DEFINE q == Peer(p)
<1>0. /\ TypeOK /\ q \in Party /\ q # p /\ Peer(q) = p /\ \A r \in Party : r = p \/ r = q
      /\ circuit'[p] = circuit[p] /\ circuit'[q] = circuit[q] /\ ~ Main(p) /\ StreamOK(p) /\ StreamOK(q)
  BY PeerIs, MainOnly DEF TInv
<1>1. Sending(q)' = Sending(q) /\ Expected(q)' = Expected(q)
  BY <1>0, OthersFlows
<1> SUFFICES StreamOK(p)' /\ StreamOK(q)'
  BY <1>0
<1>2. CASE Transmit(p)
  <2>1. Pending(p)' = Pending(p) /\ Expected(p)' = Expected(p)
    BY <1>0, <1>2, TransmitFlows
  <2>2. wire'[q] = wire[q]
    BY <1>0, <1>2 DEF Transmit, TypeOK
  <2>3. Pending(q)' = Pending(q)
    BY <1>0, <1>1, <2>2, PendingIs
  <2>4. StreamOK(p)'
    BY <1>0, <1>1, <2>1, StreamSame
  <2> HIDE DEF q
  <2>5. StreamOK(q)'
    BY <1>0, <2>1, <2>3, StreamSame
  <2> QED BY <2>4, <2>5
<1>3. ASSUME NEW i \in Thread, SendData(p, i) PROVE StreamOK(p)' /\ StreamOK(q)'
  <2>1. Sending(p)' = Sending(p) /\ Expected(p)' = Expected(p)
    BY <1>0, <1>3, SendFlows
  <2>2. wire' = wire
    BY <1>3 DEF SendData
  <2>3. Pending(p)' = Pending(p) /\ Pending(q)' = Pending(q)
    BY <1>0, <1>1, <2>1, <2>2, PendingIs
  <2>4. StreamOK(p)'
    BY <1>0, <1>1, <2>3, StreamSame
  <2> HIDE DEF q
  <2>5. StreamOK(q)'
    BY <1>0, <2>1, <2>3, StreamSame
  <2> QED BY <2>4, <2>5
<1>4. ASSUME NEW i \in Thread, ReceiveData(p, i) PROVE StreamOK(p)' /\ StreamOK(q)'
  <2>1. /\ Sending(p)' = Sending(p) /\ Expected(p) = rcvtask[p] \o Expected(p)'
        /\ Expected(p)' \in Seq(Byte)
    BY <1>0, <1>4, ReceiveFlows
  <2>2. /\ wire'[p] = wire[p] /\ Len(wire[q]) >= Len(rcvtask[p])
        /\ wire'[q] = SubSeq(wire[q], Len(rcvtask[p]) + 1, Len(wire[q]))
    BY <1>0, <1>4 DEF ReceiveData, TypeOK
  <2>3. rcvtask[p] \in Seq(Byte)
    BY <1>0, PartsOfStream
  <2>4. Pending(p)' = Pending(p)
    BY <2>1, <2>2, PendingIs
  <2>5. StreamOK(p)'
    BY <1>0, <1>1, <2>4, StreamSame
  <2> HIDE DEF q
  <2>6. StreamOK(q)'
    BY <1>0, <1>1, <2>1, <2>2, <2>3, TakenStream
  <2> QED BY <2>5, <2>6
<1>5. ASSUME NEW i \in Thread,
             TakeJob(p, i) \/ IKNPDone(p, i) \/ SendDone(p, i) \/ Notify(p, i) \/ RaiseEvent(p, i)
      PROVE  StreamOK(p)' /\ StreamOK(q)'
  <2>1. /\ UNCHANGED <<sndtask, rcvtask, outbox, wire>>
        /\ worker[p][i] \in {"idle", "IKNPOTExt", "sending", "notify", "raise"}
        /\ Worker(p, i)
    BY <1>5 DEF TakeJob, IKNPDone, SendDone, Notify, RaiseEvent, At, Worker
  <2>2. worker[p][0] \in TaskJob => worker'[p][0] = worker[p][0]
    BY <1>0, <2>1, ThreadsAre, WorkerStep DEF TaskJob
  <2>3. worker'[q] = worker[q]
    BY <1>0, <2>1, OthersThreads DEF SameThreads
  <2>4. \A r \in Party : worker[r][0] \in TaskJob => worker'[r][0] = worker[r][0]
    BY <1>0, <2>2, <2>3
  <2> QED BY <1>0, <2>1, <2>4, QuietStreams
<1> QED BY <1>2, <1>3, <1>4, <1>5 DEF Worker

LEMMA NextStreams ==
    ASSUME RInv, Next
    PROVE  \A p \in Party : StreamOK(p)'
<1>0. TInv /\ TypeOK /\ \A p \in Party : StreamOK(p)
  BY DEF RInv, TInv
<1>1. CASE \E p \in Party : Main(p)
  <2>1. PICK p \in Party : Main(p)
    BY <1>1
  <2>2. StreamOK(p)' /\ StreamOK(Peer(p))'
    BY <1>0, <2>1, PeerIs, MainStreams
  <2> QED BY <2>2, PeerIs
<1>2. CASE \A p \in Party : ~ Main(p)
  <2>1. ASSUME NEW p \in Party, Transmit(p) \/ \E i \in Thread : Worker(p, i)
        PROVE  \A q \in Party : StreamOK(q)'
    BY <1>0, <1>2, <2>1, WorkerStreams
  <2>2. ASSUME NEW p \in Party, BaseOTs(p) PROVE \A q \in Party : StreamOK(q)'
    <3>1. /\ UNCHANGED <<sndtask, rcvtask, outbox, wire>>
          /\ worker[p][Snd] = "NP" /\ worker[Peer(p)][Rcv] = "NP"
          /\ worker' = [worker EXCEPT ![p][Snd] = "notify", ![Peer(p)][Rcv] = "notify"]
      BY <2>2 DEF BaseOTs, At
    <3>2. /\ Peer(p) \in Party /\ Peer(p) # p /\ \A q \in Party : q = p \/ q = Peer(p)
          /\ 0 \in Thread /\ Snd = 0 /\ Rcv = 1
      BY PeerIs, ThreadsAre DEF Snd, Rcv
    <3>3. worker'[p] = [worker[p] EXCEPT ![Snd] = "notify"] /\ worker'[Peer(p)] = [worker[Peer(p)] EXCEPT ![Rcv] = "notify"]
      BY <1>0, <3>1, <3>2 DEF TypeOK
    <3>4. worker[p][0] = "NP" /\ worker'[Peer(p)][0] = worker[Peer(p)][0]
      BY <1>0, <3>1, <3>2, <3>3 DEF TypeOK
    <3>5. \A q \in Party : worker[q][0] \in TaskJob => worker'[q][0] = worker[q][0]
      BY <3>2, <3>4 DEF TaskJob
    <3> QED BY <1>0, <1>2, <3>1, <3>5, QuietStreams
  <2>3. ASSUME NEW p \in Party, IKNPOTs(p) PROVE \A q \in Party : StreamOK(q)'
    <3>1. UNCHANGED <<sndtask, rcvtask, outbox, wire>> /\ worker' = worker
      BY <2>3 DEF IKNPOTs
    <3> QED BY <1>0, <1>2, <3>1, QuietStreams
  <2>4. ASSUME NEW i \in Thread, PaillierMTs(i) PROVE \A q \in Party : StreamOK(q)'
    <3>1. /\ UNCHANGED <<sndtask, rcvtask, outbox, wire>>
          /\ \A q \in Party : worker[q][i] \in MTJob /\ worker'[q] = [worker[q] EXCEPT ![i] = "notify"]
      BY <2>4 DEF PaillierMTs, MTJob
    <3>2. ASSUME NEW q \in Party, worker[q][0] \in TaskJob PROVE worker'[q][0] = worker[q][0]
      <4>1. i # 0
        BY <3>1, <3>2 DEF TaskJob, MTJob
      <4>2. worker'[q] = [worker[q] EXCEPT ![i] = "notify"]
        BY <3>1
      <4> QED BY <1>0, <4>1, <4>2, ThreadsAre DEF TypeOK
    <3> QED BY <1>0, <1>2, <3>1, <3>2, QuietStreams
  <2> QED BY <1>2, <2>1, <2>2, <2>3, <2>4 DEF Next
<1> QED BY <1>1, <1>2

LEMMA InitStreams == ASSUME Init, NEW p \in Party PROVE StreamOK(p)
<1> DEFINE q == Peer(p)
<1>0. q \in Party /\ 0 \in 0 .. Len(Circuits)
  BY PeerIs, CircuitsAre
<1>1. Moves(ConnectAndBaseOTs, FirstSent, FirstSent)
  <2> DEFINE k == IF MTGenAlg = "MT_PAILLIER" THEN KeyExchange ELSE <<>>
  <2>1. Moves(k, FirstSent, FirstSent)
    BY CallsMove DEF FirstSent
  <2>2. Moves(Wake("NP") \o Wait, <<>>, <<>>)
    BY CallsMove, SilentFirst DEF Job
  <2>3. ConnectAndBaseOTs = (Wake("NP") \o Wait) \o k
    BY DEF ConnectAndBaseOTs
  <2> HIDE DEF k
  <2> QED BY <2>1, <2>2, <2>3, SilentFirst
<1>2. FirstSent \in Seq(Byte)
  BY FirstSentIs DEF FirstIs
<1>3. ASSUME NEW r \in Party
      PROVE  /\ calls[r] = ConnectAndBaseOTs /\ circuit[r] = 0 /\ outbox[r] = <<>> /\ wire[r] = <<>>
             /\ sndtask[r] = <<>> /\ rcvtask[r] = <<>>
  BY DEF Init
<1>4. AllQueued(<<>>) = <<>>
  <2>1. <<>> \in Seq(Message)
    OBVIOUS
  <2>2. AllQueued(<<>>) = Flow(Data, <<>>) /\ Data \in [Message -> Seq(Byte)]
    BY <2>1, QueuedAre
  <2>3. [raise |-> FALSE, data |-> <<>>] \in Message
    BY NoBytes DEF Message
  <2> QED BY <2>2, <2>3, FlowOne
<1>5. Pending(p) = FirstSent /\ Expected(q) = FirstSent
  <2>1. Loaded(p) = <<>> /\ Awaited(q) = <<>>
    BY <1>0, <1>3 DEF Loaded, Awaited
  <2>2. AllSent(calls[p]) = FirstSent /\ AllReceived(calls[q]) = FirstSent
    BY <1>0, <1>1, <1>3 DEF Moves
  <2>3. <<>> \o FirstSent = FirstSent
    BY <1>2, EmptyFirst
  <2>4. Expected(q) = FirstSent
    BY <2>1, <2>2, <2>3 DEF Expected
  <2>5. Pending(p) = <<>> \o (<<>> \o (<<>> \o FirstSent))
    BY <1>3, <1>4, <2>1, <2>2 DEF Pending
  <2> QED BY <2>3, <2>4, <2>5
<1>6. Stream(p, 0) = FirstSent
  <2>1. Shares(p, 0) = <<>>
    BY DEF Shares
  <2>2. Stream(p, 0) = FirstSent \o <<>>
    BY <1>0, <2>1, StreamIs, FlattenEmpty
  <2> QED BY <1>2, <2>2, EmptyFirst
<1>7. BeginAlike(FirstSent, FirstSent, FirstSent, FirstSent)
  <2>1. After(<<>>, FirstSent, FirstSent, FirstSent, FirstSent)
    BY <1>2, EmptyFirst DEF After
  <2>2. <<>> \in Seq(Byte)
    OBVIOUS
  <2> HIDE DEF q
  <2> QED BY <1>2, <2>1, <2>2, GotAlike
<1> QED BY <1>0, <1>3, <1>5, <1>6, <1>7 DEF StreamOK

\* What a party has sent, and is still to send, and what the other has received,
\* and is still to, are beginnings of one stream, however the data is cut and
\* however far ahead either is.
THEOREM StreamsInvariance == Spec => []RInv
<1>1. Init => RInv
  BY InitTypes, InitThreads, InitStreams DEF RInv, TInv
<1>2. RInv /\ [Next]_vars => RInv'
  <2>1. ASSUME RInv, Next PROVE RInv'
    <3>1. TInv'
      BY <2>1, NextThreads DEF RInv
    <3> QED BY <2>1, <3>1, NextStreams DEF RInv
  <2>2. ASSUME RInv, UNCHANGED vars PROVE RInv'
    <3>1. TInv'
      BY <2>2, NextThreads DEF RInv
    <3>2. ASSUME NEW p \in Party PROVE StreamOK(p)'
      <4>1. StreamOK(p)
        BY <2>2 DEF RInv
      <4>2. \A r \in Party : Sending(r)' = Sending(r) /\ Expected(r)' = Expected(r)
        BY <2>2 DEF vars, Sending, Expected, Loaded, Awaited, HeadWakes, HasJob
      <4>3. wire' = wire /\ circuit' = circuit /\ Peer(p) \in Party
        BY <2>2, PeerIs DEF vars
      <4>4. Pending(p)' = Pending(p)
        BY <4>2, <4>3, PendingIs
      <4> QED BY <4>1, <4>2, <4>3, <4>4, StreamSame
    <3> QED BY <3>1, <3>2 DEF RInv
  <2> QED BY <2>1, <2>2
<1> QED BY <1>1, <1>2, PTL DEF Spec

\* The bytes that have come for a receive job are the ones it is for, in every
\* reachable state.
THEOREM ReceivesItsDataHolds == Spec => []ReceivesItsData
<1>1. RInv => ReceivesItsData
  <2> SUFFICES ASSUME RInv, NEW p \in Party, NEW i \in Thread, At(p, i, "Receive"),
                      NEW k \in DOMAIN wire[Peer(p)] \cap DOMAIN rcvtask[p]
               PROVE  wire[Peer(p)][k] = rcvtask[p][k]
    BY DEF ReceivesItsData
  <2> DEFINE q == Peer(p)
             w == wire[q]
             d == rcvtask[p]
             r == AllReceived(calls[p])
             s == Sending(q)
  <2>0. TInv /\ TypeOK /\ ThreadsOK(p) /\ q \in Party /\ Peer(q) = p /\ StreamOK(q)
    BY PeerIs DEF RInv, TInv
  <2>1. HasJob(p, 0, "Receive")
    <3>1. i = 0
      BY <2>0 DEF ThreadsOK, JobsOK, At
    <3> QED BY <3>1 DEF HasJob, At
  <2>2. Expected(p) = d \o r
    BY <2>1 DEF Expected, Awaited
  <2>3. Pending(q) = w \o s
    BY <2>0, PendingIs
  <2>4. Compatible(d \o r, w \o s)
    <3>1. Compatible(Expected(Peer(q)), Pending(q))
      <4> HIDE DEF q
      <4> QED BY <2>0, ComesNext
    <3> QED BY <2>0, <2>2, <2>3, <3>1
  <2>5. d \in Seq(Byte) /\ r \in Seq(Byte) /\ w \in Seq(Byte) /\ s \in Seq(Byte)
    BY <2>0, PartsOfStream
  <2>6. k \in 1 .. Len(w) /\ k \in 1 .. Len(d)
    BY <2>5
  <2> HIDE DEF w, d, r, s
  <2>7. Joins(d, r, d \o r) /\ Joins(w, s, w \o s)
    BY <2>5, ConcatAt
  <2>8. w[k] = d[k]
    BY <2>4, <2>6, <2>7 DEF Joins, Compatible
  <2> QED BY <2>8 DEF w, d
<1> QED BY <1>1, StreamsInvariance, PTL
==============================================================================
