------------------------- MODULE DurablePaperProofs -------------------------
(***************************************************************************)
(* The order on record is consistent, only grows and is worked as one      *)
(* adapter without concurrency would, for any hosts, calls and volume.     *)
(*                                                                         *)
(* A mutation may decide on a status and a filled volume that are older    *)
(* than the events and the fills it has read, since each comes from a      *)
(* statement of its own.  What saves it is what is checked afterwards:     *)
(* _validate compares the new status with the events and the new volume    *)
(* with the fills, and the append compares both with the row.  A change    *)
(* that passes was decided on the present status and volume, because a     *)
(* fill adds to both sides of the comparison and no other call's fill can  *)
(* bear this call's mark.                                                  *)
(***************************************************************************)
EXTENDS DurablePaper, SequenceTheorems, Sums

-----------------------------------------------------------------------------
(* The inductive invariant *)

\* The statuses in which an operation of the adapter leaves an order.
Settled == {"accepted", "partial", "filled", "cancelled", "rejected", "expired"}

\* Status and filled volume agree; both come from the same statement.
Whole(o) == o.filled = Volume <=> o.status = "filled"

\* Every call has made at most one of the fills.
Distinct(o) ==
  \A i, j \in 1..Len(o.fills) : o.fills[i].by = o.fills[j].by => i = j

Good(o) ==
  /\ o \in Order
  /\ Consistent(o)
  /\ Whole(o)
  /\ o.status \in Settled
  /\ Distinct(o)

\* An order as submit makes it.
Fresh(o) ==
  /\ Good(o)
  /\ \/ o.status \in {"accepted", "rejected", "expired"} /\ o.filled = 0
     \/ o.status = "partial" /\ o.filled # 0
     \/ o.status = "filled"

\* The call may still make a fill that counts.
Unspent(c) ==
  \/ pc[c] = "idle"
  \/ /\ op[c].kind \in Mutations
     /\ pc[c] \in {"header", "events", "fills", "loaded", "persist"}

NotBy(o, c) == \A i \in 1..Len(o.fills) : o.fills[i].by # c

\* What a call has read so far is part of the record.
Reading(c) ==
  pc[c] \in {"events", "fills", "loaded"} =>
    /\ order # NoOrder
    /\ work[c] \in Order /\ Whole(work[c]) /\ work[c].status \in Settled
    /\ pc[c] \in {"fills", "loaded"} => IsPrefix(work[c].events, order.events)
    /\ pc[c] = "loaded" => IsPrefix(work[c].fills, order.fills)

\* What an operation has made of an order whose events it has seen up to k:
\* nothing, one more fill, or its end.
Unchanged(o, k) == Len(o.events) = k

OneMoreFill(o, k, c) ==
  /\ Len(o.events) = k + 1
  /\ o.events[k + 1].status = o.status
  /\ o.status \in {"partial", "filled"}
  /\ Len(o.fills) > 0
  /\ Last(o.fills).by = c
  /\ \A i \in 1..(Len(o.fills) - 1) :
       i \in 1..Len(order.fills) /\ o.fills[i] = order.fills[i]

TheEnd(o, k) ==
  /\ Len(o.events) > k
  /\ o.events[k + 1].status \in {"cancel_pending", "expired"}
  /\ o.status \in {"cancelled", "expired"}
  /\ IsPrefix(o.fills, order.fills)

\* What a call wants to write is sound on its own.
Writing(c) ==
  pc[c] \in {"persist", "insert"} =>
    /\ Good(work[c])
    /\ \A d \in Calls : d # c /\ Unspent(d) => NotBy(work[c], d)
    /\ op[c].kind = "submit" => Fresh(work[c]) /\ expected[c] = 0
    /\ op[c].kind # "submit" =>
         /\ op[c].kind \in Mutations /\ pc[c] = "persist" /\ order # NoOrder
         /\ \/ Unchanged(work[c], expected[c])
            \/ OneMoreFill(work[c], expected[c], c)
            \/ TheEnd(work[c], expected[c])

\* What a call has written or returned is part of the record.
Written(c) ==
  pc[c] \in {"committed", "returned"} =>
    /\ order # NoOrder /\ work[c] \in Order
    /\ IsPrefix(work[c].events, order.events)
    /\ IsPrefix(work[c].fills, order.fills)

\* What a host has in memory before there is a row is what a submit has made.
MemoryIsFresh(h) ==
  order = NoOrder /\ memory[h] # NoOrder =>
    /\ Fresh(memory[h])
    /\ \A c \in Calls : Unspent(c) => NotBy(memory[h], c)

RecordIsGood ==
  order # NoOrder =>
    /\ Good(order)
    /\ \A c \in Calls : Unspent(c) => NotBy(order, c)

IInv ==
  /\ TypeOK
  /\ RecordIsGood
  /\ \A h \in Hosts : MemoryIsFresh(h)
  /\ \A c \in Calls : Reading(c) /\ Writing(c) /\ Written(c)

-----------------------------------------------------------------------------
(* Lemmas about prefixes and totals *)

\* A prefix agrees with the longer sequence up to its own length.
LEMMA PrefixIs ==
  ASSUME NEW S, NEW s \in Seq(S), NEW t \in Seq(S)
  PROVE  IsPrefix(s, t) <=> Len(s) <= Len(t) /\ \A i \in 1..Len(s) : s[i] = t[i]
<1>1. Len(s) \in Nat /\ Len(t) \in Nat
  BY LenProperties
<1>2. CASE Len(s) <= Len(t)
  <2>1. \A i \in 1..Len(s) : t[i] \in S
    BY <1>1, <1>2, ElementOfSeq
  <2>2. /\ SubSeq(t, 1, Len(s)) \in Seq(S)
        /\ Len(SubSeq(t, 1, Len(s))) = Len(s)
        /\ \A i \in 1..Len(s) : SubSeq(t, 1, Len(s))[i] = t[i]
    BY <1>1, <2>1, SubSeqProperties
  <2>3. SubSeq(s, 1, Len(s)) = s
    BY SubSeqFull
  <2>4. s = SubSeq(t, 1, Len(s)) <=> \A i \in 1..Len(s) : s[i] = t[i]
    BY <2>2, SeqEqual
  <2>5. QED BY <1>2, <2>3, <2>4 DEF IsPrefix
<1>3. CASE ~(Len(s) <= Len(t))
  BY <1>3 DEF IsPrefix
<1>4. QED BY <1>2, <1>3

\* Every sequence is a prefix of itself.
LEMMA PrefixSame == ASSUME NEW S, NEW s \in Seq(S) PROVE IsPrefix(s, s)
  BY PrefixIs, LenProperties

\* A prefix of a prefix is a prefix.
LEMMA PrefixTransitive ==
  ASSUME NEW S, NEW s \in Seq(S), NEW t \in Seq(S), NEW u \in Seq(S),
         IsPrefix(s, t), IsPrefix(t, u)
  PROVE  IsPrefix(s, u)
<1>1. Len(s) \in Nat /\ Len(t) \in Nat /\ Len(u) \in Nat
  BY LenProperties
<1>2. /\ Len(s) <= Len(t) /\ \A i \in 1..Len(s) : s[i] = t[i]
      /\ Len(t) <= Len(u) /\ \A i \in 1..Len(t) : t[i] = u[i]
  BY PrefixIs
<1>3. Len(s) <= Len(u) /\ \A i \in 1..Len(s) : s[i] = u[i]
  BY <1>1, <1>2
<1>4. QED BY <1>3, PrefixIs

\* Two sequences that are prefixes of each other are the same.
LEMMA PrefixBothWays ==
  ASSUME NEW S, NEW s \in Seq(S), NEW t \in Seq(S), IsPrefix(s, t), IsPrefix(t, s)
  PROVE  s = t
<1>1. Len(s) \in Nat /\ Len(t) \in Nat
  BY LenProperties
<1>2. Len(s) = Len(t) /\ \A i \in 1..Len(s) : s[i] = t[i]
  BY <1>1, PrefixIs
<1>3. QED BY <1>2, SeqEqual

\* What Append makes of a sequence.
LEMMA Appended ==
  ASSUME NEW S, NEW s \in Seq(S), NEW e \in S
  PROVE  /\ Append(s, e) \in Seq(S)
         /\ Len(Append(s, e)) = Len(s) + 1
         /\ \A i \in 1..Len(s) : Append(s, e)[i] = s[i]
         /\ Append(s, e)[Len(s) + 1] = e
         /\ Last(Append(s, e)) = e
         /\ IsPrefix(s, Append(s, e))
<1>1. Len(s) \in Nat
  BY LenProperties
<1>2. /\ Append(s, e) \in Seq(S) /\ Len(Append(s, e)) = Len(s) + 1
      /\ \A i \in 1..Len(s) : Append(s, e)[i] = s[i]
      /\ Append(s, e)[Len(s) + 1] = e
  BY <1>1
<1>3. Last(Append(s, e)) = e
  BY <1>1, <1>2 DEF Last
<1>4. IsPrefix(s, Append(s, e))
  <2> DEFINE t == Append(s, e)
  <2>1. t \in Seq(S) /\ Len(s) <= Len(t) /\ \A i \in 1..Len(s) : s[i] = t[i]
    BY <1>1, <1>2
  <2> HIDE DEF t
  <2>2. IsPrefix(s, t)
    BY <2>1, PrefixIs
  <2>3. QED BY <2>2 DEF t
<1>5. QED BY <1>2, <1>3, <1>4

Event == [status : Statuses, by : Calls]
Execution == [volume : 1..Volume, by : Calls]

\* Nothing was filled by no fill.
LEMMA TotalOfNone == Total(<<>>) = 0
<1>1. DOMAIN [i \in DOMAIN <<>> |-> <<>>[i].volume] = {}
  OBVIOUS
<1>2. QED BY <1>1, SumEmpty DEF Total, SumFunction

\* A total is a sum over the indices of the fills.
LEMMA TotalIs ==
  ASSUME NEW s \in Seq(Execution)
  PROVE  Total(s) = SumFunctionOnSet([i \in 1..Len(s) |-> s[i].volume], 1..Len(s))
<1>1. DOMAIN s = 1..Len(s)
  BY LenProperties
<1>2. QED BY <1>1 DEF Total, SumFunction

\* A total is a number, and a fill adds its volume to it.
LEMMA TotalOfAppend ==
  ASSUME NEW s \in Seq(Execution), NEW e \in Execution
  PROVE  Total(s) \in Int /\ Total(Append(s, e)) = Total(s) + e.volume
<1> DEFINE n == Len(s)
           t == Append(s, e)
           f == [i \in 1..n |-> s[i].volume]
           g == [i \in 1..(n + 1) |-> t[i].volume]
<1>1. n \in Nat /\ IsFiniteSet(1..n) /\ 1..(n + 1) = (1..n) \cup {n + 1} /\ n + 1 \notin 1..n
  <2>1. n \in Nat
    BY LenProperties
  <2> HIDE DEF n
  <2>2. 1..(n + 1) = (1..n) \cup {n + 1} /\ n + 1 \notin 1..n
    BY <2>1
  <2>3. IsFiniteSet(1..n)
    BY <2>1, FS_Interval
  <2>4. QED BY <2>1, <2>2, <2>3
<1>2. /\ t \in Seq(Execution) /\ Len(t) = n + 1
      /\ \A i \in 1..n : t[i] = s[i]
      /\ t[n + 1] = e
  BY Appended
<1>3. e.volume \in Int /\ \A i \in 1..n : s[i] \in Execution
  <2>1. e.volume \in 1..Volume /\ Volume \in Nat
    BY PaperAssumption DEF Execution
  <2>2. \A i \in 1..n : s[i] \in Execution
    BY ElementOfSeq
  <2>3. QED BY <2>1, <2>2
<1>4. \A i \in 1..n : s[i].volume \in Int
  BY <1>3, PaperAssumption DEF Execution
<1>5. /\ \A i \in 1..n : f[i] \in Int /\ g[i] \in Int /\ g[i] = f[i]
      /\ g[n + 1] = e.volume
  BY <1>1, <1>2, <1>3, <1>4
<1>6. Total(s) = SumFunctionOnSet(f, 1..n) /\ Total(t) = SumFunctionOnSet(g, (1..n) \cup {n + 1})
  BY <1>1, <1>2, TotalIs
<1> HIDE DEF n, t, f, g
<1>7. SumFunctionOnSet(f, 1..n) \in Int
  BY <1>1, <1>5, SumInt
<1>8. SumFunctionOnSet(g, 1..n) = SumFunctionOnSet(f, 1..n)
  BY <1>1, <1>5, SumSame
<1>9. SumFunctionOnSet(g, (1..n) \cup {n + 1}) = SumFunctionOnSet(g, 1..n) + g[n + 1]
  BY <1>1, <1>3, <1>5, SumAdd
<1>10. QED BY <1>5, <1>6, <1>7, <1>8, <1>9 DEF t

-----------------------------------------------------------------------------
(* Lemmas about the operations on an order *)

\* The lifecycle, status by status.
LEMMA Table ==
  /\ Transitions["created"] = {"accepted", "rejected", "expired"}
  /\ Transitions["accepted"] = {"partial", "filled", "cancel_pending", "expired"}
  /\ Transitions["partial"] = {"partial", "filled", "cancel_pending", "expired"}
  /\ Transitions["cancel_pending"] = {"cancelled"}
  /\ \A s \in {"filled", "cancelled", "rejected", "expired"} : Transitions[s] = {}
  BY DEF Transitions, Statuses

\* The fields of an order.
LEMMA Fields ==
  ASSUME NEW o \in Order
  PROVE  /\ o.status \in Statuses /\ o.filled \in 0..Volume
         /\ o.events \in Seq(Event) /\ o.fills \in Seq(Execution)
         /\ Len(o.events) \in Nat /\ Len(o.fills) \in Nat
<1>1. /\ o.status \in Statuses /\ o.filled \in 0..Volume
      /\ o.events \in Seq(Event) /\ o.fills \in Seq(Execution)
  BY DEF Order, Event, Execution
<1>2. QED BY <1>1, LenProperties

\* n is o with one more event, by c, and its status.
AdvancedBy(n, o, target, c) ==
  /\ n \in Order
  /\ n.status = target
  /\ n.filled = o.filled
  /\ n.fills = o.fills
  /\ n.events = Append(o.events, [status |-> target, by |-> c])
  /\ Len(n.events) = Len(o.events) + 1
  /\ n.events[Len(o.events) + 1].status = target
  /\ \A i \in 1..Len(o.events) : n.events[i] = o.events[i]

\* _transition changes the status and appends one event.
LEMMA AdvanceIs ==
  ASSUME NEW o \in Order, NEW target \in Statuses, NEW c \in Calls
  PROVE  AdvancedBy(Advance(o, target, c), o, target, c)
<1> DEFINE e == [status |-> target, by |-> c]
           n == [status |-> target, filled |-> o.filled,
                 events |-> Append(o.events, e), fills |-> o.fills]
<1>1. e \in Event
  BY DEF Event
<1>2. o = [status |-> o.status, filled |-> o.filled, events |-> o.events, fills |-> o.fills]
  BY DEF Order
<1>3. Advance(o, target, c) = n
  <2>1. Advance(o, target, c) = [o EXCEPT !.status = target, !.events = Append(@, e)]
    BY DEF Advance
  <2> HIDE DEF e
  <2>2. QED BY <1>2, <2>1
<1>4. /\ Append(o.events, e) \in Seq(Event)
      /\ Len(Append(o.events, e)) = Len(o.events) + 1
      /\ Append(o.events, e)[Len(o.events) + 1] = e
      /\ \A i \in 1..Len(o.events) : Append(o.events, e)[i] = o.events[i]
  BY <1>1, Fields, Appended
<1>5. n \in Order
  BY <1>4, Fields DEF Order, Event, Execution
<1>6. AdvancedBy(n, o, target, c)
  BY <1>4, <1>5 DEF AdvancedBy
<1>7. QED BY <1>3, <1>6

\* n is o with one more fill, of volume v, by c.
FilledBy(n, o, v, c) ==
  /\ n \in Order
  /\ n.filled = o.filled + v
  /\ n.status \in {"partial", "filled"}
  /\ n.status = "filled" <=> n.filled = Volume
  /\ n.events = Append(o.events, [status |-> n.status, by |-> c])
  /\ n.fills = Append(o.fills, [volume |-> v, by |-> c])

\* _fill leaves the order alone or fills some of what remains.
LEMMA FillIs ==
  ASSUME NEW o \in Order, NEW a \in 0..Volume, NEW c \in Calls
  PROVE  Fill(o, a, c) = o \/ \E v \in 1..Volume : FilledBy(Fill(o, a, c), o, v, c)
<1> DEFINE left == Volume - o.filled
           v == IF left < a THEN left ELSE a
           s == IF v = left THEN "filled" ELSE "partial"
           m == Advance(o, s, c)
           e == [volume |-> v, by |-> c]
           n == [status |-> s, filled |-> o.filled + v, events |-> m.events,
                 fills |-> Append(o.fills, e)]
<1>0. Volume \in Nat /\ o.filled \in 0..Volume
  BY PaperAssumption, Fields
<1>1. CASE v = 0
  BY <1>1 DEF Fill
<1>2. CASE v # 0
  <2>1. v \in 1..Volume /\ v <= left /\ o.filled + v \in 0..Volume
    BY <1>0, <1>2
  <2>2. s \in Statuses
    BY DEF Statuses
  <2>3. /\ m \in Order /\ m.status = s /\ m.filled = o.filled /\ m.fills = o.fills
        /\ m.events = Append(o.events, [status |-> s, by |-> c])
    <3>1. AdvancedBy(m, o, s, c)
      BY <2>2, AdvanceIs
    <3> HIDE DEF m, s
    <3>2. QED BY <3>1 DEF AdvancedBy
  <2>4. m = [status |-> m.status, filled |-> m.filled, events |-> m.events,
             fills |-> m.fills]
    BY <2>3 DEF Order
  <2>5. Fill(o, a, c) = [m EXCEPT !.filled = @ + v, !.fills = Append(@, e)]
    BY <1>2 DEF Fill
  <2>6. Fill(o, a, c) = n
    <3> HIDE DEF m, v, s, e
    <3>1. QED BY <2>3, <2>4, <2>5
  <2>7. e \in Execution
    BY <2>1 DEF Execution
  <2>8. Append(o.fills, e) \in Seq(Execution)
    BY <2>7, Fields, Appended
  <2>9. n \in Order
    <3>1. m.events \in Seq(Event)
      BY <2>3, Fields
    <3> HIDE DEF m, v, s, e
    <3>2. QED BY <2>1, <2>2, <2>8, <3>1 DEF Order, Event, Execution
  <2>10. s \in {"partial", "filled"} /\ (s = "filled" <=> o.filled + v = Volume)
    BY <1>0, <2>1
  <2>11. FilledBy(n, o, v, c)
    <3> HIDE DEF m, v, s
    <3>1. QED BY <2>3, <2>9, <2>10 DEF FilledBy
  <2>12. QED BY <2>1, <2>6, <2>11
<1>3. QED BY <1>1, <1>2

\* n is o brought to its end, by cancel or by expire.
EndOf(n, o) ==
  /\ n.fills = o.fills
  /\ Len(n.events) > Len(o.events)
  /\ n.events[Len(o.events) + 1].status \in {"cancel_pending", "expired"}
  /\ n.status \in {"cancelled", "expired"}

\* An order whose status and filled volume agree keeps them so through every
\* mutation, which leaves it alone, fills some of it, or ends it.
LEMMA MutatedIs ==
  ASSUME TypeOK, NEW c \in Calls, NEW o \in Order, Whole(o), o.status \in Settled,
         NEW n \in Mutated(o, c)
  PROVE  /\ n \in Order /\ Whole(n) /\ n.status \in Settled
         /\ n = o \/ (\E v \in 1..Volume : FilledBy(n, o, v, c)) \/ EndOf(n, o)
<1>1. op[c].available \in 0..Volume /\ Volume \in Nat /\ Len(o.events) \in Nat
  BY PaperAssumption, Fields DEF TypeOK
<1>2. CASE n = Fill(o, op[c].available, c)
  <2>1. n = o \/ \E v \in 1..Volume : FilledBy(n, o, v, c)
    BY <1>1, <1>2, FillIs
  <2>2. ASSUME NEW v \in 1..Volume, FilledBy(n, o, v, c)
        PROVE  n \in Order /\ Whole(n) /\ n.status \in Settled
    BY <2>2 DEF FilledBy, Whole, Settled
  <2>3. QED BY <2>1, <2>2
<1>3. CASE /\ "cancel_pending" \in Transitions[o.status]
           /\ n = Advance(Advance(o, "cancel_pending", c), "cancelled", c)
  <2> DEFINE m == Advance(o, "cancel_pending", c)
  <2>1. "cancel_pending" \in Statuses /\ "cancelled" \in Statuses
    BY DEF Statuses
  <2>2. /\ m \in Order /\ m.filled = o.filled /\ m.fills = o.fills
        /\ Len(m.events) = Len(o.events) + 1
        /\ m.events[Len(o.events) + 1].status = "cancel_pending"
    <3>1. AdvancedBy(m, o, "cancel_pending", c)
      BY <2>1, AdvanceIs
    <3> HIDE DEF m
    <3>2. QED BY <3>1 DEF AdvancedBy
  <2>3. n = Advance(m, "cancelled", c)
    BY <1>3
  <2> HIDE DEF m
  <2>4. /\ n \in Order /\ n.status = "cancelled" /\ n.filled = m.filled /\ n.fills = m.fills
        /\ Len(n.events) = Len(m.events) + 1
        /\ \A i \in 1..Len(m.events) : n.events[i] = m.events[i]
    <3>1. AdvancedBy(n, m, "cancelled", c)
      BY <2>1, <2>2, <2>3, AdvanceIs
    <3>2. QED BY <3>1 DEF AdvancedBy
  <2>5. n.events[Len(o.events) + 1] = m.events[Len(o.events) + 1]
    BY <1>1, <2>2, <2>4
  <2>6. o.status # "filled"
    BY <1>3, Table
  <2>7. EndOf(n, o)
    BY <1>1, <2>2, <2>4, <2>5 DEF EndOf
  <2>8. QED BY <2>2, <2>4, <2>6, <2>7 DEF Whole, Settled
<1>4. CASE "expired" \in Transitions[o.status] /\ n = Advance(o, "expired", c)
  <2>1. "expired" \in Statuses
    BY DEF Statuses
  <2>2. /\ n \in Order /\ n.status = "expired" /\ n.filled = o.filled /\ n.fills = o.fills
        /\ Len(n.events) = Len(o.events) + 1
        /\ n.events[Len(o.events) + 1].status = "expired"
    <3>1. AdvancedBy(n, o, "expired", c)
      BY <1>4, <2>1, AdvanceIs
    <3>2. QED BY <3>1 DEF AdvancedBy
  <2>3. o.status # "filled"
    BY <1>4, Table
  <2>4. EndOf(n, o)
    BY <1>1, <2>2 DEF EndOf
  <2>5. QED BY <2>2, <2>3, <2>4 DEF Whole, Settled
<1>5. QED BY <1>2, <1>3, <1>4 DEF Mutated

\* Events that begin with "created", follow the lifecycle and end in the status.
Chain(o) ==
  /\ o.events # <<>>
  /\ o.events[1].status = "created"
  /\ Last(o.events).status = o.status
  /\ \A i \in 2..Len(o.events) :
       o.events[i].status \in Transitions[o.events[i - 1].status]

\* An event that the lifecycle allows keeps the chain.
LEMMA ChainGrows ==
  ASSUME NEW o \in Order, Chain(o), NEW n \in Order, NEW c \in Calls,
         n.status \in Transitions[o.status],
         n.events = Append(o.events, [status |-> n.status, by |-> c])
  PROVE  Chain(n)
<1> DEFINE k == Len(o.events)
<1>1. k \in Nat /\ k # 0 /\ o.events[k].status = o.status
  <2>1. k \in Nat /\ k # 0
    BY Fields, EmptySeq DEF Chain
  <2>2. QED BY <2>1 DEF Chain, Last
<1>2. [status |-> n.status, by |-> c] \in Event
  BY Fields DEF Event
<1>3. /\ Len(n.events) = k + 1 /\ n.events[k + 1].status = n.status
      /\ \A i \in 1..k : n.events[i] = o.events[i]
  BY <1>2, Fields, Appended
<1> HIDE DEF k
<1>4. n.events # <<>> /\ n.events[1].status = "created" /\ Last(n.events).status = n.status
  BY <1>1, <1>3 DEF Chain, Last
<1>5. ASSUME NEW i \in 2..Len(n.events)
      PROVE  n.events[i].status \in Transitions[n.events[i - 1].status]
  <2>1. CASE i = k + 1
    <3>1. n.events[i - 1] = o.events[k]
      BY <1>1, <1>3, <2>1
    <3>2. QED BY <1>1, <1>3, <2>1, <3>1
  <2>2. CASE i # k + 1
    <3>1. i \in 2..k /\ i \in 1..k /\ i - 1 \in 1..k
      BY <1>1, <1>3, <2>2
    <3>2. o.events[i].status \in Transitions[o.events[i - 1].status]
      BY <3>1 DEF Chain, k
    <3>3. QED BY <1>3, <3>1, <3>2
  <2>3. QED BY <2>1, <2>2
<1>6. QED BY <1>4, <1>5 DEF Chain

\* An order that submit makes is sound, and all its fills are the call's.
LEMMA SubmittedIs ==
  ASSUME TypeOK, NEW c \in Calls, memory[HostOf[c]] = NoOrder, NEW n \in Submitted(c)
  PROVE  Fresh(n) /\ \A i \in 1..Len(n.fills) : n.fills[i].by = c
<1> DEFINE first == [status |-> "created", by |-> c]
           new == [status |-> "created", filled |-> 0, fills |-> <<>>, events |-> <<first>>]
           accepted == Advance(new, "accepted", c)
<1>1. /\ Volume \in Nat /\ Volume # 0 /\ op[c].available \in 0..Volume
      /\ {"created", "accepted", "rejected", "expired"} \subseteq Statuses
  BY PaperAssumption DEF TypeOK, Statuses
<1>2. /\ new \in Order /\ Chain(new)
      /\ new.fills = <<>> /\ new.filled = 0 /\ new.status = "created"
  <2>1. <<first>> \in Seq(Event) /\ Len(<<first>>) = 1 /\ <<first>>[1] = first
    BY <1>1 DEF Event
  <2>2. new \in Order
    BY <1>1, <2>1 DEF Order, Event
  <2>3. Chain(new)
    BY <2>1 DEF Chain, Last
  <2>4. QED BY <2>2, <2>3
<1> HIDE DEF new
<1>3. ASSUME NEW o \in Order, o.fills = <<>>, o.filled = 0, Chain(o),
             o.status \in {"accepted", "rejected", "expired"}
      PROVE  Fresh(o) /\ \A i \in 1..Len(o.fills) : o.fills[i].by = c
  <2>1. Len(o.fills) = 0 /\ Total(o.fills) = o.filled
    BY <1>3, TotalOfNone
  <2>2. Consistent(o)
    BY <1>1, <1>3, <2>1 DEF Consistent, Chain
  <2>3. Whole(o) /\ Distinct(o) /\ o.status \in Settled
    BY <1>1, <1>3, <2>1 DEF Whole, Distinct, Settled
  <2>4. QED BY <1>3, <2>1, <2>2, <2>3 DEF Fresh, Good
<1>4. ASSUME NEW target \in {"accepted", "rejected", "expired"}
      PROVE  LET o == Advance(new, target, c)
             IN /\ o \in Order /\ Chain(o) /\ o.status = target
                /\ o.fills = <<>> /\ o.filled = 0
  <2> DEFINE o == Advance(new, target, c)
  <2>1. /\ o \in Order /\ o.status = target /\ o.fills = <<>> /\ o.filled = 0
        /\ o.events = Append(new.events, [status |-> o.status, by |-> c])
    <3>1. AdvancedBy(o, new, target, c)
      BY <1>1, <1>2, AdvanceIs
    <3> HIDE DEF o
    <3>2. QED BY <1>2, <3>1 DEF AdvancedBy
  <2>2. o.status \in Transitions[new.status]
    BY <1>2, <2>1, Table
  <2> HIDE DEF o
  <2>3. Chain(o)
    BY <1>2, <2>1, <2>2, ChainGrows
  <2>4. QED BY <2>1, <2>3 DEF o
<1>5. CASE n \in {Advance(new, "expired", c), Advance(new, "rejected", c)}
  BY <1>3, <1>4, <1>5
<1>6. CASE n = Fill(accepted, op[c].available, c)
  <2>1. /\ accepted \in Order /\ Chain(accepted) /\ accepted.status = "accepted"
        /\ accepted.fills = <<>> /\ accepted.filled = 0
    BY <1>4
  <2> HIDE DEF accepted
  <2>2. CASE n = accepted
    BY <1>3, <2>1, <2>2
  <2>3. ASSUME NEW v \in 1..Volume, FilledBy(n, accepted, v, c)
        PROVE  Fresh(n) /\ \A i \in 1..Len(n.fills) : n.fills[i].by = c
    <3> DEFINE e == [volume |-> v, by |-> c]
    <3>1. /\ n \in Order /\ n.filled = v /\ n.status \in {"partial", "filled"}
          /\ n.status = "filled" <=> n.filled = Volume
          /\ n.events = Append(accepted.events, [status |-> n.status, by |-> c])
          /\ n.fills = Append(<<>>, e)
      BY <2>1, <2>3 DEF FilledBy
    <3>2. e \in Execution /\ <<>> \in Seq(Execution) /\ Len(<<>>) = 0
      BY DEF Execution
    <3>3. Len(n.fills) = 1 /\ n.fills[1] = e
      BY <3>1, <3>2, Appended
    <3>4. Total(n.fills) = n.filled
      <4>1. Total(Append(<<>>, e)) = Total(<<>>) + v
        BY <3>2, TotalOfAppend
      <4>2. v \in Int
        BY <1>1
      <4>3. QED BY <3>1, <4>1, <4>2, TotalOfNone
    <3>5. n.status \in Transitions[accepted.status]
      BY <2>1, <3>1, Table
    <3>6. Chain(n)
      BY <2>1, <3>1, <3>5, ChainGrows
    <3>7. Consistent(n)
      BY <1>1, <3>1, <3>4, <3>6 DEF Consistent, Chain
    <3>8. Whole(n) /\ Distinct(n) /\ n.status \in Settled
      BY <3>1, <3>3 DEF Whole, Distinct, Settled
    <3>9. QED BY <3>1, <3>3, <3>7, <3>8 DEF Fresh, Good
  <2>4. QED BY <1>1, <1>6, <2>1, <2>2, <2>3, FillIs
<1>7. QED BY <1>5, <1>6 DEF Submitted, new

-----------------------------------------------------------------------------
(* Lemmas about the reads, and type correctness *)

Points == {"idle", "returned", "failed", "conflict", "unresolved", "crashed"} \cup Busy

\* The header alone, without the events and the fills.
LEMMA HeaderIs ==
  ASSUME NEW o \in Order
  PROVE  /\ [o EXCEPT !.events = <<>>, !.fills = <<>>] \in Order
         /\ [o EXCEPT !.events = <<>>, !.fills = <<>>].status = o.status
         /\ [o EXCEPT !.events = <<>>, !.fills = <<>>].filled = o.filled
<1>1. <<>> \in Seq(Event) /\ <<>> \in Seq(Execution)
  OBVIOUS
<1>2. o = [status |-> o.status, filled |-> o.filled, events |-> o.events, fills |-> o.fills]
  BY DEF Order
<1>3. [o EXCEPT !.events = <<>>, !.fills = <<>>]
        = [status |-> o.status, filled |-> o.filled, events |-> <<>>, fills |-> <<>>]
  <2> DEFINE m == [o EXCEPT !.events = <<>>]
  <2>1. m = [status |-> o.status, filled |-> o.filled, events |-> <<>>, fills |-> o.fills]
    BY <1>2
  <2>2. [m EXCEPT !.fills = <<>>]
          = [status |-> o.status, filled |-> o.filled, events |-> <<>>, fills |-> <<>>]
    <3> HIDE DEF m
    <3>1. QED BY <2>1
  <2>3. [o EXCEPT !.events = <<>>, !.fills = <<>>] = [m EXCEPT !.fills = <<>>]
    OBVIOUS
  <2>4. QED BY <2>2, <2>3
<1>4. QED BY <1>1, <1>3, Fields DEF Order, Event, Execution

\* The second statement of a read adds the events, the third the fills.
LEMMA PartsAre ==
  ASSUME NEW w \in Order, NEW o \in Order
  PROVE  /\ [w EXCEPT !.events = o.events] \in Order
         /\ [w EXCEPT !.events = o.events].status = w.status
         /\ [w EXCEPT !.events = o.events].filled = w.filled
         /\ [w EXCEPT !.events = o.events].events = o.events
         /\ [w EXCEPT !.fills = o.fills] \in Order
         /\ [w EXCEPT !.fills = o.fills].status = w.status
         /\ [w EXCEPT !.fills = o.fills].filled = w.filled
         /\ [w EXCEPT !.fills = o.fills].events = w.events
         /\ [w EXCEPT !.fills = o.fills].fills = o.fills
<1>1. w = [status |-> w.status, filled |-> w.filled, events |-> w.events, fills |-> w.fills]
  BY DEF Order
<1>2. [w EXCEPT !.events = o.events]
        = [status |-> w.status, filled |-> w.filled, events |-> o.events, fills |-> w.fills]
  BY <1>1
<1>3. [w EXCEPT !.fills = o.fills]
        = [status |-> w.status, filled |-> w.filled, events |-> w.events, fills |-> o.fills]
  BY <1>1
<1>4. /\ w.status \in Statuses /\ w.filled \in 0..Volume
      /\ w.events \in Seq(Event) /\ o.events \in Seq(Event)
      /\ w.fills \in Seq(Execution) /\ o.fills \in Seq(Execution)
  BY Fields
<1>5. QED BY <1>2, <1>3, <1>4 DEF Order, Event, Execution

\* Moving one call leaves the others where they are.
LEMMA GotoMoves ==
  ASSUME pc \in [Calls -> Points], NEW c \in Calls, NEW x \in Points, Goto(c, x)
  PROVE  /\ pc' \in [Calls -> Points]
         /\ pc'[c] = x
         /\ \A d \in Calls : d # c => pc'[d] = pc[d]
  BY DEF Goto

\* Every step keeps the types.
LEMMA TypeStep == IInv /\ [Next]_vars => TypeOK'
<1> SUFFICES ASSUME IInv, [Next]_vars PROVE TypeOK'
  OBVIOUS
<1>1. TypeOK /\ \A c \in Calls : Reading(c)
  BY DEF IInv
<1>2. /\ order \in Order \cup {NoOrder} /\ memory \in [Hosts -> Order \cup {NoOrder}]
      /\ pc \in [Calls -> Points] /\ op \in [Calls -> [kind : Kinds, available : 0..Volume]]
      /\ work \in [Calls -> Order \cup {NoOrder}] /\ expected \in [Calls -> Nat]
      /\ tries \in [Calls -> {0, 1}] /\ late \in BOOLEAN
      /\ HostOf \in [Calls -> Hosts]
  BY <1>1, PaperAssumption DEF TypeOK, Points
<1>3. SUFFICES
        /\ order' \in Order \cup {NoOrder} /\ memory' \in [Hosts -> Order \cup {NoOrder}]
        /\ pc' \in [Calls -> Points]
        /\ op' \in [Calls -> [kind : Kinds, available : 0..Volume]]
        /\ work' \in [Calls -> Order \cup {NoOrder}] /\ expected' \in [Calls -> Nat]
        /\ tries' \in [Calls -> {0, 1}] /\ late' \in BOOLEAN
  BY DEF TypeOK, Points
<1>4. ASSUME NEW c \in Calls, pc[c] \in {"events", "fills", "loaded"}
      PROVE  order \in Order /\ work[c] \in Order /\ Whole(work[c]) /\ work[c].status \in Settled
  BY <1>1, <1>2, <1>4 DEF Reading
<1>5. ASSUME NEW c \in Calls, Start(c) PROVE <1>3!1
  BY <1>2, <1>5 DEF Start, Goto, Points, Busy
<1>6. ASSUME NEW c \in Calls, ReadHeader(c) PROVE <1>3!1
  <2>1. CASE order # NoOrder
    BY <1>2, <1>6, <2>1, HeaderIs DEF ReadHeader, Goto, Points, Busy
  <2>2. CASE order = NoOrder /\ op[c].kind = "submit"
    <3>1. PICK o \in Submitted(c) :
            /\ memory' = [memory EXCEPT ![HostOf[c]] = o]
            /\ work' = [work EXCEPT ![c] = o]
      BY <1>6, <2>2 DEF ReadHeader
    <3>2. o \in Order
      <4>1. CASE memory[HostOf[c]] = NoOrder
        BY <1>1, <3>1, <4>1, SubmittedIs DEF Fresh, Good
      <4>2. CASE memory[HostOf[c]] # NoOrder
        BY <1>2, <3>1, <4>2 DEF Submitted
      <4>3. QED BY <4>1, <4>2
    <3>3. QED BY <1>2, <1>6, <2>2, <3>1, <3>2 DEF ReadHeader, Goto, Points, Busy
  <2>3. CASE order = NoOrder /\ op[c].kind # "submit"
    BY <1>2, <1>6, <2>3 DEF ReadHeader, Goto, Points, Busy
  <2>4. QED BY <2>1, <2>2, <2>3
<1>7. ASSUME NEW c \in Calls, ReadEvents(c) PROVE <1>3!1
  <2>1. order \in Order /\ work[c] \in Order
    BY <1>4, <1>7 DEF ReadEvents
  <2>2. [work[c] EXCEPT !.events = order.events] \in Order
    BY <2>1, PartsAre
  <2>3. QED BY <1>2, <1>7, <2>2 DEF ReadEvents, Goto, Points, Busy
<1>8. ASSUME NEW c \in Calls, ReadFills(c) PROVE <1>3!1
  <2>1. order \in Order /\ work[c] \in Order
    BY <1>4, <1>8 DEF ReadFills
  <2>2. [work[c] EXCEPT !.fills = order.fills] \in Order
    BY <2>1, PartsAre
  <2>3. QED BY <1>2, <1>8, <2>2 DEF ReadFills, Goto, Points, Busy
<1>9. ASSUME NEW c \in Calls, Restore(c) PROVE <1>3!1
  BY <1>2, <1>9 DEF Restore, Goto, Points, Busy
<1>10. ASSUME NEW c \in Calls, Mutate(c) PROVE <1>3!1
  <2>1. /\ work[c] \in Order /\ Whole(work[c]) /\ work[c].status \in Settled
        /\ Len(work[c].events) \in Nat
    BY <1>4, <1>10, Fields DEF Mutate
  <2>2. \A o \in Mutated(work[c], c) : o \in Order
    BY <1>1, <2>1, MutatedIs
  <2>3. expected' \in [Calls -> Nat]
    BY <1>2, <1>10, <2>1 DEF Mutate
  <2>4. QED BY <1>2, <1>10, <2>1, <2>2, <2>3 DEF Mutate, Goto, Points, Busy
<1>11. ASSUME NEW c \in Calls, Persist(c) PROVE <1>3!1
  BY <1>2, <1>11 DEF Persist, Stale, Goto, Points, Busy
<1>12. ASSUME NEW c \in Calls, Insert(c) PROVE <1>3!1
  BY <1>2, <1>12 DEF Insert, Goto, Points, Busy
<1>13. ASSUME NEW c \in Calls, Return(c) PROVE <1>3!1
  BY <1>2, <1>13 DEF Return, Goto, Points, Busy
<1>14. ASSUME NEW c \in Calls, Raise(c) PROVE <1>3!1
  BY <1>2, <1>14 DEF Raise, Goto, Points, Busy
<1>15. ASSUME NEW h \in Hosts, Crash(h) PROVE <1>3!1
  BY <1>2, <1>15 DEF Crash, Points
<1>16. CASE Expires
  BY <1>2, <1>16 DEF Expires
<1>17. CASE UNCHANGED vars
  BY <1>2, <1>17 DEF vars
<1>18. QED BY <1>5, <1>6, <1>7, <1>8, <1>9, <1>10, <1>11, <1>12, <1>13, <1>14, <1>15,
             <1>16, <1>17 DEF Next, Step

-----------------------------------------------------------------------------
(* What a step leaves alone *)

CallIsSound(c) == Reading(c) /\ Writing(c) /\ Written(c)

\* A row stays, and keeps its events and fills.
Grows ==
  order # NoOrder =>
    /\ order' \in Order
    /\ IsPrefix(order.events, order'.events)
    /\ IsPrefix(order.fills, order'.fills)

\* No call gets its mark back.
Fades == \A d \in Calls : Unspent(d)' => Unspent(d)

SameCall(d) ==
  pc'[d] = pc[d] /\ op'[d] = op[d] /\ work'[d] = work[d] /\ expected'[d] = expected[d]

\* A prefix of the record remains one.
LEMMA StillPrefix ==
  ASSUME order \in Order, Grows, NEW w \in Order
  PROVE  /\ IsPrefix(w.events, order.events) => IsPrefix(w.events, order'.events)
         /\ IsPrefix(w.fills, order.fills) => IsPrefix(w.fills, order'.fills)
<1>1. /\ order' \in Order
      /\ IsPrefix(order.events, order'.events) /\ IsPrefix(order.fills, order'.fills)
  BY NoOrderAssumption DEF Grows
<1>2. /\ w.events \in Seq(Event) /\ order.events \in Seq(Event) /\ order'.events \in Seq(Event)
      /\ w.fills \in Seq(Execution) /\ order.fills \in Seq(Execution)
      /\ order'.fills \in Seq(Execution)
  BY <1>1, Fields
<1>3. QED BY <1>1, <1>2, PrefixTransitive

\* A call that does not move stays sound when the record grows.
LEMMA OthersStaySound ==
  ASSUME IInv, Grows, Fades, NEW d \in Calls, SameCall(d)
  PROVE  CallIsSound(d)'
<1>1. /\ TypeOK /\ Reading(d) /\ Writing(d) /\ Written(d)
      /\ order \in Order \cup {NoOrder}
      /\ order # NoOrder => order' \in Order /\ order' # NoOrder
  BY NoOrderAssumption DEF IInv, TypeOK, Grows
<1>2. pc'[d] = pc[d] /\ op'[d] = op[d] /\ work'[d] = work[d] /\ expected'[d] = expected[d]
  BY DEF SameCall
<1>3. Reading(d)'
  <2> SUFFICES ASSUME pc[d] \in {"events", "fills", "loaded"} PROVE Reading(d)'
    BY <1>2 DEF Reading
  <2>1. /\ order \in Order /\ order' # NoOrder
        /\ work[d] \in Order /\ Whole(work[d]) /\ work[d].status \in Settled
        /\ pc[d] \in {"fills", "loaded"} => IsPrefix(work[d].events, order.events)
        /\ pc[d] = "loaded" => IsPrefix(work[d].fills, order.fills)
    BY <1>1 DEF Reading
  <2>2. /\ pc[d] \in {"fills", "loaded"} => IsPrefix(work[d].events, order'.events)
        /\ pc[d] = "loaded" => IsPrefix(work[d].fills, order'.fills)
    BY <2>1, StillPrefix
  <2>3. QED BY <1>2, <2>1, <2>2 DEF Reading, Whole
<1>4. Writing(d)'
  <2> SUFFICES ASSUME pc[d] \in {"persist", "insert"} PROVE Writing(d)'
    BY <1>2 DEF Writing
  <2> DEFINE w == work[d]
             k == expected[d]
  <2>1. /\ Good(w)
        /\ \A e \in Calls : e # d /\ Unspent(e) => NotBy(w, e)
        /\ op[d].kind = "submit" => Fresh(w) /\ k = 0
        /\ op[d].kind # "submit" =>
             /\ op[d].kind \in Mutations /\ pc[d] = "persist" /\ order # NoOrder
             /\ Unchanged(w, k) \/ OneMoreFill(w, k, d) \/ TheEnd(w, k)
    BY <1>1 DEF Writing
  <2>2. \A e \in Calls : e # d /\ Unspent(e)' => NotBy(w, e)
    BY <2>1 DEF Fades
  <2>3. ASSUME op[d].kind # "submit"
        PROVE  /\ order' # NoOrder
               /\ Unchanged(w, k) \/ OneMoreFill(w, k, d)' \/ TheEnd(w, k)'
    <3>1. order \in Order /\ order' \in Order /\ order' # NoOrder /\ w \in Order
      BY <1>1, <2>1, <2>3 DEF Good
    <3>2. CASE Unchanged(w, k)
      BY <3>1, <3>2
    <3>3. CASE OneMoreFill(w, k, d)
      <4>1. /\ order.fills \in Seq(Execution) /\ order'.fills \in Seq(Execution)
            /\ Len(order.fills) \in Nat /\ Len(order'.fills) \in Nat
            /\ IsPrefix(order.fills, order'.fills)
        <5>1. IsPrefix(order.fills, order'.fills)
          BY <3>1, NoOrderAssumption DEF Grows
        <5>2. QED BY <3>1, <5>1, Fields
      <4>2. /\ Len(order.fills) <= Len(order'.fills)
            /\ \A i \in 1..Len(order.fills) : order.fills[i] = order'.fills[i]
        BY <4>1, PrefixIs
      <4>3. \A i \in 1..(Len(w.fills) - 1) :
               i \in 1..Len(order'.fills) /\ w.fills[i] = order'.fills[i]
        BY <3>3, <4>1, <4>2 DEF OneMoreFill
      <4> HIDE DEF w, k
      <4>4. OneMoreFill(w, k, d)'
        <5>1. w' = w /\ k' = k
          BY <1>2 DEF w, k
        <5>2. QED BY <3>3, <4>3, <5>1 DEF OneMoreFill
      <4>5. QED BY <3>1, <4>4
    <3>4. CASE TheEnd(w, k)
      <4>1. IsPrefix(w.fills, order'.fills)
        BY <3>1, <3>4, StillPrefix DEF TheEnd
      <4> HIDE DEF w, k
      <4>2. w' = w /\ k' = k
        BY <1>2 DEF w, k
      <4>3. QED BY <3>1, <3>4, <4>1, <4>2 DEF TheEnd
    <3>5. QED BY <2>1, <2>3, <3>2, <3>3, <3>4
  <2>4. w' = w /\ k' = k
    BY <1>2
  <2>5. Good(w)' /\ (Fresh(w) => Fresh(w)')
    <3> HIDE DEF w
    <3>1. QED BY <2>1, <2>4
          DEF Good, Fresh, Consistent, Whole, Distinct
  <2>6. \A e \in Calls : e # d /\ Unspent(e)' => NotBy(w, e)'
    <3> HIDE DEF w
    <3>1. QED BY <2>2, <2>4 DEF NotBy
  <2>7. QED BY <1>2, <2>1, <2>3, <2>4, <2>5, <2>6 DEF Writing, Unchanged
<1>5. Written(d)'
  <2> SUFFICES ASSUME pc[d] \in {"committed", "returned"} PROVE Written(d)'
    BY <1>2 DEF Written
  <2>1. /\ order \in Order /\ order' # NoOrder /\ work[d] \in Order
        /\ IsPrefix(work[d].events, order.events)
        /\ IsPrefix(work[d].fills, order.fills)
    BY <1>1 DEF Written
  <2>2. /\ IsPrefix(work[d].events, order'.events)
        /\ IsPrefix(work[d].fills, order'.fills)
    BY <2>1, StillPrefix
  <2>3. QED BY <1>2, <2>1, <2>2 DEF Written
<1>6. QED BY <1>3, <1>4, <1>5 DEF CallIsSound

\* The row stays sound when it does not change.
LEMMA RecordKept ==
  ASSUME IInv, Fades, order' = order
  PROVE  RecordIsGood'
<1>1. RecordIsGood
  BY DEF IInv
<1>2. QED BY <1>1 DEF RecordIsGood, Fades, Good, Consistent, Whole, Distinct, NotBy

\* So do the memories when they do not change and no row is lost.
LEMMA MemoryKept ==
  ASSUME IInv, Fades, order' = NoOrder => order = NoOrder, NEW h \in Hosts,
         memory'[h] \in {memory[h], NoOrder}
  PROVE  MemoryIsFresh(h)'
<1>1. MemoryIsFresh(h)
  BY DEF IInv
<1>2. SUFFICES ASSUME order' = NoOrder, memory'[h] # NoOrder
               PROVE  Fresh(memory[h]) /\ \A c \in Calls : Unspent(c)' => NotBy(memory[h], c)
  BY DEF MemoryIsFresh, Fresh, Good, Consistent, Whole, Distinct, NotBy
<1>3. QED BY <1>1, <1>2 DEF MemoryIsFresh, Fades

-----------------------------------------------------------------------------
(* Every action keeps the invariant *)

\* A step of one call that leaves the row alone: the call itself is all there
\* is to check.
LEMMA QuietStep ==
  ASSUME IInv, TypeOK', order' = order, NEW c \in Calls,
         \A d \in Calls : d # c => SameCall(d),
         Unspent(c)' => Unspent(c),
         order # NoOrder \/ memory' = memory,
         CallIsSound(c)'
  PROVE  IInv'
<1>1. Grows
  <2>1. order \in Order \cup {NoOrder}
    BY DEF IInv, TypeOK
  <2>2. order # NoOrder => /\ IsPrefix(order.events, order.events)
                           /\ IsPrefix(order.fills, order.fills)
    BY <2>1, Fields, PrefixSame
  <2>3. QED BY <2>1, <2>2 DEF Grows
<1>2. Fades
  BY DEF Fades, SameCall, Unspent
<1>3. \A d \in Calls : CallIsSound(d)'
  BY <1>1, <1>2, OthersStaySound
<1>4. RecordIsGood'
  BY <1>2, RecordKept
<1>5. ASSUME NEW h \in Hosts PROVE MemoryIsFresh(h)'
  <2>1. CASE order # NoOrder
    BY <2>1 DEF MemoryIsFresh
  <2>2. CASE memory' = memory
    BY <1>2, <2>2, MemoryKept
  <2>3. QED BY <2>1, <2>2
<1>6. QED BY <1>3, <1>4, <1>5 DEF IInv, CallIsSound

\* A call that only moves, to a point at which nothing is required of it.
LEMMA CallLeaves ==
  ASSUME NEW c \in Calls,
         pc'[c] \in {"header", "failed", "conflict", "unresolved", "crashed"}
  PROVE  CallIsSound(c)'
  BY DEF CallIsSound, Reading, Writing, Written

\* A step that writes the row, with what one call holds.
LEMMA WriteStep ==
  ASSUME IInv, TypeOK', NEW c \in Calls, pc[c] \in {"persist", "insert"},
         order' = work[c], pc'[c] = "committed", work' = work, op' = op,
         expected' = expected, memory' = memory,
         \A d \in Calls : d # c => pc'[d] = pc[d],
         Grows
  PROVE  IInv'
<1>1. /\ Good(work[c])
      /\ \A d \in Calls : d # c /\ Unspent(d) => NotBy(work[c], d)
  BY DEF IInv, Writing
<1>2. Fades
  BY DEF Fades, Unspent
<1>3. ~Unspent(c)'
  BY DEF Unspent
<1>4. order' # NoOrder /\ work[c] \in Order
  BY <1>1, NoOrderAssumption DEF Good
<1>5. RecordIsGood'
  <2>1. Good(order)'
    BY <1>1 DEF Good, Consistent, Whole, Distinct
  <2>2. \A d \in Calls : Unspent(d)' => NotBy(order, d)'
    BY <1>1, <1>2, <1>3 DEF Fades, NotBy
  <2>3. QED BY <2>1, <2>2 DEF RecordIsGood
<1>6. ASSUME NEW h \in Hosts PROVE MemoryIsFresh(h)'
  BY <1>4 DEF MemoryIsFresh
<1>7. CallIsSound(c)'
  <2>1. /\ IsPrefix(work[c].events, work[c].events)
        /\ IsPrefix(work[c].fills, work[c].fills)
    BY <1>4, Fields, PrefixSame
  <2>2. QED BY <1>4, <2>1 DEF CallIsSound, Reading, Writing, Written
<1>8. ASSUME NEW d \in Calls, d # c PROVE CallIsSound(d)'
  BY <1>2, <1>8, OthersStaySound DEF SameCall
<1>9. QED BY <1>5, <1>6, <1>7, <1>8 DEF IInv, CallIsSound

\* A read of the row begins, or submit makes the order.
LEMMA ReadHeaderStep ==
  ASSUME IInv, TypeOK', NEW c \in Calls, ReadHeader(c)
  PROVE  IInv'
<1>1. /\ TypeOK /\ RecordIsGood /\ pc \in [Calls -> Points] /\ pc[c] = "header"
      /\ order' = order /\ op' = op
      /\ work \in [Calls -> Order \cup {NoOrder}] /\ expected \in [Calls -> Nat]
      /\ {"events", "persist", "failed"} \subseteq Points
  BY DEF IInv, TypeOK, ReadHeader, Points, Busy
<1>2. CASE order # NoOrder
  <2> DEFINE w == [order EXCEPT !.events = <<>>, !.fills = <<>>]
  <2>1. /\ work' = [work EXCEPT ![c] = w] /\ Goto(c, "events")
        /\ memory' = memory /\ expected' = expected
    BY <1>2 DEF ReadHeader
  <2>2. pc'[c] = "events" /\ \A d \in Calls : d # c => SameCall(d)
    BY <1>1, <2>1, GotoMoves DEF SameCall
  <2>3. Unspent(c)' => Unspent(c)
    BY <1>1, <2>2 DEF Unspent
  <2>4. CallIsSound(c)'
    <3>1. Good(order) /\ order \in Order
      BY <1>1, <1>2 DEF RecordIsGood, TypeOK
    <3>2. w \in Order /\ w.status = order.status /\ w.filled = order.filled
      BY <3>1, HeaderIs
    <3>3. work'[c] = w
      BY <1>1, <2>1
    <3> HIDE DEF w
    <3>4. Whole(w) /\ w.status \in Settled
      BY <3>1, <3>2 DEF Good, Whole
    <3>5. QED BY <1>1, <1>2, <2>2, <3>2, <3>3, <3>4
              DEF CallIsSound, Reading, Writing, Written, Whole
  <2>5. QED BY <1>1, <2>1, <2>2, <2>3, <2>4, QuietStep
<1>3. CASE order = NoOrder /\ op[c].kind = "submit"
  <2> DEFINE h == HostOf[c]
  <2>1. PICK o \in Submitted(c) :
          /\ memory' = [memory EXCEPT ![h] = o]
          /\ work' = [work EXCEPT ![c] = o]
    BY <1>3 DEF ReadHeader
  <2>2. expected' = [expected EXCEPT ![c] = 0] /\ Goto(c, "persist")
    BY <1>3 DEF ReadHeader
  <2>3. /\ pc'[c] = "persist" /\ expected'[c] = 0 /\ work'[c] = o
        /\ \A d \in Calls : d # c => SameCall(d)
    BY <1>1, <2>1, <2>2, GotoMoves DEF SameCall
  <2>4. ~Unspent(c)' /\ Fades
    BY <1>1, <1>3, <2>3 DEF Unspent, Fades, SameCall, Mutations
  <2>5. h \in Hosts /\ memory \in [Hosts -> Order \cup {NoOrder}]
    BY <1>1, PaperAssumption DEF TypeOK
  <2>6. Fresh(o) /\ \A d \in Calls : Unspent(d)' => NotBy(o, d)
    <3>1. CASE memory[h] = NoOrder
      <4>1. Fresh(o) /\ \A i \in 1..Len(o.fills) : o.fills[i].by = c
        BY <1>1, <3>1, SubmittedIs
      <4>2. QED BY <2>4, <4>1 DEF NotBy
    <3>2. CASE memory[h] # NoOrder
      <4>1. o = memory[h]
        BY <2>1, <3>2 DEF Submitted
      <4>2. MemoryIsFresh(h)
        BY <2>5 DEF IInv
      <4>3. QED BY <1>3, <2>4, <3>2, <4>1, <4>2 DEF MemoryIsFresh, Fades
    <3>3. QED BY <3>1, <3>2
  <2>7. CallIsSound(c)'
    <3>1. Fresh(work[c])' /\ Good(work[c])'
      BY <2>3, <2>6 DEF Fresh, Good, Consistent, Whole, Distinct
    <3>2. \A d \in Calls : Unspent(d)' => NotBy(work[c], d)'
      BY <2>3, <2>6 DEF NotBy
    <3>3. QED BY <1>1, <1>3, <2>3, <3>1, <3>2
              DEF CallIsSound, Reading, Writing, Written
  <2>8. ASSUME NEW g \in Hosts PROVE MemoryIsFresh(g)'
    <3>1. CASE g = h
      <4>1. memory'[g] = o
        BY <2>1, <2>5, <3>1
      <4>2. Fresh(memory[g])' /\ \A d \in Calls : Unspent(d)' => NotBy(memory[g], d)'
        BY <2>6, <4>1 DEF Fresh, Good, Consistent, Whole, Distinct, NotBy
      <4>3. QED BY <4>2 DEF MemoryIsFresh
    <3>2. CASE g # h
      <4>1. memory'[g] = memory[g]
        BY <2>1, <2>5, <3>2
      <4>2. QED BY <1>1, <2>4, <4>1, MemoryKept
    <3>3. QED BY <3>1, <3>2
  <2>9. \A d \in Calls : d # c => CallIsSound(d)'
    <3>1. Grows
      BY <1>3 DEF Grows
    <3>2. QED BY <2>3, <2>4, <3>1, OthersStaySound
  <2>10. RecordIsGood'
    BY <1>1, <2>4, RecordKept
  <2>11. QED BY <2>7, <2>8, <2>9, <2>10 DEF IInv, CallIsSound
<1>4. CASE order = NoOrder /\ op[c].kind # "submit"
  <2>1. Goto(c, "failed") /\ memory' = memory /\ work' = work /\ expected' = expected
    BY <1>4 DEF ReadHeader
  <2>2. pc'[c] = "failed" /\ \A d \in Calls : d # c => SameCall(d)
    BY <1>1, <2>1, GotoMoves DEF SameCall
  <2>3. Unspent(c)' => Unspent(c)
    BY <2>2 DEF Unspent
  <2>4. QED BY <1>1, <2>1, <2>2, <2>3, CallLeaves, QuietStep
<1>5. QED BY <1>2, <1>3, <1>4

\* The second statement of a read.
LEMMA ReadEventsStep ==
  ASSUME IInv, TypeOK', NEW c \in Calls, ReadEvents(c)
  PROVE  IInv'
<1> DEFINE w == [work[c] EXCEPT !.events = order.events]
<1>1. /\ TypeOK /\ Reading(c) /\ pc \in [Calls -> Points] /\ pc[c] = "events"
      /\ order' = order /\ memory' = memory /\ op' = op /\ expected' = expected
      /\ work' = [work EXCEPT ![c] = w] /\ Goto(c, "fills") /\ "fills" \in Points
      /\ work \in [Calls -> Order \cup {NoOrder}]
  BY DEF IInv, TypeOK, ReadEvents, Points, Busy
<1>2. /\ pc'[c] = "fills" /\ work'[c] = w
      /\ \A d \in Calls : d # c => SameCall(d)
  BY <1>1, GotoMoves DEF SameCall
<1>3. /\ order \in Order /\ order # NoOrder /\ work[c] \in Order
      /\ Whole(work[c]) /\ work[c].status \in Settled
  BY <1>1 DEF Reading, TypeOK
<1>4. /\ w \in Order /\ w.status = work[c].status /\ w.filled = work[c].filled
      /\ w.events = order.events
  BY <1>3, PartsAre
<1>5. IsPrefix(w.events, order.events)
  BY <1>3, <1>4, Fields, PrefixSame
<1> HIDE DEF w
<1>6. CallIsSound(c)'
  BY <1>1, <1>2, <1>3, <1>4, <1>5 DEF CallIsSound, Reading, Writing, Written, Whole
<1>7. Unspent(c)' => Unspent(c)
  BY <1>1, <1>2 DEF Unspent
<1>8. QED BY <1>1, <1>2, <1>6, <1>7, QuietStep

\* The third.
LEMMA ReadFillsStep ==
  ASSUME IInv, TypeOK', NEW c \in Calls, ReadFills(c)
  PROVE  IInv'
<1> DEFINE w == [work[c] EXCEPT !.fills = order.fills]
<1>1. /\ TypeOK /\ Reading(c) /\ pc \in [Calls -> Points] /\ pc[c] = "fills"
      /\ order' = order /\ memory' = memory /\ op' = op /\ expected' = expected
      /\ work' = [work EXCEPT ![c] = w] /\ Goto(c, "loaded") /\ "loaded" \in Points
      /\ work \in [Calls -> Order \cup {NoOrder}]
  BY DEF IInv, TypeOK, ReadFills, Points, Busy
<1>2. /\ pc'[c] = "loaded" /\ work'[c] = w
      /\ \A d \in Calls : d # c => SameCall(d)
  BY <1>1, GotoMoves DEF SameCall
<1>3. /\ order \in Order /\ order # NoOrder /\ work[c] \in Order
      /\ Whole(work[c]) /\ work[c].status \in Settled
      /\ IsPrefix(work[c].events, order.events)
  BY <1>1 DEF Reading, TypeOK
<1>4. /\ w \in Order /\ w.status = work[c].status /\ w.filled = work[c].filled
      /\ w.events = work[c].events /\ w.fills = order.fills
  BY <1>3, PartsAre
<1>5. IsPrefix(w.fills, order.fills) /\ IsPrefix(w.events, order.events)
  BY <1>3, <1>4, Fields, PrefixSame
<1> HIDE DEF w
<1>6. CallIsSound(c)'
  BY <1>1, <1>2, <1>3, <1>4, <1>5 DEF CallIsSound, Reading, Writing, Written, Whole
<1>7. Unspent(c)' => Unspent(c)
  BY <1>1, <1>2 DEF Unspent
<1>8. QED BY <1>1, <1>2, <1>6, <1>7, QuietStep

\* submit and get return what they have read.
LEMMA RestoreStep ==
  ASSUME IInv, TypeOK', NEW c \in Calls, Restore(c)
  PROVE  IInv'
<1>1. /\ TypeOK /\ Reading(c) /\ pc \in [Calls -> Points] /\ pc[c] = "loaded"
      /\ order' = order /\ op' = op /\ expected' = expected /\ work' = work
      /\ Goto(c, "returned") \/ Goto(c, "conflict")
      /\ {"returned", "conflict"} \subseteq Points
  BY DEF IInv, TypeOK, Restore, Points, Busy
<1>2. /\ pc'[c] \in {"returned", "conflict"}
      /\ \A d \in Calls : d # c => SameCall(d)
  BY <1>1, GotoMoves DEF SameCall
<1>3. /\ order # NoOrder /\ work[c] \in Order
      /\ IsPrefix(work[c].events, order.events) /\ IsPrefix(work[c].fills, order.fills)
  BY <1>1 DEF Reading
<1>4. CallIsSound(c)'
  BY <1>1, <1>2, <1>3 DEF CallIsSound, Reading, Writing, Written
<1>5. Unspent(c)' => Unspent(c)
  BY <1>2 DEF Unspent
<1>6. QED BY <1>1, <1>2, <1>3, <1>4, <1>5, QuietStep

\* What a mutation makes of a part of the record, and _validate lets pass, is
\* sound: the fill it may add is the only one that bears its mark.
LEMMA MutatedIsGood ==
  ASSUME TypeOK, Good(order), NEW c \in Calls,
         \A d \in Calls : Unspent(d) => NotBy(order, d), Unspent(c),
         NEW w \in Order, Whole(w), w.status \in Settled,
         IsPrefix(w.fills, order.fills),
         NEW o \in Mutated(w, c), Consistent(o)
  PROVE  /\ Good(o)
         /\ \A d \in Calls : d # c /\ Unspent(d) => NotBy(o, d)
         /\ \/ Unchanged(o, Len(w.events))
            \/ OneMoreFill(o, Len(w.events), c)
            \/ TheEnd(o, Len(w.events))
<1>1. /\ o \in Order /\ Whole(o) /\ o.status \in Settled
      /\ o = w \/ (\E v \in 1..Volume : FilledBy(o, w, v, c)) \/ EndOf(o, w)
  BY MutatedIs
<1>2. /\ order \in Order
      /\ w.fills \in Seq(Execution) /\ order.fills \in Seq(Execution)
      /\ Len(w.fills) \in Nat /\ Len(order.fills) \in Nat
      /\ w.events \in Seq(Event) /\ Len(w.events) \in Nat
  BY Fields DEF Good
<1>3. /\ Len(w.fills) <= Len(order.fills)
      /\ \A i \in 1..Len(w.fills) : w.fills[i] = order.fills[i]
  BY <1>2, PrefixIs
<1>4. /\ Distinct(w)
      /\ \A d \in Calls : Unspent(d) => NotBy(w, d)
  <2>1. \A i \in 1..Len(w.fills) : i \in 1..Len(order.fills) /\ w.fills[i] = order.fills[i]
    BY <1>2, <1>3
  <2>2. Distinct(w)
    <3>1. Distinct(order)
      BY DEF Good
    <3>2. QED BY <2>1, <3>1 DEF Distinct
  <2>3. ASSUME NEW d \in Calls, Unspent(d) PROVE NotBy(w, d)
    <3>1. NotBy(order, d)
      BY <2>3
    <3>2. QED BY <2>1, <3>1 DEF NotBy
  <2>4. QED BY <2>2, <2>3
<1>5. CASE o.fills = w.fills /\ (o = w \/ EndOf(o, w))
  <2>1. Distinct(o) /\ \A d \in Calls : Unspent(d) => NotBy(o, d)
    BY <1>4, <1>5 DEF Distinct, NotBy
  <2>2. Unchanged(o, Len(w.events)) \/ TheEnd(o, Len(w.events))
    BY <1>5 DEF Unchanged, TheEnd, EndOf
  <2>3. QED BY <1>1, <2>1, <2>2 DEF Good
<1>6. ASSUME NEW v \in 1..Volume, FilledBy(o, w, v, c)
      PROVE  /\ Distinct(o)
             /\ \A d \in Calls : d # c /\ Unspent(d) => NotBy(o, d)
             /\ OneMoreFill(o, Len(w.events), c)
  <2> DEFINE e == [volume |-> v, by |-> c]
             a == [status |-> o.status, by |-> c]
             n == Len(w.fills)
  <2>1. /\ o.fills = Append(w.fills, e) /\ o.events = Append(w.events, a)
        /\ o.status \in {"partial", "filled"} /\ e \in Execution /\ a \in Event
    BY <1>1, <1>6, Fields DEF FilledBy, Execution, Event
  <2>2. /\ Len(o.fills) = n + 1 /\ o.fills[n + 1] = e
        /\ \A i \in 1..n : o.fills[i] = w.fills[i]
        /\ Last(o.fills) = e
    BY <1>2, <2>1, Appended
  <2>3. Len(o.events) = Len(w.events) + 1 /\ o.events[Len(w.events) + 1] = a
    BY <1>2, <2>1, Appended
  <2>4. e.by = c /\ a.status = o.status /\ n \in Nat
    BY <1>2
  <2>5. NotBy(w, c)
    BY <1>4
  <2> HIDE DEF e, a
  <2>6. Distinct(o)
    <3> SUFFICES ASSUME NEW i \in 1..(n + 1), NEW j \in 1..(n + 1),
                        o.fills[i].by = o.fills[j].by
                 PROVE  i = j
      BY <2>2 DEF Distinct
    <3>1. CASE i \in 1..n /\ j \in 1..n
      BY <1>4, <2>2, <3>1 DEF Distinct
    <3>2. CASE i = n + 1 /\ j \in 1..n
      BY <2>2, <2>4, <2>5, <3>2 DEF NotBy
    <3>3. CASE i \in 1..n /\ j = n + 1
      BY <2>2, <2>4, <2>5, <3>3 DEF NotBy
    <3>4. QED BY <2>4, <3>1, <3>2, <3>3
  <2>7. ASSUME NEW d \in Calls, d # c, Unspent(d) PROVE NotBy(o, d)
    <3>1. NotBy(w, d)
      BY <1>4, <2>7
    <3>2. QED BY <2>2, <2>4, <2>7, <3>1 DEF NotBy
  <2>8. OneMoreFill(o, Len(w.events), c)
    BY <1>2, <1>3, <2>1, <2>2, <2>3, <2>4 DEF OneMoreFill
  <2>9. QED BY <2>6, <2>7, <2>8
<1>7. QED BY <1>1, <1>5, <1>6 DEF EndOf, Good

\* A mutation works on what it has read.
LEMMA MutateStep ==
  ASSUME IInv, TypeOK', NEW c \in Calls, Mutate(c)
  PROVE  IInv'
<1> DEFINE w == work[c]
           h == HostOf[c]
<1>1. /\ TypeOK /\ RecordIsGood /\ Reading(c) /\ pc \in [Calls -> Points]
      /\ pc[c] = "loaded" /\ op[c].kind \in Mutations
      /\ order' = order /\ op' = op
      /\ work \in [Calls -> Order \cup {NoOrder}] /\ expected \in [Calls -> Nat]
      /\ expected' = [expected EXCEPT ![c] = Len(w.events)]
      /\ {"persist", "failed"} \subseteq Points
  BY DEF IInv, TypeOK, Mutate, Points, Busy
<1>2. /\ order # NoOrder /\ w \in Order /\ Whole(w) /\ w.status \in Settled
      /\ IsPrefix(w.events, order.events) /\ IsPrefix(w.fills, order.fills)
  BY <1>1 DEF Reading
<1>3. Unspent(c)
  BY <1>1 DEF Unspent
<1>4. CASE Goto(c, "failed") /\ work' = work
  <2>1. pc'[c] = "failed" /\ \A d \in Calls : d # c => SameCall(d)
    BY <1>1, <1>4, GotoMoves DEF SameCall
  <2>2. QED BY <1>1, <1>2, <1>3, <2>1, CallLeaves, QuietStep
<1>5. ASSUME NEW o \in Mutated(w, c), work' = [work EXCEPT ![c] = o],
             Goto(c, IF Consistent(o) THEN "persist" ELSE "failed")
      PROVE  IInv'
  <2>1. /\ pc'[c] = (IF Consistent(o) THEN "persist" ELSE "failed")
        /\ work'[c] = o /\ expected'[c] = Len(w.events)
        /\ \A d \in Calls : d # c => SameCall(d)
    BY <1>1, <1>5, GotoMoves DEF SameCall
  <2>2. CASE ~Consistent(o)
    BY <1>1, <1>2, <1>3, <2>1, <2>2, CallLeaves, QuietStep
  <2>3. CASE Consistent(o)
    <3> DEFINE k == Len(w.events)
    <3>1. /\ Good(o)
          /\ \A d \in Calls : d # c /\ Unspent(d) => NotBy(o, d)
          /\ Unchanged(o, k) \/ OneMoreFill(o, k, c) \/ TheEnd(o, k)
      BY <1>1, <1>2, <1>3, <2>3, MutatedIsGood DEF RecordIsGood
    <3> HIDE DEF k, w
    <3>2. /\ Good(work[c])'
          /\ \A d \in Calls : d # c /\ Unspent(d) => NotBy(work[c], d)'
      BY <2>1, <3>1 DEF Good, Consistent, Whole, Distinct, NotBy
    <3>3. \/ Unchanged(work[c], expected[c])'
          \/ OneMoreFill(work[c], expected[c], c)'
          \/ TheEnd(work[c], expected[c])'
      BY <1>1, <2>1, <3>1 DEF Unchanged, OneMoreFill, TheEnd, k
    <3>4. \A d \in Calls : d # c /\ Unspent(d)' => NotBy(work[c], d)'
      BY <2>1, <3>2 DEF SameCall, Unspent
    <3>5. pc'[c] = "persist" /\ op'[c].kind \in Mutations /\ op'[c].kind # "submit"
          /\ order' # NoOrder
      BY <1>1, <1>2, <2>1, <2>3 DEF Mutations
    <3>6. CallIsSound(c)'
      BY <3>2, <3>3, <3>4, <3>5 DEF CallIsSound, Reading, Writing, Written
    <3>7. QED BY <1>1, <1>2, <1>3, <2>1, <3>6, QuietStep
  <2>4. QED BY <2>2, <2>3
<1>6. QED BY <1>4, <1>5 DEF Mutate

\* The transaction of persist: nothing to insert yet, the same order again, the
\* append, or a stale sequence.
LEMMA PersistStep ==
  ASSUME IInv, TypeOK', NEW c \in Calls, Persist(c)
  PROVE  IInv'
<1>1. /\ TypeOK /\ Writing(c) /\ pc \in [Calls -> Points] /\ pc[c] = "persist"
      /\ memory' = memory /\ op' = op /\ work' = work /\ expected' = expected
      /\ {"insert", "returned", "committed", "failed", "header", "unresolved"} \subseteq Points
  BY DEF IInv, TypeOK, Persist, Points, Busy
<1>2. /\ Good(work[c]) /\ work[c] \in Order /\ work[c] # NoOrder
      /\ \A d \in Calls : d # c /\ Unspent(d) => NotBy(work[c], d)
      /\ op[c].kind = "submit" => Fresh(work[c]) /\ expected[c] = 0
      /\ op[c].kind # "submit" => op[c].kind \in Mutations /\ order # NoOrder
  BY <1>1, NoOrderAssumption DEF Writing, Good
<1>3. ASSUME NEW x \in {"insert", "returned", "committed", "failed", "header", "unresolved"},
             Goto(c, x)
      PROVE  pc'[c] = x /\ \A d \in Calls : d # c => SameCall(d)
  BY <1>1, <1>3, GotoMoves DEF SameCall
<1>4. CASE order = NoOrder /\ Goto(c, "insert") /\ order' = order
  <2>1. pc'[c] = "insert" /\ \A d \in Calls : d # c => SameCall(d)
    BY <1>3, <1>4
  <2>2. op[c].kind = "submit"
    BY <1>2, <1>4
  <2>3. Fades /\ ~Unspent(c)'
    BY <2>1, <2>2, <1>1 DEF Fades, SameCall, Unspent, Mutations
  <2>4. CallIsSound(c)'
    <3>1. Fresh(work[c])' /\ Good(work[c])' /\ expected'[c] = 0
      BY <1>1, <1>2, <2>2 DEF Fresh, Good, Consistent, Whole, Distinct
    <3>2. \A d \in Calls : d # c /\ Unspent(d)' => NotBy(work[c], d)'
      BY <1>1, <1>2, <2>3 DEF Fades, NotBy
    <3>3. QED BY <1>1, <2>1, <2>2, <3>1, <3>2 DEF CallIsSound, Reading, Writing, Written
  <2>5. QED BY <1>1, <1>4, <2>1, <2>3, <2>4, QuietStep
<1>5. CASE order = work[c] /\ Goto(c, "returned") /\ order' = order
  <2>1. pc'[c] = "returned" /\ \A d \in Calls : d # c => SameCall(d)
    BY <1>3, <1>5
  <2>2. Unspent(c)' => Unspent(c)
    BY <2>1 DEF Unspent
  <2>3. IsPrefix(work[c].events, order.events) /\ IsPrefix(work[c].fills, order.fills)
    BY <1>2, <1>5, Fields, PrefixSame
  <2>4. CallIsSound(c)'
    BY <1>1, <1>2, <1>5, <2>1, <2>3 DEF CallIsSound, Reading, Writing, Written
  <2>5. QED BY <1>1, <1>5, <2>1, <2>2, <2>4, QuietStep
<1>6. CASE /\ order \notin {NoOrder, work[c]} /\ Replaces(work[c], order, expected[c])
           /\ order' = work[c] /\ Goto(c, "committed")
  <2>1. Grows
    BY <1>2, <1>6 DEF Grows, Replaces
  <2>2. QED BY <1>1, <1>3, <1>6, <2>1, WriteStep DEF SameCall
<1>7. CASE /\ order \notin {NoOrder, work[c]} /\ order' = order /\ Stale(c)
  <2>1. \E x \in {"failed", "header", "unresolved"} : Goto(c, x)
    BY <1>7 DEF Stale
  <2>2. /\ pc'[c] \in {"failed", "header", "unresolved"}
        /\ \A d \in Calls : d # c => SameCall(d)
    BY <1>3, <2>1
  <2>3. Unspent(c)' => Unspent(c)
    BY <1>1, <2>2 DEF Unspent
  <2>4. CallIsSound(c)'
    BY <2>2, CallLeaves
  <2>5. QED BY <1>1, <1>7, <2>2, <2>3, <2>4, QuietStep
<1>8. QED BY <1>4, <1>5, <1>6, <1>7 DEF Persist

\* The insert of the row, or the conflict with a row inserted meanwhile.
LEMMA InsertStep ==
  ASSUME IInv, TypeOK', NEW c \in Calls, Insert(c)
  PROVE  IInv'
<1>1. /\ TypeOK /\ Writing(c) /\ pc \in [Calls -> Points] /\ pc[c] = "insert"
      /\ memory' = memory /\ op' = op /\ work' = work /\ expected' = expected
      /\ {"committed", "header"} \subseteq Points
  BY DEF IInv, TypeOK, Insert, Points, Busy
<1>2. op[c].kind = "submit"
  BY <1>1 DEF Writing
<1>3. CASE order = NoOrder /\ order' = work[c] /\ Goto(c, "committed")
  <2>1. Grows
    BY <1>3 DEF Grows
  <2>2. pc'[c] = "committed" /\ \A d \in Calls : d # c => pc'[d] = pc[d]
    BY <1>1, <1>3, GotoMoves
  <2>3. QED BY <1>1, <1>3, <2>1, <2>2, WriteStep
<1>4. CASE order # NoOrder /\ order' = order /\ Goto(c, "header")
  <2>1. pc'[c] = "header" /\ \A d \in Calls : d # c => SameCall(d)
    BY <1>1, <1>4, GotoMoves DEF SameCall
  <2>2. ~Unspent(c)'
    BY <1>1, <1>2, <2>1 DEF Unspent, Mutations
  <2>3. CallIsSound(c)'
    BY <2>1, CallLeaves
  <2>4. QED BY <1>1, <1>4, <2>1, <2>2, <2>3, QuietStep
<1>5. QED BY <1>3, <1>4 DEF Insert

\* The invariant holds at first and is kept by every step.
THEOREM Invariant == Spec => []IInv
<1>1. Init => IInv
  <2> SUFFICES ASSUME Init PROVE IInv
    OBVIOUS
  <2>1. TypeOK
    <3>1. [kind |-> "get", available |-> 0] \in [kind : Kinds, available : 0..Volume]
      BY PaperAssumption DEF Kinds
    <3>2. QED BY <3>1 DEF Init, TypeOK
  <2>2. QED BY <2>1 DEF Init, IInv, RecordIsGood, MemoryIsFresh, Reading, Writing, Written
<1>2. IInv /\ [Next]_vars => IInv'
  <2> SUFFICES ASSUME IInv, [Next]_vars PROVE IInv'
    OBVIOUS
  <2>1. TypeOK /\ TypeOK' /\ pc \in [Calls -> Points]
    BY TypeStep DEF IInv, TypeOK, Points
  <2>2. ASSUME NEW c \in Calls, Start(c) PROVE IInv'
    <3>1. /\ order' = order /\ memory' = memory /\ work' = work /\ expected' = expected
          /\ pc[c] = "idle" /\ Goto(c, "header") /\ "header" \in Points
          /\ \A d \in Calls : d # c => op'[d] = op[d]
      BY <2>1, <2>2 DEF Start, TypeOK, Points, Busy
    <3>2. pc'[c] = "header" /\ \A d \in Calls : d # c => SameCall(d)
      BY <2>1, <3>1, GotoMoves DEF SameCall
    <3>3. Unspent(c)
      BY <3>1 DEF Unspent
    <3>4. QED BY <2>1, <3>1, <3>2, <3>3, CallLeaves, QuietStep
  <2>3. ASSUME NEW c \in Calls, Return(c) PROVE IInv'
    <3>1. /\ order' = order /\ memory' = memory /\ work' = work /\ expected' = expected
          /\ op' = op /\ pc[c] = "committed" /\ Goto(c, "returned") /\ "returned" \in Points
          /\ Written(c)
      BY <2>3 DEF IInv, Return, Points
    <3>2. pc'[c] = "returned" /\ \A d \in Calls : d # c => SameCall(d)
      BY <2>1, <3>1, GotoMoves DEF SameCall
    <3>3. ~Unspent(c)'
      BY <3>2 DEF Unspent
    <3>4. CallIsSound(c)'
      BY <3>1, <3>2 DEF CallIsSound, Reading, Writing, Written
    <3>5. QED BY <2>1, <3>1, <3>2, <3>3, <3>4, QuietStep
  <2>4. ASSUME NEW c \in Calls, Raise(c) PROVE IInv'
    <3>1. /\ order' = order /\ memory' = memory /\ work' = work /\ expected' = expected
          /\ op' = op /\ Goto(c, "failed") /\ "failed" \in Points
      BY <2>4 DEF Raise, Points
    <3>2. pc'[c] = "failed" /\ \A d \in Calls : d # c => SameCall(d)
      BY <2>1, <3>1, GotoMoves DEF SameCall
    <3>3. ~Unspent(c)'
      BY <3>2 DEF Unspent
    <3>4. QED BY <2>1, <3>1, <3>2, <3>3, CallLeaves, QuietStep
  <2>5. ASSUME NEW h \in Hosts, Crash(h) PROVE IInv'
    <3>1. /\ order' = order /\ work' = work /\ expected' = expected /\ op' = op
          /\ \A g \in Hosts : memory'[g] \in {memory[g], NoOrder}
          /\ \A d \in Calls : pc'[d] \in {pc[d], "crashed"}
      BY <2>1, <2>5 DEF Crash, TypeOK
    <3>2. Fades
      BY <3>1 DEF Fades, Unspent
    <3>3. Grows
      BY <2>1, <3>1, Fields, PrefixSame DEF Grows, TypeOK
    <3>4. ASSUME NEW d \in Calls PROVE CallIsSound(d)'
      <4>1. CASE pc'[d] = "crashed"
        BY <4>1, CallLeaves
      <4>2. CASE pc'[d] = pc[d]
        BY <3>1, <3>2, <3>3, <4>2, OthersStaySound DEF SameCall
      <4>3. QED BY <3>1, <4>1, <4>2
    <3>5. RecordIsGood' /\ \A g \in Hosts : MemoryIsFresh(g)'
      BY <3>1, <3>2, RecordKept, MemoryKept
    <3>6. QED BY <2>1, <3>4, <3>5 DEF IInv, CallIsSound
  <2>6. CASE UNCHANGED <<order, memory, pc, op, work, expected, tries>>
    <3>1. Fades /\ (\A d \in Calls : SameCall(d)) /\ order' = order /\ memory' = memory
      BY <2>6 DEF Fades, SameCall, Unspent
    <3>2. Grows
      BY <2>1, <3>1, Fields, PrefixSame DEF Grows, TypeOK
    <3>3. \A d \in Calls : CallIsSound(d)'
      BY <3>1, <3>2, OthersStaySound
    <3>4. RecordIsGood' /\ \A g \in Hosts : MemoryIsFresh(g)'
      BY <3>1, RecordKept, MemoryKept
    <3>5. QED BY <2>1, <3>3, <3>4 DEF IInv, CallIsSound
  <2>7. QED BY <2>1, <2>2, <2>3, <2>4, <2>5, <2>6, ReadHeaderStep, ReadEventsStep,
               ReadFillsStep, RestoreStep, MutateStep, PersistStep, InsertStep
            DEF Next, Step, Expires, vars
<1>3. QED BY <1>1, <1>2, PTL DEF Spec

\* Every variable keeps its type.
THEOREM TypeCorrect == Spec => []TypeOK
  BY Invariant, PTL DEF IInv

-----------------------------------------------------------------------------
(* The properties *)

\* What is on record tells one story, whatever mix of versions it was decided
\* on: its last event is its status, its fills add up to its filled volume, it
\* is filled exactly when its volume is, and its events follow the lifecycle
\* (_validate, order_repository.py).
THEOREM RecordStaysConsistent == Spec => []RecordIsConsistent
<1>1. IInv => RecordIsConsistent
  BY DEF IInv, RecordIsGood, Good, Consistent, Whole, RecordIsConsistent
<1>2. QED BY <1>1, Invariant, PTL

\* An order that a call of the adapter has returned, after its commit, after a
\* replay or from get, never turns out not to have happened.
THEOREM ReportsAreDurable == Spec => []ReportedIsDurable
<1>1. IInv => ReportedIsDurable
  BY DEF IInv, Written, ReportedIsDurable
<1>2. QED BY <1>1, Invariant, PTL

\* A call that reloads and tries again, or whose commit was lost, has at most
\* one fill on record.
THEOREM CallsFillOnce == Spec => []OneFillPerCall
<1>1. IInv => OneFillPerCall
  BY DEF IInv, RecordIsGood, Good, Distinct, OneFillPerCall
<1>2. QED BY <1>1, Invariant, PTL

\* Only two steps write the row: the append in persist, and the insert.
LEMMA Writes ==
  ASSUME IInv, [Next]_vars, order' # order
  PROVE  \E c \in Calls : order' = work[c] /\ (Persist(c) \/ Insert(c))
<1>1. \A c \in Calls : ~Start(c) /\ ~ReadHeader(c) /\ ~ReadEvents(c) /\ ~ReadFills(c)
                       /\ ~Restore(c) /\ ~Mutate(c) /\ ~Return(c) /\ ~Raise(c)
  BY DEF Start, ReadHeader, ReadEvents, ReadFills, Restore, Mutate, Return, Raise
<1>2. (\A h \in Hosts : ~Crash(h)) /\ ~Expires /\ ~UNCHANGED vars
  BY DEF Crash, Expires, vars
<1>3. PICK c \in Calls : Persist(c) \/ Insert(c)
  BY <1>1, <1>2 DEF Next, Step
<1>4. order' = work[c]
  BY <1>3 DEF Persist, Insert
<1>5. QED BY <1>3, <1>4

\* Nothing on record is rewritten: whoever persists an order extends what is
\* there (persist, order_repository.py).
THEOREM TheRecordOnlyGrows == Spec => RecordOnlyGrows
<1> DEFINE Kept == order # NoOrder =>
                     /\ IsPrefix(order.events, order'.events)
                     /\ IsPrefix(order.fills, order'.fills)
<1>1. IInv /\ [Next]_vars => Kept
  <2> SUFFICES ASSUME IInv, [Next]_vars, order # NoOrder
               PROVE  /\ IsPrefix(order.events, order'.events)
                      /\ IsPrefix(order.fills, order'.fills)
    OBVIOUS
  <2>1. CASE order' = order
    <3>1. order \in Order
      BY DEF IInv, TypeOK
    <3>2. QED BY <2>1, <3>1, Fields, PrefixSame
  <2>2. CASE order' # order
    BY <2>2, Writes DEF Persist, Insert, Replaces
  <2>3. QED BY <2>1, <2>2
<1>2. QED BY <1>1, Invariant, PTL DEF Spec, RecordOnlyGrows

\* One append of a call is one fill or the end of the order on record.
LEMMA AppendIsOneOperation ==
  ASSUME IInv, NEW c \in Calls, pc[c] = "persist", order # NoOrder,
         Replaces(work[c], order, expected[c])
  PROVE  /\ order \in Order /\ Good(order) /\ Good(work[c])
         /\ order.status \in {"accepted", "partial"}
         /\ \/ /\ work[c].status \in {"partial", "filled"}
               /\ work[c].filled \in (order.filled + 1)..Volume
            \/ /\ work[c].status \in {"cancelled", "expired"}
               /\ work[c].filled = order.filled
<1> DEFINE w == work[c]
           k == Len(order.events)
<1>1. /\ Good(order) /\ Good(w) /\ order \in Order /\ w \in Order /\ expected[c] = k
      /\ Len(w.events) > k
      /\ IsPrefix(order.events, w.events) /\ IsPrefix(order.fills, w.fills)
      /\ op[c].kind = "submit" => k = 0
      /\ op[c].kind # "submit" =>
           /\ op[c].kind \in Mutations
           /\ Unchanged(w, k) \/ OneMoreFill(w, k, c) \/ TheEnd(w, k)
  BY DEF IInv, RecordIsGood, Writing, Replaces, Good
<1>2. /\ order.events \in Seq(Event) /\ w.events \in Seq(Event)
      /\ order.fills \in Seq(Execution) /\ w.fills \in Seq(Execution)
      /\ k \in Nat /\ Len(w.events) \in Nat
      /\ Len(order.fills) \in Nat /\ Len(w.fills) \in Nat
  BY <1>1, Fields
<1>3. k # 0 /\ order.events[k].status = order.status
  <2>1. order.events # <<>> /\ Last(order.events).status = order.status
    BY <1>1 DEF Good, Consistent
  <2>2. QED BY <1>2, <2>1, EmptySeq DEF Last
<1>4. NotBy(order, c)
  <2>1. Unspent(c)
    BY <1>1, <1>3 DEF Unspent
  <2>2. QED BY <2>1 DEF IInv, RecordIsGood
<1>5. w.events[k + 1].status \in Transitions[order.status]
  <2>1. w.events[k] = order.events[k]
    <3>1. \A i \in 1..k : order.events[i] = w.events[i]
      BY <1>1, <1>2, PrefixIs
    <3>2. QED BY <1>2, <1>3, <3>1
  <2>2. w.events[k + 1].status \in Transitions[w.events[(k + 1) - 1].status]
    <3>1. k + 1 \in 2..Len(w.events)
      BY <1>1, <1>2, <1>3
    <3>2. \A i \in 2..Len(w.events) :
             w.events[i].status \in Transitions[w.events[i - 1].status]
      BY <1>1 DEF Good, Consistent
    <3> HIDE DEF w, k
    <3>3. QED BY <3>1, <3>2
  <2>3. (k + 1) - 1 = k
    BY <1>2
  <2>4. QED BY <1>3, <2>1, <2>2, <2>3
<1>6. order.status \in {"accepted", "partial"}
  <2>1. w.events[k + 1].status \in {"partial", "filled", "cancel_pending", "expired"}
    <3>1. OneMoreFill(w, k, c) \/ TheEnd(w, k)
      BY <1>1, <1>2, <1>3 DEF Unchanged
    <3>2. QED BY <3>1 DEF OneMoreFill, TheEnd
  <2>2. order.status \in Settled
    BY <1>1 DEF Good
  <2>3. QED BY <1>5, <2>1, <2>2, Table DEF Settled
<1>7. CASE OneMoreFill(w, k, c)
  <2> DEFINE n == Len(order.fills)
             e == w.fills[n + 1]
  <2>1. Len(w.fills) = n + 1
    <3>1. n <= Len(w.fills) /\ \A i \in 1..n : order.fills[i] = w.fills[i]
      BY <1>1, <1>2, PrefixIs
    <3>2. Len(w.fills) - 1 <= n
      <4>1. Len(w.fills) > 0
            /\ \A i \in 1..(Len(w.fills) - 1) : i \in 1..Len(order.fills)
        BY <1>7 DEF OneMoreFill
      <4>2. CASE Len(w.fills) = 1
        BY <1>2, <4>2
      <4>3. CASE Len(w.fills) > 1
        <5>1. Len(w.fills) - 1 \in 1..(Len(w.fills) - 1)
          BY <1>2, <4>3
        <5>2. QED BY <4>1, <5>1
      <4>4. QED BY <1>2, <4>1, <4>2, <4>3
    <3>3. Len(w.fills) # n
      <4> SUFFICES ASSUME Len(w.fills) = n PROVE FALSE
        OBVIOUS
      <4>1. Len(w.fills) > 0 /\ w.fills[Len(w.fills)].by = c
        BY <1>7 DEF OneMoreFill, Last
      <4>2. n \in 1..n /\ order.fills[n].by = c
        BY <1>2, <3>1, <4>1
      <4>3. QED BY <1>4, <4>2 DEF NotBy
    <3>4. QED BY <1>2, <3>1, <3>2, <3>3
  <2>2. e \in Execution
    BY <1>2, <2>1, ElementOfSeq
  <2>3. w.fills = Append(order.fills, e)
    <3>1. /\ Append(order.fills, e) \in Seq(Execution)
          /\ Len(Append(order.fills, e)) = n + 1
          /\ \A i \in 1..n : Append(order.fills, e)[i] = order.fills[i]
          /\ Append(order.fills, e)[n + 1] = e
      BY <1>2, <2>2, Appended
    <3>2. \A i \in 1..n : order.fills[i] = w.fills[i]
      BY <1>1, <1>2, PrefixIs
    <3>3. \A i \in 1..(n + 1) : Append(order.fills, e)[i] = w.fills[i]
      BY <1>2, <3>1, <3>2
    <3>4. QED BY <1>2, <2>1, <3>1, <3>3, SeqEqual
  <2>4. Total(w.fills) = Total(order.fills) + e.volume
    BY <1>2, <2>2, <2>3, TotalOfAppend
  <2>5. w.filled = order.filled + e.volume /\ w.filled <= Volume
    BY <1>1, <2>4 DEF Good, Consistent
  <2>6. e.volume \in 1..Volume /\ order.filled \in 0..Volume /\ Volume \in Nat
    BY <1>1, <2>2, PaperAssumption, Fields DEF Execution
  <2>7. QED BY <1>1, <1>6, <1>7, <2>5, <2>6 DEF OneMoreFill
<1>8. CASE TheEnd(w, k)
  <2>1. w.fills = order.fills
    BY <1>1, <1>2, <1>8, PrefixBothWays DEF TheEnd
  <2>2. w.filled = order.filled
    BY <1>1, <2>1 DEF Good, Consistent
  <2>3. QED BY <1>1, <1>6, <1>8, <2>2 DEF TheEnd
<1>9. QED BY <1>1, <1>2, <1>3, <1>7, <1>8 DEF Unchanged

\* All hosts together work the order as one adapter without concurrency would:
\* the insert is a whole submit, an append a whole fill, cancellation or expiry,
\* and everything else is invisible.
THEOREM ImplementationOfLifecycle == Spec => ImplementsLifecycle
<1> DEFINE status == IF order = NoOrder THEN "none" ELSE order.status
           filled == IF order = NoOrder THEN 0 ELSE order.filled
<1>1. Init => Lifecycle!Init
  BY DEF Init, Lifecycle!Init
<1>2. IInv /\ [Next]_vars => [Lifecycle!Next]_(Lifecycle!vars)
  <2> SUFFICES ASSUME IInv, [Next]_vars, order' # order PROVE Lifecycle!Next
    BY DEF Lifecycle!vars
  <2>1. PICK c \in Calls : order' = work[c] /\ (Persist(c) \/ Insert(c))
    BY Writes
  <2>2. CASE Persist(c)
    <3>1. /\ pc[c] = "persist" /\ order # NoOrder
          /\ Replaces(work[c], order, expected[c])
      BY <2>1, <2>2 DEF Persist
    <3>2. /\ order \in Order /\ Good(order) /\ Good(work[c])
          /\ order.status \in {"accepted", "partial"}
          /\ \/ /\ work[c].status \in {"partial", "filled"}
                /\ work[c].filled \in (order.filled + 1)..Volume
             \/ /\ work[c].status \in {"cancelled", "expired"}
                /\ work[c].filled = order.filled
      BY <3>1, AppendIsOneOperation
    <3>3. order' # NoOrder
      BY <2>1, <3>2, NoOrderAssumption DEF Good
    <3>4. work[c].filled = Volume <=> work[c].status = "filled"
      BY <3>2 DEF Good, Whole
    <3>5. status = order.status /\ filled = order.filled
          /\ status' = work[c].status /\ filled' = work[c].filled
      BY <2>1, <3>1, <3>3
    <3>6. CASE work[c].status \in {"partial", "filled"}
      <4>1. Lifecycle!Fill
        BY <3>2, <3>4, <3>5, <3>6 DEF Lifecycle!Fill, Lifecycle!Open
      <4>2. QED BY <4>1 DEF Lifecycle!Next
    <3>7. CASE work[c].status \in {"cancelled", "expired"}
      <4>1. Lifecycle!End
        BY <3>2, <3>5, <3>7 DEF Lifecycle!End, Lifecycle!Open
      <4>2. QED BY <4>1 DEF Lifecycle!Next
    <3>8. QED BY <3>2, <3>6, <3>7
  <2>3. CASE Insert(c)
    <3>1. pc[c] = "insert" /\ order = NoOrder
      BY <2>1, <2>3 DEF Insert
    <3>2. Fresh(work[c])
      BY <3>1 DEF IInv, Writing
    <3>3. /\ order' # NoOrder /\ work[c].filled \in 0..Volume /\ Volume \in Nat
          /\ work[c].filled = Volume <=> work[c].status = "filled"
      BY <2>1, <3>2, NoOrderAssumption, PaperAssumption, Fields DEF Fresh, Good, Whole
    <3>4. status = "none" /\ status' = work[c].status /\ filled' = work[c].filled
      BY <2>1, <3>1, <3>3
    <3>5. Lifecycle!Submit
      BY <3>2, <3>3, <3>4 DEF Fresh, Lifecycle!Submit
    <3>6. QED BY <3>5 DEF Lifecycle!Next
  <2>4. QED BY <2>1, <2>2, <2>3
<1>3. QED BY <1>1, <1>2, Invariant, PTL DEF Spec, ImplementsLifecycle, Lifecycle!Spec

=============================================================================
