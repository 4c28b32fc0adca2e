-------------------------- MODULE SessionStoreProofs --------------------------
(***************************************************************************)
(* Theorems about what is stored.                                          *)
(*                                                                         *)
(* Of SessionStore, for any processes, keys and bounds: types, the history *)
(* grows only and stores nothing twice (it implements SessionLog), a key   *)
(* is stored once, the state is what was set last, and a page that follows *)
(* the events misses none.                                                 *)
(*                                                                         *)
(* Of Retrieval, for any clients, texts and sizes: the chunks of a text    *)
(* cover it, and what a search finds of the document is the whole of the   *)
(* text that is recorded for it.                                           *)
(***************************************************************************)
EXTENDS SessionStore, Retrieval, SelectionProofs, FiniteSetTheorems, TLAPS

-----------------------------------------------------------------------------
(* Sequences of events *)

Unique(s)  == Session!StoredOnce(s)
KeyOnce(s) == \A i, j \in 1 .. Len(s) : s[i].key = s[j].key /\ s[i].key # Absent => i = j
Below(s)   == \A i \in 1 .. Len(s) : s[i].id <= fresh

LEMMA AppendFacts ==
  ASSUME NEW S, NEW s \in Seq(S), NEW e \in S
  PROVE  /\ Append(s, e) \in Seq(S)
         /\ Len(Append(s, e)) = Len(s) + 1
         /\ \A i \in 1 .. Len(s) : Append(s, e)[i] = s[i]
         /\ Append(s, e)[Len(s) + 1] = e
         /\ 1 .. Len(s) + 1 = 1 .. Len(s) \cup {Len(s) + 1}
         /\ Len(s) \in Nat
OBVIOUS

LEMMA ExtendsAppend ==
  ASSUME NEW S, NEW s \in Seq(S), NEW t \in Seq(S), NEW e \in S, Session!Extends(s, t)
  PROVE  Session!Extends(s, Append(t, e))
BY AppendFacts DEF Session!Extends

LEMMA ExtendsItself ==
  ASSUME NEW S, NEW s \in Seq(S)
  PROVE  Session!Extends(s, s)
BY DEF Session!Extends

LEMMA UniqueAppend ==
  ASSUME NEW s \in Seq(Event), NEW e \in Event, Unique(s), ~Has(s, e.id)
  PROVE  Unique(Append(s, e))
<1> SUFFICES ASSUME NEW i \in 1 .. Len(s) + 1, NEW j \in 1 .. Len(s) + 1,
                    Append(s, e)[i].id = Append(s, e)[j].id
             PROVE  i = j
  BY AppendFacts DEF Unique, Session!StoredOnce
<1>1. CASE i \in 1 .. Len(s) /\ j \in 1 .. Len(s)
  BY <1>1, AppendFacts DEF Unique, Session!StoredOnce
<1>2. CASE i \in 1 .. Len(s) /\ j = Len(s) + 1
  BY <1>2, AppendFacts DEF Has
<1>3. CASE i = Len(s) + 1 /\ j \in 1 .. Len(s)
  BY <1>3, AppendFacts DEF Has
<1> QED BY <1>1, <1>2, <1>3, AppendFacts

LEMMA KeyOnceAppend ==
  ASSUME NEW s \in Seq(Event), NEW e \in Event, KeyOnce(s),
         e.key = Absent \/ ~HasKey(s, e.key)
  PROVE  KeyOnce(Append(s, e))
<1> SUFFICES ASSUME NEW i \in 1 .. Len(s) + 1, NEW j \in 1 .. Len(s) + 1,
                    Append(s, e)[i].key = Append(s, e)[j].key, Append(s, e)[i].key # Absent
             PROVE  i = j
  BY AppendFacts DEF KeyOnce
<1>1. CASE i \in 1 .. Len(s) /\ j \in 1 .. Len(s)
  BY <1>1, AppendFacts DEF KeyOnce
<1>2. CASE i \in 1 .. Len(s) /\ j = Len(s) + 1
  BY <1>2, AppendFacts DEF HasKey
<1>3. CASE i = Len(s) + 1 /\ j \in 1 .. Len(s)
  BY <1>3, AppendFacts DEF HasKey
<1> QED BY <1>1, <1>2, <1>3, AppendFacts

(* An event that is no state leaves the state alone; a state replaces it. *)
LEMMA StateAppendOther ==
  ASSUME NEW s \in Seq(Event), NEW e \in Event, e.type # "state"
  PROVE  State(Append(s, e)) = State(s)
<1> DEFINE last(t) == {i \in 1 .. Len(t) : /\ t[i].type = "state"
                                          /\ \A j \in i + 1 .. Len(t) : t[j].type # "state"}
<1>1. last(Append(s, e)) = last(s)
  <2>1. ASSUME NEW i \in last(Append(s, e)) PROVE i \in last(s)
    <3>1. i \in 1 .. Len(s)
      BY AppendFacts
    <3>2. ASSUME NEW j \in i + 1 .. Len(s) PROVE s[j].type # "state"
      BY <3>1, AppendFacts
    <3> QED BY <3>1, <3>2, AppendFacts
  <2>2. ASSUME NEW i \in last(s) PROVE i \in last(Append(s, e))
    <3>1. ASSUME NEW j \in i + 1 .. Len(s) + 1 PROVE Append(s, e)[j].type # "state"
      <4>1. CASE j = Len(s) + 1
        BY <4>1, AppendFacts
      <4>2. CASE j \in i + 1 .. Len(s)
        <5>1. s[j].type # "state" /\ j \in 1 .. Len(s)
          BY <4>2
        <5> QED BY <5>1, AppendFacts
      <4> QED BY <4>1, <4>2
    <3> QED BY <3>1, AppendFacts
  <2> QED BY <2>1, <2>2
<1>2. \A i \in last(s) : Append(s, e)[i] = s[i]
  BY AppendFacts
<1>3. State(s) = {s[i].value : i \in last(s)}
  BY DEF State
<1>4. State(Append(s, e)) = {Append(s, e)[i].value : i \in last(Append(s, e))}
  BY DEF State
<1> QED BY SMTT(30), <1>1, <1>2, <1>3, <1>4

LEMMA StateAppendState ==
  ASSUME NEW s \in Seq(Event), NEW e \in Event, e.type = "state"
  PROVE  State(Append(s, e)) = {e.value}
<1> DEFINE t    == Append(s, e)
           last == {i \in 1 .. Len(t) : /\ t[i].type = "state"
                                        /\ \A j \in i + 1 .. Len(t) : t[j].type # "state"}
<1>1. Len(t) + 0 = Len(s) + 1 /\ t[Len(s) + 1] = e /\ Len(s) \in Nat
  BY AppendFacts
<1> HIDE DEF t
<1>2. last = {Len(s) + 1}
  <2>1. ASSUME NEW i \in last PROVE i = Len(s) + 1
    BY <1>1
  <2>2. Len(s) + 1 \in last
    BY <1>1
  <2> QED BY <2>1, <2>2
<1>3. State(t) = {t[i].value : i \in last}
  BY DEF State
<1>4. State(t) = {e.value}
  BY <1>1, <1>2, <1>3
<1> QED BY <1>4 DEF t

LEMMA StateOne ==
  ASSUME NEW s \in Seq(Event), NEW v \in State(s)
  PROVE  State(s) = {v} /\ v \in Nat
<1>1. PICK i \in 1 .. Len(s) : /\ s[i].value = v /\ s[i].type = "state"
                               /\ \A j \in i + 1 .. Len(s) : s[j].type # "state"
  BY DEF State
<1>2. ASSUME NEW k \in 1 .. Len(s), s[k].type = "state",
             \A j \in k + 1 .. Len(s) : s[j].type # "state"
      PROVE  k = i
  <2>1. ~(k < i) /\ ~(i < k)
    BY <1>1, <1>2
  <2> QED BY <2>1
<1>3. s[i] \in Event
  OBVIOUS
<1> QED BY <1>1, <1>2, <1>3 DEF State, Event

-----------------------------------------------------------------------------
(* The invariant *)

TxType == [by : Writers \cup {Absent}, op : Ops, log : Seq(Event), at : Nat,
           done : BOOLEAN, key : Keys \cup {Absent}, value : Nat]

(* An agent's own event is a note without a key; all others are stored. *)
Private(e) == e.type = "note" /\ e.key = Absent
HeldOk     == \A w \in Writers : \A i \in 1 .. Len(held[w]) :
                /\ held[w][i].id <= fresh
                /\ Private(held[w][i]) \/ Has(log, held[w][i].id)

(* A transaction goes on from what is committed, and has not passed its end. *)
TxOk ==
  tx.by # Absent =>
    /\ Session!Extends(log, tx.log) /\ Unique(tx.log) /\ KeyOnce(tx.log) /\ Below(tx.log)
    /\ tx.op = "save" => tx.at <= Len(held[tx.by])
    /\ tx.op = "migrate" => tx.at <= Len(lines)

(* The state that a transaction sees, and the one that it sets. *)
StateOk ==
  tx.by # Absent =>
    IF tx.op = "set" /\ tx.done THEN State(tx.log) = {tx.value}
    ELSE lastSet # 0 => State(tx.log) = {lastSet}

LogOk    == Unique(log) /\ KeyOnce(log) /\ Below(log)
ReaderOk == reader.after <= Len(log) /\ FollowsGapFree

StoreInv == StoreTypeOK /\ LogOk /\ TxOk /\ HeldOk /\ StateIsLastSet /\ StateOk /\ ReaderOk

-----------------------------------------------------------------------------
(* What one step of an open transaction does *)

(* e is added to the transaction. *)
Gets(e) ==
  /\ e \in Event /\ tx'.log = Append(tx.log, e) /\ e.id <= fresh'
  /\ ~Has(tx.log, e.id)
  /\ e.key = Absent \/ ~HasKey(tx.log, e.key)
  /\ \/ e.type # "state" /\ (tx.op = "set" => ~tx'.done)
     \/ e.type = "state" /\ tx.op = "set" /\ tx'.done /\ tx'.value = e.value
     \/ e.type = "state" /\ tx.op # "set" /\ State(tx.log) = {}

Keeps == /\ tx'.log = tx.log
         /\ tx.op = "set" => tx'.done /\ State(tx.log) = {tx'.value}

Works ==
  /\ tx.by # Absent /\ ~tx.done
  /\ tx' \in TxType /\ tx'.by = tx.by /\ tx'.op = tx.op
  /\ tx.op = "save" => tx'.at <= Len(held[tx.by])
  /\ tx.op = "migrate" => tx'.at <= Len(lines)
  /\ fresh' \in 0 .. MaxEvents /\ fresh <= fresh'
  /\ lines' \in Seq(Line) /\ (tx.op = "migrate" => lines' = lines)
  /\ UNCHANGED <<log, held, file, late, opened, reader, lastSet>>
  /\ Keeps \/ \E e : Gets(e)

(* A new event has an identity of its own. *)
LEMMA NewFacts ==
  ASSUME StoreInv, tx.by # Absent, fresh < MaxEvents,
         NEW type \in Types, NEW key \in Keys \cup Nat \cup {Absent}, NEW value \in Nat
  PROVE  /\ New(type, key, value) \in Event /\ ~Has(tx.log, New(type, key, value).id)
         /\ New(type, key, value).id = fresh + 1
         /\ New(type, key, value).type = type /\ New(type, key, value).key = key
         /\ New(type, key, value).value = value
         /\ fresh + 1 \in 0 .. MaxEvents /\ fresh <= fresh + 1 /\ fresh + 1 \in Nat
<1>1. fresh \in 0 .. MaxEvents /\ fresh + 1 \in Ids /\ MaxEvents \in Nat
  BY SessionStoreConstants DEF StoreInv, StoreTypeOK, Ids
<1>2. ~Has(tx.log, fresh + 1)
  <2>1. tx.log \in Seq(Event)
    BY DEF StoreInv, StoreTypeOK
  <2>2. \A i \in 1 .. Len(tx.log) : tx.log[i].id \in Nat /\ tx.log[i].id <= fresh
    <3>1. \A i \in 1 .. Len(tx.log) : tx.log[i] \in Event
      BY <2>1
    <3>2. \A i \in 1 .. Len(tx.log) : tx.log[i].id \in Nat
      BY <3>1 DEF Event, Ids
    <3>3. \A i \in 1 .. Len(tx.log) : tx.log[i].id <= fresh
      BY DEF StoreInv, TxOk, Below
    <3> QED BY <3>2, <3>3
  <2> QED BY <1>1, <2>2 DEF Has
<1> QED BY <1>1, <1>2 DEF New, Event

(* What emit adds is an event without a key. *)
LEMMA NewEmission ==
  ASSUME StoreInv, tx.by # Absent, fresh < MaxEvents, NEW value \in Nat
  PROVE  /\ New("event", Absent, value) \in Event
         /\ New("event", Absent, value).type = "event"
         /\ New("event", Absent, value).key = Absent
         /\ New("event", Absent, value).value = value
<1>1. "event" \in Types
  BY DEF Types
<1>2. Absent \in Keys \cup Nat \cup {Absent}
  OBVIOUS
<1> HIDE DEF Types
<1> QED BY <1>1, <1>2, NewFacts

LEMMA TxAppend ==
  ASSUME tx \in TxType, NEW e, Append(tx.log, e) \in Seq(Event),
         tx' = [tx EXCEPT !.at = tx.at + 1, !.log = Append(tx.log, e)]
  PROVE  /\ tx' \in TxType /\ tx'.log = Append(tx.log, e) /\ tx'.at = tx.at + 1
         /\ tx'.by = tx.by /\ tx'.op = tx.op
<1> DEFINE s == Append(tx.log, e)
           n == tx.at + 1
<1>1. s \in Seq(Event) /\ n \in Nat /\ tx' = [tx EXCEPT !.at = n, !.log = s]
  BY DEF TxType
<1> HIDE DEF s, n
<1>2. tx' \in TxType /\ tx'.log = s /\ tx'.at = n /\ tx'.by = tx.by /\ tx'.op = tx.op
  BY <1>1 DEF TxType
<1> QED BY <1>2 DEF s, n

LEMMA MergeWorks == ASSUME StoreInv, Merge PROVE Works
<1> DEFINE mine == held[tx.by]
           e    == mine[tx.at + 1]
<1>1. /\ tx \in TxType /\ tx.by \in Writers /\ tx.op = "save" /\ ~tx.done /\ tx.by # Absent
      /\ mine \in Seq(Event) /\ tx.at \in Nat /\ tx.log \in Seq(Event)
  BY DEF StoreInv, StoreTypeOK, TxType, Merge, In
<1>2. tx.at <= Len(mine)
  BY <1>1 DEF StoreInv, TxOk
<1>3. fresh' = fresh /\ fresh \in 0 .. MaxEvents /\ lines' = lines /\ lines \in Seq(Line)
      /\ UNCHANGED <<log, held, file, late, opened, reader, lastSet>>
  BY DEF Merge, StoreInv, StoreTypeOK
<1>4. CASE tx.at = Len(mine)
  <2>1. tx' = [tx EXCEPT !.done = TRUE]
    BY <1>4 DEF Merge
  <2>2. tx' \in TxType /\ tx'.log = tx.log /\ tx'.at = tx.at /\ tx'.by = tx.by /\ tx'.op = tx.op
    BY <1>1, <2>1 DEF TxType
  <2> QED BY <1>1, <1>2, <1>3, <2>2 DEF Works, Keeps
<1>5. CASE tx.at # Len(mine)
  <2>1. tx' = [tx EXCEPT !.at = @ + 1, !.log = IF Has(tx.log, e.id) THEN @ ELSE Append(@, e)]
    BY <1>5 DEF Merge
  <2>2. tx.at + 1 \in 1 .. Len(mine) /\ e \in Event /\ Len(mine) \in Nat
    BY <1>1, <1>2, <1>5
  <2>3. e.id <= fresh /\ (Private(e) \/ Has(log, e.id))
    BY <1>1, <2>2 DEF StoreInv, HeldOk
  <2> HIDE DEF e, mine
  <2>4. CASE Has(tx.log, e.id)
    <3>1. tx' = [tx EXCEPT !.at = tx.at + 1]
      BY <2>1, <2>4, <1>1 DEF TxType
    <3>2. tx' \in TxType /\ tx'.log = tx.log /\ tx'.at = tx.at + 1 /\ tx'.by = tx.by /\ tx'.op = tx.op
      BY SMTT(30), <3>1, <1>1 DEF TxType
    <3> QED BY <1>1, <1>3, <2>2, <3>2 DEF Works, Keeps, mine
  <2>5. CASE ~Has(tx.log, e.id)
    <3>1. ~Has(log, e.id)
      <4>1. log \in Seq(Event) /\ Session!Extends(log, tx.log)
        BY <1>1 DEF StoreInv, TxOk, StoreTypeOK
      <4>2. \A i \in 1 .. Len(log) : i \in 1 .. Len(tx.log) /\ tx.log[i] = log[i]
        BY <4>1, <1>1 DEF Session!Extends
      <4> QED BY <4>2, <2>5 DEF Has
    <3>2. tx' = [tx EXCEPT !.at = tx.at + 1, !.log = Append(tx.log, e)]
      BY <2>1, <2>5, <1>1 DEF TxType
    <3>3. Append(tx.log, e) \in Seq(Event)
      BY <1>1, <2>2
    <3>4. /\ tx' \in TxType /\ tx'.log = Append(tx.log, e) /\ tx'.at = tx.at + 1
          /\ tx'.by = tx.by /\ tx'.op = tx.op
      BY <3>2, <3>3, <1>1, TxAppend
    <3>5. Gets(e)
      BY <1>1, <1>3, <2>2, <2>3, <2>5, <3>1, <3>4 DEF Gets, Private
    <3> QED BY <1>1, <1>3, <2>2, <3>4, <3>5 DEF Works, mine
  <2> QED BY <2>4, <2>5
<1> QED BY <1>4, <1>5

(* Adding a new event, and the transaction's part is done. *)
LEMMA AddWorks ==
  ASSUME StoreInv, tx.by # Absent, ~tx.done,
         NEW type \in Types, NEW key \in Keys \cup Nat \cup {Absent}, NEW value \in Nat,
         Add(type, key, value),
         key = Absent \/ ~HasKey(tx.log, key),
         tx.op # "set", type # "state" \/ State(tx.log) = {},
         lines' \in Seq(Line), tx.op = "migrate" => lines' = lines,
         UNCHANGED <<log, held, file, late, opened, reader, lastSet>>
  PROVE  Works
<1> DEFINE e == New(type, key, value)
<1>1. e \in Event /\ ~Has(tx.log, e.id) /\ e.id = fresh + 1 /\ e.type = type /\ e.key = key
      /\ fresh + 1 \in 0 .. MaxEvents /\ fresh <= fresh + 1
  BY NewFacts DEF Add
<1>2. tx \in TxType /\ tx.log \in Seq(Event)
  BY DEF StoreInv, StoreTypeOK, TxType
<1>3. tx' = [tx EXCEPT !.log = Append(tx.log, e), !.done = TRUE] /\ fresh' = fresh + 1
  BY <1>2 DEF Add, TxType
<1> HIDE DEF e
<1>4. Append(tx.log, e) \in Seq(Event)
  BY <1>1, <1>2
<1>5. /\ tx' \in TxType /\ tx'.log = Append(tx.log, e) /\ tx'.at = tx.at /\ tx'.by = tx.by
      /\ tx'.op = tx.op /\ tx'.done
  BY <1>2, <1>3, <1>4 DEF TxType
<1>6. Gets(e)
  BY <1>1, <1>3, <1>5 DEF Gets
<1> QED BY <1>1, <1>3, <1>5, <1>6 DEF Works, StoreInv, TxOk

LEMMA SkipWorks ==
  ASSUME StoreInv, tx.by # Absent, ~tx.done, Skip, tx.op # "set",
         UNCHANGED <<log, held, file, late, opened, lines, reader, lastSet>>
  PROVE  Works
<1>1. tx \in TxType /\ fresh \in 0 .. MaxEvents /\ lines \in Seq(Line)
  BY DEF StoreInv, StoreTypeOK, TxType
<1>2. tx' \in TxType /\ tx'.log = tx.log /\ tx'.at = tx.at /\ tx'.by = tx.by /\ tx'.op = tx.op
  BY <1>1 DEF Skip, TxType
<1> QED BY <1>1, <1>2 DEF Works, Keeps, StoreInv, TxOk, Skip

LEMMA AppendWorks == ASSUME StoreInv, AppendOnce PROVE Works
<1>1. tx.by # Absent /\ ~tx.done /\ tx.op = "append" /\ tx.key \in Keys \cup {Absent}
      /\ "note" \in Types /\ lines \in Seq(Line) /\ 0 \in Nat
      /\ UNCHANGED <<log, held, file, late, opened, lines, reader, lastSet>>
  BY DEF AppendOnce, In, StoreInv, StoreTypeOK, Types
<1>2. CASE Skip
  BY <1>1, <1>2, SkipWorks
<1>3. CASE Add("note", tx.key, 0) /\ ~(tx.key # Absent /\ HasKey(tx.log, tx.key))
  BY <1>1, <1>3, AddWorks
<1> QED BY <1>2, <1>3 DEF AppendOnce

LEMMA EmitWorks == ASSUME StoreInv, Emit PROVE Works
<1>1. tx.by # Absent /\ ~tx.done /\ tx.op = "emit" /\ "event" \in Types
      /\ UNCHANGED <<log, held, file, late, opened, reader, lastSet>>
      /\ fresh \in Nat /\ lines \in Seq(Line) /\ tx.log \in Seq(Event)
  BY DEF Emit, In, StoreInv, StoreTypeOK, Types
<1>2. [sequence |-> Len(tx.log) + 1, value |-> fresh + 1] \in Line
  BY <1>1 DEF Line
<1>3. lines' \in Seq(Line)
  BY <1>1, <1>2 DEF Emit
<1> QED BY SMTT(30), <1>1, <1>3, AddWorks DEF Emit

LEMMA ReadWorks == ASSUME StoreInv, Read PROVE Works
<1>1. tx.by # Absent /\ ~tx.done /\ tx.op = "read" /\ "state" \in Types /\ file \in Nat
      /\ UNCHANGED <<log, held, file, late, opened, lines, reader, lastSet>>
      /\ lines \in Seq(Line)
  BY DEF Read, In, StoreInv, StoreTypeOK, Types
<1>2. CASE Skip
  BY <1>1, <1>2, SkipWorks
<1>3. CASE Add("state", Absent, file) /\ State(tx.log) = {}
  BY <1>1, <1>3, AddWorks
<1> QED BY <1>2, <1>3 DEF Read

LEMMA SetWorks == ASSUME StoreInv, SetState PROVE Works
<1>1. tx \in TxType /\ tx.by # Absent /\ ~tx.done /\ tx.op = "set" /\ "state" \in Types
      /\ UNCHANGED <<log, held, file, late, opened, lines, reader, lastSet>>
      /\ lines \in Seq(Line) /\ fresh \in 0 .. MaxEvents /\ tx.log \in Seq(Event)
  BY DEF SetState, In, StoreInv, StoreTypeOK, Types, TxType
<1>2. ASSUME NEW v \in State(tx.log), tx' = [tx EXCEPT !.done = TRUE, !.value = v], fresh' = fresh
      PROVE  Works
  <2>1. v \in Nat /\ State(tx.log) = {v}
    BY <1>1, StateOne
  <2>2. tx' \in TxType /\ tx'.log = tx.log /\ tx'.by = tx.by /\ tx'.op = tx.op
        /\ tx'.done /\ tx'.value = v
    BY <1>1, <1>2, <2>1 DEF TxType
  <2> QED BY <1>1, <1>2, <2>1, <2>2 DEF Works, Keeps
<1>3. ASSUME fresh < MaxEvents, fresh' = fresh + 1,
             tx' = [tx EXCEPT !.log = Append(@, New("state", Absent, fresh + 1)),
                              !.done = TRUE, !.value = fresh + 1]
      PROVE  Works
  <2> DEFINE e == New("state", Absent, fresh + 1)
  <2>1. fresh + 1 \in Nat
    BY <1>1
  <2>2. e \in Event /\ ~Has(tx.log, e.id) /\ e.id = fresh + 1 /\ e.type = "state"
        /\ e.key = Absent /\ e.value = fresh + 1
        /\ fresh + 1 \in 0 .. MaxEvents /\ fresh <= fresh + 1
    <3>1. /\ e \in Event /\ ~Has(tx.log, e.id) /\ e.id = fresh + 1 /\ e.type = "state"
          /\ e.key = Absent /\ e.value = fresh + 1
      <4>1. ASSUME NEW v \in Nat
            PROVE  LET n == New("state", Absent, v) IN
                   /\ n \in Event /\ ~Has(tx.log, n.id) /\ n.id = fresh + 1
                   /\ n.type = "state" /\ n.key = Absent /\ n.value = v
        BY <1>1, <1>3, NewFacts
      <4> QED BY <2>1, <4>1
    <3>2. fresh + 1 \in 0 .. MaxEvents /\ fresh <= fresh + 1
      BY <1>1, <1>3, <2>1, NewFacts
    <3> QED BY <3>1, <3>2
  <2>3. tx' = [tx EXCEPT !.log = Append(tx.log, e), !.done = TRUE, !.value = fresh + 1]
    BY <1>1, <1>3 DEF TxType
  <2> HIDE DEF e
  <2>4. Append(tx.log, e) \in Seq(Event)
    BY <1>1, <2>2
  <2>5. /\ tx' \in TxType /\ tx'.log = Append(tx.log, e) /\ tx'.by = tx.by
        /\ tx'.op = tx.op /\ tx'.done /\ tx'.value = fresh + 1
    BY <1>1, <2>1, <2>3, <2>4 DEF TxType
  <2>6. Gets(e)
    BY <1>1, <1>3, <2>2, <2>5 DEF Gets
  <2> QED BY <1>1, <1>3, <2>2, <2>5, <2>6 DEF Works
<1> QED BY <1>2, <1>3 DEF SetState

LEMMA MigrateWorks == ASSUME StoreInv, Migrate PROVE Works
<1> DEFINE line == lines[tx.at + 1]
<1>1. tx \in TxType /\ tx.by # Absent /\ ~tx.done /\ tx.op = "migrate"
      /\ "event" \in Types /\ "migrated" \in Types /\ tx.at \in Nat /\ tx.at <= Len(lines)
      /\ UNCHANGED <<log, held, file, late, opened, lines, reader, lastSet>>
      /\ lines \in Seq(Line) /\ fresh \in 0 .. MaxEvents /\ tx.log \in Seq(Event) /\ 0 \in Nat
  BY DEF Migrate, In, StoreInv, StoreTypeOK, Types, TxOk, TxType
<1>2. CASE Skip
  BY <1>1, <1>2, SkipWorks
<1>3. CASE Add("migrated", Absent, 0)
  BY <1>1, <1>3, AddWorks
<1>4. ASSUME tx.at # Len(lines), tx' = [tx EXCEPT !.at = @ + 1], fresh' = fresh
      PROVE  Works
  <2>1. tx' \in TxType /\ tx'.log = tx.log /\ tx'.at = tx.at + 1 /\ tx'.by = tx.by
        /\ tx'.op = tx.op
    BY <1>1, <1>4 DEF TxType
  <2> QED BY <1>1, <1>4, <2>1 DEF Works, Keeps
<1>5. ASSUME tx.at # Len(lines), ~HasKey(tx.log, line.sequence), Import(line.sequence, line.value)
      PROVE  Works
  <2> DEFINE e == New("event", line.sequence, line.value)
  <2>1. line \in Line
    BY <1>1, <1>5
  <2>2. line.sequence \in Keys \cup Nat \cup {Absent} /\ line.value \in Nat
    BY <2>1 DEF Line
  <2>3. e \in Event /\ ~Has(tx.log, e.id) /\ e.id = fresh + 1 /\ e.type = "event"
        /\ e.key = line.sequence
        /\ fresh + 1 \in 0 .. MaxEvents /\ fresh <= fresh + 1
    BY <1>1, <1>5, <2>2, NewFacts DEF Import
  <2>4. tx' = [tx EXCEPT !.at = tx.at + 1, !.log = Append(tx.log, e)] /\ fresh' = fresh + 1
    BY <1>1, <1>5 DEF Import, TxType
  <2> HIDE DEF e, line
  <2>5. Append(tx.log, e) \in Seq(Event)
    BY <1>1, <2>3
  <2>6. /\ tx' \in TxType /\ tx'.log = Append(tx.log, e) /\ tx'.at = tx.at + 1
        /\ tx'.by = tx.by /\ tx'.op = tx.op
    BY <1>1, <2>4, <2>5, TxAppend
  <2>7. Gets(e)
    BY <1>1, <1>5, <2>3, <2>4, <2>6 DEF Gets
  <2> QED BY <1>1, <1>5, <2>3, <2>4, <2>6, <2>7 DEF Works
<1> QED BY <1>2, <1>3, <1>4, <1>5 DEF Migrate

-----------------------------------------------------------------------------
(* Every step keeps the invariant *)

LEMMA WorksInv == ASSUME StoreInv, Works PROVE StoreInv'
<1>1. /\ tx.by # Absent /\ ~tx.done /\ tx'.by = tx.by /\ tx'.op = tx.op
      /\ UNCHANGED <<log, held, file, late, opened, reader, lastSet>>
      /\ fresh \in Nat /\ fresh' \in Nat /\ fresh <= fresh'
      /\ tx.log \in Seq(Event) /\ log \in Seq(Event) /\ held \in [Writers -> Seq(Event)]
      /\ tx.by \in Writers
  BY DEF StoreInv, StoreTypeOK, Works
<1>2. StoreTypeOK'
  BY DEF StoreInv, StoreTypeOK, Works, TxType
<1>3. ASSUME NEW s \in Seq(Event), Below(s)
      PROVE  \A i \in 1 .. Len(s) : s[i].id <= fresh'
  <2>1. \A i \in 1 .. Len(s) : s[i] \in Event
    OBVIOUS
  <2>2. \A i \in 1 .. Len(s) : s[i].id \in Nat /\ s[i].id <= fresh
    BY <2>1, <1>3 DEF Event, Ids, Below
  <2> QED BY <2>2, <1>1
<1>4. LogOk'
  BY <1>1, <1>3 DEF StoreInv, LogOk, Unique, KeyOnce, Below, Session!StoredOnce
<1>5. TxOk'
  <2>1. Session!Extends(log, tx.log) /\ Unique(tx.log) /\ KeyOnce(tx.log) /\ Below(tx.log)
    BY <1>1 DEF StoreInv, TxOk
  <2>2. Session!Extends(log, tx'.log) /\ Unique(tx'.log) /\ KeyOnce(tx'.log)
        /\ \A i \in 1 .. Len(tx'.log) : tx'.log[i].id <= fresh'
    <3>1. CASE Keeps
      BY <3>1, <2>1, <1>1, <1>3 DEF Keeps
    <3>2. ASSUME NEW e, Gets(e)
          PROVE  Session!Extends(log, tx'.log) /\ Unique(tx'.log) /\ KeyOnce(tx'.log)
                 /\ \A i \in 1 .. Len(tx'.log) : tx'.log[i].id <= fresh'
      <4>1. e \in Event /\ tx'.log = Append(tx.log, e) /\ e.id <= fresh'
            /\ ~Has(tx.log, e.id) /\ (e.key = Absent \/ ~HasKey(tx.log, e.key))
        BY <3>2 DEF Gets
      <4>2. Session!Extends(log, tx'.log)
        BY <4>1, <2>1, <1>1, ExtendsAppend
      <4>3. Unique(tx'.log)
        BY <4>1, <2>1, <1>1, UniqueAppend
      <4>4. KeyOnce(tx'.log)
        BY <4>1, <2>1, <1>1, KeyOnceAppend
      <4>5. \A i \in 1 .. Len(tx'.log) : tx'.log[i].id <= fresh'
        BY <4>1, <2>1, <1>1, <1>3, AppendFacts
      <4> QED BY <4>2, <4>3, <4>4, <4>5
    <3> QED BY <3>1, <3>2 DEF Works
  <2>3. tx.op = "save" => tx'.at <= Len(held[tx.by])
    BY DEF Works
  <2>4. tx.op = "migrate" => tx'.at <= Len(lines')
    BY DEF Works
  <2> QED BY <1>1, <2>2, <2>3, <2>4
          DEF TxOk, Unique, KeyOnce, Below, Session!Extends, Session!StoredOnce
<1>6. HeldOk'
  <2> SUFFICES ASSUME NEW w \in Writers, NEW i \in 1 .. Len(held[w])
               PROVE  held[w][i].id <= fresh' /\ (Private(held[w][i]) \/ Has(log, held[w][i].id))
    BY <1>1 DEF HeldOk, Private, Has
  <2>1. held[w] \in Seq(Event) /\ Below(held[w])
    BY <1>1 DEF StoreInv, HeldOk, Below
  <2> QED BY <2>1, <1>3 DEF StoreInv, HeldOk
<1>7. StateIsLastSet'
  BY <1>1 DEF StoreInv, StateIsLastSet, State
<1>8. StateOk'
  <2>1. lastSet # 0 => State(tx.log) = {lastSet}
    BY <1>1 DEF StoreInv, StateOk
  <2>2. IF tx.op = "set" /\ tx'.done THEN State(tx'.log) = {tx'.value}
        ELSE lastSet # 0 => State(tx'.log) = {lastSet}
    <3>1. CASE Keeps
      BY <3>1, <2>1 DEF Keeps
    <3>2. ASSUME NEW e, Gets(e)
          PROVE  IF tx.op = "set" /\ tx'.done THEN State(tx'.log) = {tx'.value}
                 ELSE lastSet # 0 => State(tx'.log) = {lastSet}
      <4>1. e \in Event /\ tx'.log = Append(tx.log, e)
        BY <3>2 DEF Gets
      <4>2. CASE e.type # "state" /\ (tx.op = "set" => ~tx'.done)
        BY <4>1, <4>2, <2>1, <1>1, StateAppendOther
      <4>3. CASE e.type = "state" /\ tx.op = "set" /\ tx'.done /\ tx'.value = e.value
        BY <4>1, <4>3, <1>1, StateAppendState
      <4>4. CASE e.type = "state" /\ tx.op # "set" /\ State(tx.log) = {}
        BY <4>4, <2>1
      <4> QED BY <3>2, <4>2, <4>3, <4>4 DEF Gets
    <3> QED BY <3>1, <3>2 DEF Works
  <2> QED BY <2>2, <1>1 DEF StateOk, State
<1>9. ReaderOk'
  BY <1>1 DEF StoreInv, ReaderOk, FollowsGapFree
<1> QED BY <1>2, <1>4, <1>5, <1>6, <1>7, <1>8, <1>9 DEF StoreInv

LEMMA BeginInv ==
  ASSUME StoreInv, NEW w \in Writers, NEW op \in Ops, NEW key \in Keys \cup {Absent},
         OpenTransaction(w, op, key)
  PROVE  StoreInv'
<1>1. /\ tx' = [Closed EXCEPT !.by = w, !.op = op, !.log = log, !.key = key]
      /\ UNCHANGED <<log, fresh, held, file, late, opened, lines, reader, lastSet>>
      /\ log \in Seq(Event) /\ held \in [Writers -> Seq(Event)] /\ lines \in Seq(Line)
  BY DEF OpenTransaction, StoreInv, StoreTypeOK
<1>2. /\ tx' \in TxType /\ tx'.by = w /\ tx'.op = op /\ tx'.log = log
      /\ tx'.at = 0 /\ ~tx'.done
  BY <1>1 DEF TxType, Closed, Ops
<1>3. StoreTypeOK'
  BY <1>1, <1>2 DEF StoreInv, StoreTypeOK, TxType
<1>4. TxOk'
  <2>1. 0 <= Len(held[w]) /\ 0 <= Len(lines)
    BY <1>1
  <2>2. Session!Extends(log, log)
    BY <1>1, ExtendsItself
  <2> QED BY <1>1, <1>2, <2>1, <2>2
          DEF StoreInv, LogOk, TxOk, Unique, KeyOnce, Below, Session!Extends, Session!StoredOnce
<1>5. LogOk' /\ HeldOk'
  BY <1>1 DEF StoreInv, LogOk, HeldOk, Unique, KeyOnce, Below, Private, Has, Session!StoredOnce
<1>6. StateIsLastSet'
  BY <1>1 DEF StoreInv, StateIsLastSet, State
<1>8. StateOk'
  <2>1. (State(log) = State(log))' /\ (lastSet # 0 => State(log) = {lastSet})
    BY DEF StoreInv, StateIsLastSet
  <2>2. State(tx'.log) = State(log)
    BY <1>2
  <2> QED BY <1>1, <1>2, <2>1, <2>2 DEF StateOk, State
<1>7. ReaderOk'
  BY <1>1 DEF StoreInv, ReaderOk, FollowsGapFree
<1> QED BY <1>3, <1>4, <1>5, <1>6, <1>7, <1>8 DEF StoreInv

(* A step of an agent or of a file only. *)
LEMMA LoadInv == ASSUME StoreInv, NEW w \in Writers, Load(w) PROVE StoreInv'
<1>1. /\ UNCHANGED <<log, fresh, tx, file, late, opened, lines, reader, lastSet>>
      /\ held' = [held EXCEPT ![w] = log] /\ tx.by = Absent
      /\ log \in Seq(Event) /\ held \in [Writers -> Seq(Event)]
  BY DEF Load, StoreInv, StoreTypeOK
<1>2. StoreTypeOK'
  BY <1>1 DEF StoreInv, StoreTypeOK
<1>3. HeldOk'
  <2> SUFFICES ASSUME NEW v \in Writers, NEW i \in 1 .. Len(held'[v])
               PROVE  held'[v][i].id <= fresh
                      /\ (Private(held'[v][i]) \/ Has(log, held'[v][i].id))
    BY <1>1 DEF HeldOk, Private, Has
  <2>1. CASE v = w
    BY <2>1, <1>1 DEF StoreInv, LogOk, Below, Has
  <2>2. CASE v # w
    BY <2>2, <1>1 DEF StoreInv, HeldOk
  <2> QED BY <2>1, <2>2
<1>4. LogOk' /\ TxOk'
  BY <1>1 DEF StoreInv, LogOk, TxOk, Unique, KeyOnce, Below, Session!StoredOnce
<1>5. StateIsLastSet' /\ StateOk'
  <2>1. StateIsLastSet'
    BY <1>1 DEF StoreInv, StateIsLastSet, State
  <2>2. StateOk
    BY DEF StoreInv
  <2>3. tx' = tx /\ lastSet' = lastSet
    BY <1>1
  <2>4. State(tx.log)' = State(tx.log)
    BY <2>3 DEF State
  <2>5. StateOk'
    BY <2>2, <2>3, <2>4 DEF StateOk
  <2> QED BY <2>1, <2>5
<1>6. ReaderOk'
  BY <1>1 DEF StoreInv, ReaderOk, FollowsGapFree
<1> QED BY <1>2, <1>3, <1>4, <1>5, <1>6 DEF StoreInv

LEMMA ThinkInv == ASSUME StoreInv, NEW w \in Writers, Think(w) PROVE StoreInv'
<1> DEFINE e == [id |-> fresh + 1, type |-> "note", key |-> Absent, value |-> 0]
<1>1. /\ UNCHANGED <<log, tx, file, late, opened, lines, reader, lastSet>>
      /\ held' = [held EXCEPT ![w] = Append(held[w], e)] /\ tx.by # w
      /\ log \in Seq(Event) /\ held \in [Writers -> Seq(Event)] /\ tx.log \in Seq(Event)
      /\ fresh' = fresh + 1 /\ fresh \in Nat /\ fresh < MaxEvents /\ tx.by \in Writers \cup {Absent}
  BY DEF Think, New, StoreInv, StoreTypeOK
<1>2. e \in Event /\ fresh + 1 \in 0 .. MaxEvents /\ e.id = fresh + 1 /\ e.type = "note" /\ e.key = Absent
  BY <1>1, SessionStoreConstants DEF Event, Ids, Types
<1> HIDE DEF e
<1>3. ASSUME NEW s \in Seq(Event), \A i \in 1 .. Len(s) : s[i].id <= fresh
      PROVE  \A i \in 1 .. Len(s) : s[i].id <= fresh + 1
  <2>1. \A i \in 1 .. Len(s) : s[i] \in Event
    OBVIOUS
  <2>2. \A i \in 1 .. Len(s) : s[i].id \in Nat /\ s[i].id <= fresh
    BY <2>1, <1>3 DEF Event, Ids
  <2> QED BY <2>2, <1>1
<1>4. held[w] \in Seq(Event) /\ Append(held[w], e) \in Seq(Event)
  BY <1>1, <1>2
<1>5. StoreTypeOK'
  BY <1>1, <1>2, <1>4 DEF StoreInv, StoreTypeOK
<1>6. HeldOk'
  <2> SUFFICES ASSUME NEW v \in Writers, NEW i \in 1 .. Len(held'[v])
               PROVE  held'[v][i].id <= fresh + 1
                      /\ (Private(held'[v][i]) \/ Has(log, held'[v][i].id))
    BY <1>1 DEF HeldOk, Private, Has
  <2>0. \A u \in Writers : \A j \in 1 .. Len(held[u]) :
          held[u][j].id <= fresh + 1 /\ (Private(held[u][j]) \/ Has(log, held[u][j].id))
    <3> SUFFICES ASSUME NEW u \in Writers
                 PROVE  \A j \in 1 .. Len(held[u]) :
                          held[u][j].id <= fresh + 1 /\ (Private(held[u][j]) \/ Has(log, held[u][j].id))
      OBVIOUS
    <3>1. held[u] \in Seq(Event) /\ \A j \in 1 .. Len(held[u]) : held[u][j].id <= fresh
      BY <1>1 DEF StoreInv, HeldOk
    <3> QED BY <3>1, <1>3 DEF StoreInv, HeldOk
  <2>1. CASE v = w
    <3>1. held'[v] = Append(held[w], e)
      BY <2>1, <1>1
    <3>2. CASE i \in 1 .. Len(held[w])
      BY <3>1, <3>2, <2>0, <1>2, <1>4, AppendFacts
    <3>3. CASE i = Len(held[w]) + 1
      <4>1. held'[v][i] = e
        BY <3>1, <3>3, <1>2, <1>4, AppendFacts
      <4> QED BY <4>1, <1>1, <1>2 DEF Private
    <3> QED BY <3>1, <3>2, <3>3, <1>2, <1>4, AppendFacts
  <2>2. CASE v # w
    BY <2>2, <2>0, <1>1
  <2> QED BY <2>1, <2>2
<1>7. LogOk'
  BY <1>1, <1>3 DEF StoreInv, LogOk, Unique, KeyOnce, Below, Session!StoredOnce
<1>8. TxOk'
  <2>1. tx.by # Absent => held'[tx.by] = held[tx.by]
    BY <1>1
  <2>2. tx.by # Absent => \A i \in 1 .. Len(tx.log) : tx.log[i].id <= fresh'
    BY <1>1, <1>3 DEF StoreInv, TxOk, Below
  <2> QED BY <2>1, <2>2, <1>1
          DEF StoreInv, TxOk, Unique, KeyOnce, Below, Session!Extends, Session!StoredOnce
<1>9. StateIsLastSet' /\ StateOk'
  <2>1. StateIsLastSet'
    BY <1>1 DEF StoreInv, StateIsLastSet, State
  <2>2. StateOk
    BY DEF StoreInv
  <2>3. tx' = tx /\ lastSet' = lastSet
    BY <1>1
  <2>4. State(tx.log)' = State(tx.log)
    BY <2>3 DEF State
  <2>5. StateOk'
    BY <2>2, <2>3, <2>4 DEF StateOk
  <2> QED BY <2>1, <2>5
<1>10. ReaderOk'
  BY <1>1 DEF StoreInv, ReaderOk, FollowsGapFree
<1> QED BY <1>5, <1>6, <1>7, <1>8, <1>9, <1>10 DEF StoreInv

(* The files are outside the invariant, but for their types. *)
LEMMA FileInv ==
  ASSUME StoreInv, StoreTypeOK', UNCHANGED <<log, fresh, tx, held, lines, reader, lastSet>>
  PROVE  StoreInv'
<1>1. LogOk' /\ TxOk'
  BY DEF StoreInv, LogOk, TxOk, Unique, KeyOnce, Below, Session!Extends, Session!StoredOnce
<1>2. HeldOk'
  BY DEF StoreInv, HeldOk, Private, Has
<1>3. StateIsLastSet'
  BY DEF StoreInv, StateIsLastSet, State
<1>4. StateOk'
  <2>1. State(tx.log)' = State(tx.log)
    BY DEF State
  <2> QED BY <2>1 DEF StoreInv, StateOk
<1>5. ReaderOk'
  BY DEF StoreInv, ReaderOk, FollowsGapFree
<1> QED BY <1>1, <1>2, <1>3, <1>4, <1>5 DEF StoreInv

LEMMA WriteEarlyInv == ASSUME StoreInv, WriteEarly PROVE StoreInv'
<1>1. StoreTypeOK'
  BY DEF StoreInv, StoreTypeOK, WriteEarly
<1> QED BY <1>1, FileInv DEF WriteEarly

LEMMA WriteLateInv == ASSUME StoreInv, NEW w \in Writers, WriteLate(w) PROVE StoreInv'
<1>1. StoreTypeOK'
  BY DEF StoreInv, StoreTypeOK, WriteLate
<1> QED BY <1>1, FileInv DEF WriteLate

(* The transaction is gone, and what an agent held with its process. *)
LEMMA ClosedInv ==
  ASSUME StoreInv, NEW w \in Writers, tx' \in {Closed, tx},
         held' \in {held, [held EXCEPT ![w] = <<>>]},
         tx' = tx => held' = held \/ tx.by # w,
         StoreTypeOK', UNCHANGED <<log, fresh, lines, reader, lastSet>>
  PROVE  StoreInv'
<1>1. LogOk'
  BY DEF StoreInv, LogOk, Unique, KeyOnce, Below, Session!StoredOnce
<1>2. HeldOk'
  <2>1. held \in [Writers -> Seq(Event)]
    BY DEF StoreInv, StoreTypeOK
  <2>2. \A v \in Writers : held'[v] = held[v] \/ held'[v] = <<>>
    BY <2>1
  <2>3. \A v \in Writers : \A i \in 1 .. Len(held'[v]) :
          held'[v][i].id <= fresh /\ (Private(held'[v][i]) \/ Has(log, held'[v][i].id))
    <3> SUFFICES ASSUME NEW v \in Writers, NEW i \in 1 .. Len(held'[v])
                 PROVE  held'[v][i].id <= fresh
                        /\ (Private(held'[v][i]) \/ Has(log, held'[v][i].id))
      OBVIOUS
    <3>1. held'[v] = held[v]
      BY <2>2
    <3> QED BY <3>1 DEF StoreInv, HeldOk
  <2> QED BY <2>3 DEF HeldOk, Private, Has
<1>3. StateIsLastSet'
  BY DEF StoreInv, StateIsLastSet, State
<1>4. ReaderOk'
  BY DEF StoreInv, ReaderOk, FollowsGapFree
<1>5. TxOk' /\ StateOk'
  <2>1. CASE tx' = Closed
    BY <2>1 DEF TxOk, StateOk, Closed
  <2>2. CASE tx' = tx
    <3>1. tx.by # Absent => held'[tx.by] = held[tx.by]
      BY <2>2 DEF StoreInv, StoreTypeOK
    <3>2. TxOk'
      BY <2>2, <3>1
         DEF StoreInv, TxOk, Unique, KeyOnce, Below, Session!Extends, Session!StoredOnce
    <3>3. State(tx.log)' = State(tx.log)
      BY <2>2 DEF State
    <3> QED BY <2>2, <3>2, <3>3 DEF StoreInv, StateOk
  <2> QED BY <2>1, <2>2
<1> QED BY <1>1, <1>2, <1>3, <1>4, <1>5 DEF StoreInv

LEMMA ClosedType == Closed \in TxType
BY DEF Closed, TxType, Ops

LEMMA AbortInv == ASSUME StoreInv, Abort PROVE StoreInv'
<1>1. StoreTypeOK'
  BY ClosedType DEF StoreInv, StoreTypeOK, Abort, TxType
<1>2. tx.by \in Writers
  BY DEF StoreInv, StoreTypeOK, Abort
<1>3. tx' = Closed /\ held' = held /\ UNCHANGED <<log, fresh, lines, reader, lastSet>>
  BY DEF Abort
<1>4. PICK w \in Writers : w = tx.by
  BY <1>2
<1> QED BY <1>1, <1>3, <1>4, ClosedInv

LEMMA CrashInv == ASSUME StoreInv, NEW w \in Writers, WriterDies(w) PROVE StoreInv'
<1>1. tx' \in TxType
  BY ClosedType DEF StoreInv, StoreTypeOK, WriterDies, TxType
<1>2. held' \in [Writers -> Seq(Event)] /\ late' \in [Writers -> Nat]
  BY DEF StoreInv, StoreTypeOK, WriterDies
<1>3. StoreTypeOK'
  BY <1>1, <1>2 DEF StoreInv, StoreTypeOK, WriterDies, TxType
<1>4. tx' \in {Closed, tx} /\ held' = [held EXCEPT ![w] = <<>>]
      /\ UNCHANGED <<log, fresh, lines, reader, lastSet>>
  BY DEF WriterDies
<1>5. tx.by = w => tx' = Closed /\ Closed.by # tx.by
  BY SessionStoreConstants DEF WriterDies, Closed
<1>6. tx' = tx => tx.by # w
  BY <1>5
<1> QED BY <1>3, <1>4, <1>6, ClosedInv

LEMMA FollowInv == ASSUME StoreInv, Follow PROVE StoreInv'
<1>1. PICK last \in After(reader.after) :
        reader' = [after |-> last,
                   seen |-> reader.seen \cup {i \in After(reader.after) : i <= last}]
  BY DEF Follow
<1>2. UNCHANGED <<log, fresh, tx, held, file, late, opened, lines, lastSet>>
      /\ reader.after \in Nat /\ reader.seen \subseteq Nat /\ log \in Seq(Event)
  BY DEF Follow, StoreInv, StoreTypeOK
<1>3. last \in Nat /\ reader.after < last /\ last <= Len(log) /\ Len(log) \in Nat
  BY <1>2 DEF After
<1>4. StoreTypeOK'
  BY <1>1, <1>2, <1>3 DEF StoreInv, StoreTypeOK, After
<1>5. ReaderOk'
  <2>1. reader.seen = {i \in 1 .. reader.after : log[i].type = "event"}
    BY DEF StoreInv, ReaderOk, FollowsGapFree
  <2>2. reader'.seen = {i \in 1 .. last : log[i].type = "event"}
    BY <1>1, <1>2, <1>3, <2>1 DEF After
  <2> QED BY <1>1, <1>2, <1>3, <2>2 DEF ReaderOk, FollowsGapFree
<1>6. LogOk' /\ TxOk'
  BY <1>2 DEF StoreInv, LogOk, TxOk, Unique, KeyOnce, Below, Session!Extends, Session!StoredOnce
<1>7. HeldOk'
  BY <1>2 DEF StoreInv, HeldOk, Private, Has
<1>8. StateIsLastSet'
  BY <1>2 DEF StoreInv, StateIsLastSet, State
<1>9. StateOk'
  <2>1. State(tx.log)' = State(tx.log)
    BY <1>2 DEF State
  <2> QED BY <2>1, <1>2 DEF StoreInv, StateOk
<1> QED BY <1>4, <1>5, <1>6, <1>7, <1>8, <1>9 DEF StoreInv

LEMMA CommitInv == ASSUME StoreInv, Commit PROVE StoreInv'
<1>1. /\ tx.by # Absent /\ tx.done /\ tx \in TxType /\ tx.by \in Writers
      /\ log' = tx.log /\ tx' = Closed /\ UNCHANGED <<fresh, file, lines, reader>>
      /\ log \in Seq(Event) /\ tx.log \in Seq(Event) /\ held \in [Writers -> Seq(Event)]
      /\ late \in [Writers -> Nat]
  BY DEF Commit, StoreInv, StoreTypeOK, TxType
<1>2. /\ Session!Extends(log, tx.log) /\ Unique(tx.log) /\ KeyOnce(tx.log) /\ Below(tx.log)
      /\ \A i \in 1 .. Len(log) : i \in 1 .. Len(tx.log) /\ tx.log[i] = log[i]
      /\ Len(log) <= Len(tx.log) /\ Len(log) \in Nat /\ Len(tx.log) \in Nat
  BY <1>1 DEF StoreInv, TxOk, Session!Extends
<1>3. held' \in [Writers -> Seq(Event)] /\ late' \in [Writers -> Nat] /\ lastSet' \in Nat
      /\ opened' \subseteq Writers
  <2>1. held' \in [Writers -> Seq(Event)]
    BY <1>1 DEF Commit
  <2>2. late' \in [Writers -> Nat]
    BY <1>1 DEF Commit, TxType
  <2>3. lastSet' \in Nat /\ opened' \subseteq Writers
    BY <1>1 DEF Commit, TxType, StoreInv, StoreTypeOK
  <2> QED BY <2>1, <2>2, <2>3
<1>4. StoreTypeOK'
  BY <1>1, <1>3, ClosedType DEF StoreInv, StoreTypeOK, TxType
<1>5. LogOk'
  BY <1>1, <1>2 DEF LogOk, Unique, KeyOnce, Below, Session!StoredOnce
<1>6. TxOk' /\ StateOk'
  BY <1>1 DEF TxOk, StateOk, Closed
<1>7. HeldOk'
  <2>1. \A v \in Writers : held'[v] = held[v] \/ held'[v] = tx.log
    BY <1>1 DEF Commit
  <2>2. \A id : Has(log, id) => Has(tx.log, id)
    BY <1>2 DEF Has
  <2>3. ASSUME NEW v \in Writers, NEW i \in 1 .. Len(held'[v])
        PROVE  held'[v][i].id <= fresh
               /\ (Private(held'[v][i]) \/ Has(tx.log, held'[v][i].id))
    <3>1. CASE held'[v] = held[v]
      BY <3>1, <2>2, <2>3 DEF StoreInv, HeldOk
    <3>2. CASE held'[v] = tx.log
      BY <3>2, <2>3, <1>2 DEF Below, Has
    <3> QED BY <3>1, <3>2, <2>1
  <2> QED BY <2>3, <1>1 DEF HeldOk, Private, Has
<1>8. StateIsLastSet'
  <2>1. lastSet' # 0 => State(tx.log) = {lastSet'}
    BY <1>1 DEF StoreInv, StateOk, Commit
  <2>2. State(log)' = State(tx.log)
    BY <1>1 DEF State
  <2> QED BY <2>1, <2>2 DEF StateIsLastSet
<1>9. ReaderOk'
  <2>1. reader.after \in Nat /\ reader.after <= Len(log)
        /\ reader.seen = {i \in 1 .. reader.after : log[i].type = "event"}
    BY DEF StoreInv, ReaderOk, FollowsGapFree, StoreTypeOK
  <2>2. \A i \in 1 .. reader.after : tx.log[i] = log[i]
    BY <1>2, <2>1
  <2> QED BY <1>1, <1>2, <2>1, <2>2 DEF ReaderOk, FollowsGapFree
<1> QED BY <1>4, <1>5, <1>6, <1>7, <1>8, <1>9 DEF StoreInv

-----------------------------------------------------------------------------
(* Theorems *)

LEMMA InitInv == ASSUME StoreInit PROVE StoreInv
<1>1. [n \in 1 .. Legacy |-> [sequence |-> n, value |-> OldLine(n)]] \in Seq(Line)
  <2>1. \A n \in 1 .. Legacy : [sequence |-> n, value |-> OldLine(n)] \in Line
    BY SessionStoreConstants DEF Line, OldLine
  <2> QED BY <2>1, SessionStoreConstants
<1>2. <<>> \in Seq(Event) /\ Len(<<>>) = 0
  OBVIOUS
<1>3. StoreTypeOK
  BY <1>1, <1>2, ClosedType, SessionStoreConstants DEF StoreInit, StoreTypeOK, TxType, OldValue
<1>4. LogOk /\ HeldOk /\ ReaderOk
  BY <1>2 DEF StoreInit, LogOk, HeldOk, ReaderOk, Unique, KeyOnce, Below, FollowsGapFree, Session!StoredOnce
<1>5. TxOk /\ StateIsLastSet /\ StateOk
  BY DEF StoreInit, TxOk, StateIsLastSet, StateOk, Closed
<1> QED BY <1>3, <1>4, <1>5 DEF StoreInv

LEMMA NextInv == ASSUME StoreInv, [StoreNext]_storeVars PROVE StoreInv'
<1>1. CASE UNCHANGED storeVars
  <2>1. StoreTypeOK'
    BY <1>1 DEF StoreInv, StoreTypeOK, storeVars
  <2> QED BY <1>1, <2>1, FileInv DEF storeVars
<1>2. ASSUME NEW w \in Writers, NEW op \in Ops \ {"append"}, OpenTransaction(w, op, Absent) PROVE StoreInv'
  BY <1>2, BeginInv
<1>3. ASSUME NEW w \in Writers, NEW k \in Keys \cup {Absent}, OpenTransaction(w, "append", k) PROVE StoreInv'
  BY <1>3, BeginInv DEF Ops
<1>4. ASSUME NEW w \in Writers, Load(w) \/ Think(w) \/ WriteLate(w) \/ WriterDies(w) PROVE StoreInv'
  BY <1>4, LoadInv, ThinkInv, WriteLateInv, CrashInv
<1>5. CASE Merge \/ AppendOnce \/ Emit \/ SetState \/ Read \/ Migrate
  BY <1>5, WorksInv, MergeWorks, AppendWorks, EmitWorks, SetWorks, ReadWorks, MigrateWorks
<1>6. CASE WriteEarly \/ Commit \/ Abort \/ Follow
  BY <1>6, WriteEarlyInv, CommitInv, AbortInv, FollowInv
<1> QED BY <1>1, <1>2, <1>3, <1>4, <1>5, <1>6 DEF StoreNext

LEMMA SpecInv == StoreSpec => []StoreInv
<1>1. StoreInit => StoreInv
  BY InitInv
<1>2. StoreInv /\ [StoreNext]_storeVars => StoreInv'
  BY NextInv
<1> QED BY <1>1, <1>2, PTL DEF StoreSpec

(* The store, its files and every Session held keep their types. *)
THEOREM StoreTypes == StoreSpec => []StoreTypeOK
<1>1. StoreInv => StoreTypeOK
  BY DEF StoreInv
<1> QED BY <1>1, SpecInv, PTL

(* append_if_sequence: whatever is saved, merged or rolled back, one       *)
(* idempotency key is in the Session once.                                 *)
THEOREM KeysOnce == StoreSpec => []OncePerKey
<1>1. StoreInv => OncePerKey
  BY DEF StoreInv, LogOk, KeyOnce, OncePerKey
<1> QED BY <1>1, SpecInv, PTL

(* set_state and state: neither a stale file nor a stale Session saved     *)
(* later supersedes the value that was committed last.                     *)
THEOREM StateLastSet == StoreSpec => []StateIsLastSet
<1>1. StoreInv => StateIsLastSet
  BY DEF StoreInv
<1> QED BY <1>1, SpecInv, PTL

(* stream_events: the page has seen every event up to its cursor. *)
THEOREM PageMissesNothing == StoreSpec => []FollowsGapFree
<1>1. StoreInv => FollowsGapFree
  BY DEF StoreInv, ReaderOk
<1> QED BY <1>1, SpecInv, PTL

(* The store implements the append-only history. *)
THEOREM StoreIsASessionLog == StoreSpec => ImplementsSessionLog
<1>1. StoreInit => Session!Init
  BY DEF StoreInit, Session!Init
<1>2. StoreInv /\ [StoreNext]_storeVars => [Session!Grow]_log
  <2> SUFFICES ASSUME StoreInv, [StoreNext]_storeVars, log' # log PROVE Session!Grow
    OBVIOUS
  <2>1. CASE Commit
    <3>1. tx.by # Absent /\ log' = tx.log /\ tx.log \in Seq(Event)
      BY <2>1 DEF Commit, StoreInv, StoreTypeOK
    <3> QED BY <3>1 DEF StoreInv, TxOk, Unique, Session!Grow
  <2>2. CASE ~Commit
    BY <2>2 DEF StoreNext, storeVars, OpenTransaction, Load, Think, WriteLate, WriterDies, Merge, AppendOnce, Emit,
                SetState, WriteEarly, Read, Migrate, Abort, Follow
  <2> QED BY <2>1, <2>2
<1> QED BY <1>1, <1>2, SpecInv, PTL DEF StoreSpec, ImplementsSessionLog, Session!Spec

-----------------------------------------------------------------------------
(* The lines of the page's log *)

(* A caller's key is never the key of a line (tool_protocol.py:141 has a   *)
(* prefix for those).                                                      *)
KeysAreNames == Keys \cap Nat = {} /\ Absent \notin Nat

OldIn(s, n) == \E i \in 1 .. Len(s) : s[i].value = OldLine(n)

(* Each line is one event of s, none is newer than the value n, and an     *)
(* event with the key of a line was imported.                              *)
LinesOnce(s) ==
  \A i, j \in 1 .. Len(s) :
    s[i].type = "event" /\ s[j].type = "event" /\ s[i].value = s[j].value => i = j
ValuesUpTo(s, n) ==
  \A i \in 1 .. Len(s) : s[i].type = "event" => s[i].value <= n \/ s[i].value > MaxEvents
NumbersImported(s) == \A i \in 1 .. Len(s) : s[i].key \in Nat => s[i].type = "event"

(* Once marked, the old lines are there, and no event is there before.     *)
MarkedIsWhole(s) == HasType(s, "migrated") => \A n \in 1 .. Legacy : OldIn(s, n)
MarkedFirst(s)   == Legacy # 0 /\ HasType(s, "event") => HasType(s, "migrated")

LinesOf(s, n) == LinesOnce(s) /\ ValuesUpTo(s, n) /\ NumbersImported(s) /\ MarkedIsWhole(s)

(* The file begins with the old lines, and no value is in it twice.        *)
FileBegins(l, n) ==
  /\ Legacy <= Len(l)
  /\ \A i \in 1 .. Legacy : l[i].sequence = i /\ l[i].value = OldLine(i)
  /\ \A i, j \in 1 .. Len(l) : l[i].value = l[j].value => i = j
  /\ \A i \in 1 .. Len(l) : l[i].value <= n \/ l[i].value > MaxEvents

(* While lines are imported, the events are what was read so far.          *)
Imports(t, s, l) ==
  t.by # Absent /\ t.op = "migrate" /\ ~t.done =>
    \/ t.at = 0 /\ t.log = s
    \/ /\ t.at # 0 /\ ~HasType(t.log, "migrated")
       /\ \A i \in 1 .. Len(t.log) : t.log[i].type = "event" =>
            \E n \in 1 .. t.at : /\ t.log[i].value = l[n].value
                                 /\ t.log[i].key \in Nat => t.log[i].key = l[n].sequence
       /\ \A n \in 1 .. Legacy : n <= t.at => OldIn(t.log, n)

(* An EventLog that is open has the mark, and so does what opens it.       *)
Marks(t, s, o) ==
  /\ MarkedFirst(s) /\ (Legacy # 0 /\ o # {} => HasType(s, "migrated"))
  /\ t.by # Absent =>
       /\ t.op = "emit" => t.by \in o
       /\ t.op # "migrate" \/ t.done => MarkedFirst(t.log)
       /\ t.op = "migrate" /\ t.done /\ Legacy # 0 => HasType(t.log, "migrated")

LinesInv ==
  /\ FileBegins(lines, fresh) /\ LinesOf(log, fresh)
  /\ tx.by # Absent => LinesOf(tx.log, fresh)
  /\ Imports(tx, log, lines) /\ Marks(tx, log, opened)

LEMMA LinesInvNext ==
  ASSUME FileBegins(lines', fresh'), LinesOf(log', fresh'),
         tx'.by # Absent => LinesOf(tx'.log, fresh'),
         Imports(tx', log', lines'), Marks(tx', log', opened')
  PROVE  LinesInv'
BY DEF LinesInv, FileBegins, LinesOf, LinesOnce, ValuesUpTo, NumbersImported, MarkedIsWhole,
       MarkedFirst, Imports, Marks, HasType, OldIn

(* Time passes. *)
LEMMA LinesLater ==
  ASSUME NEW s \in Seq(Event), NEW n \in Nat, NEW m \in Nat, n <= m, LinesOf(s, n)
  PROVE  LinesOf(s, m)
<1>1. \A i \in 1 .. Len(s) : s[i].value \in Nat
  <2>1. \A i \in 1 .. Len(s) : s[i] \in Event
    OBVIOUS
  <2> QED BY <2>1 DEF Event
<1>2. ValuesUpTo(s, n) => ValuesUpTo(s, m)
  BY <1>1 DEF ValuesUpTo
<1> QED BY <1>2 DEF LinesOf

LEMMA FileLater ==
  ASSUME NEW l \in Seq(Line), NEW n \in Nat, NEW m \in Nat, n <= m, FileBegins(l, n)
  PROVE  FileBegins(l, m)
<1>1. \A i \in 1 .. Len(l) : l[i].value \in Nat
  <2>1. \A i \in 1 .. Len(l) : l[i] \in Line
    OBVIOUS
  <2> QED BY <2>1 DEF Line
<1> QED BY <1>1 DEF FileBegins

LEMMA HasTypeAppend ==
  ASSUME NEW s \in Seq(Event), NEW e \in Event, NEW type
  PROVE  HasType(Append(s, e), type) <=> HasType(s, type) \/ e.type = type
<1>1. ASSUME HasType(s, type) PROVE HasType(Append(s, e), type)
  BY <1>1, AppendFacts DEF HasType
<1>2. ASSUME e.type = type PROVE HasType(Append(s, e), type)
  BY <1>2, AppendFacts DEF HasType
<1>3. ASSUME HasType(Append(s, e), type), ~HasType(s, type) PROVE e.type = type
  BY <1>3, AppendFacts DEF HasType
<1> QED BY <1>1, <1>2, <1>3

LEMMA OldInAppend ==
  ASSUME NEW s \in Seq(Event), NEW e \in Event, NEW n
  PROVE  /\ OldIn(s, n) => OldIn(Append(s, e), n)
         /\ e.value = OldLine(n) => OldIn(Append(s, e), n)
<1>1. ASSUME OldIn(s, n) PROVE OldIn(Append(s, e), n)
  BY <1>1, AppendFacts DEF OldIn
<1>2. ASSUME e.value = OldLine(n) PROVE OldIn(Append(s, e), n)
  BY <1>2, AppendFacts DEF OldIn
<1> QED BY <1>1, <1>2

(* What an event must be for the lines to stay as they are. *)
LEMMA LinesAppend ==
  ASSUME NEW s \in Seq(Event), NEW e \in Event, NEW n \in Nat, LinesOf(s, n),
         e.key \in Nat => e.type = "event",
         e.type = "migrated" => \A k \in 1 .. Legacy : OldIn(s, k),
         e.type = "event" => /\ e.value <= n \/ e.value > MaxEvents
                             /\ \A i \in 1 .. Len(s) : s[i].type = "event" => s[i].value # e.value
  PROVE  LinesOf(Append(s, e), n)
<1> DEFINE t == Append(s, e)
<1>1. /\ Len(t) = Len(s) + 1 /\ Len(s) \in Nat /\ t[Len(s) + 1] = e
      /\ \A i \in 1 .. Len(s) : t[i] = s[i]
      /\ \A i \in 1 .. Len(t) : i = Len(s) + 1 \/ i \in 1 .. Len(s)
  BY AppendFacts
<1>2. \A k : OldIn(s, k) => OldIn(t, k)
  BY OldInAppend
<1>3. HasType(t, "migrated") => HasType(s, "migrated") \/ e.type = "migrated"
  BY HasTypeAppend
<1> HIDE DEF t
<1>4. LinesOnce(t)
  <2> SUFFICES ASSUME NEW i \in 1 .. Len(t), NEW j \in 1 .. Len(t), t[i].type = "event",
                      t[j].type = "event", t[i].value = t[j].value
               PROVE  i = j
    BY DEF LinesOnce
  <2>1. CASE i \in 1 .. Len(s) /\ j \in 1 .. Len(s)
    BY <1>1, <2>1 DEF LinesOf, LinesOnce
  <2>2. CASE i = Len(s) + 1 /\ j \in 1 .. Len(s)
    BY <1>1, <2>2
  <2>3. CASE i \in 1 .. Len(s) /\ j = Len(s) + 1
    BY <1>1, <2>3
  <2> QED BY <1>1, <2>1, <2>2, <2>3
<1>5. ValuesUpTo(t, n)
  BY <1>1 DEF LinesOf, ValuesUpTo
<1>6. NumbersImported(t)
  BY <1>1 DEF LinesOf, NumbersImported
<1>7. MarkedIsWhole(t)
  BY <1>2, <1>3 DEF LinesOf, MarkedIsWhole
<1>8. LinesOf(t, n)
  BY <1>4, <1>5, <1>6, <1>7 DEF LinesOf
<1> QED BY <1>8 DEF t

QuietEvent(e) == e.type \notin {"event", "migrated"} /\ e.key \notin Nat

(* A step of a transaction that is no part of the page's log. *)
LEMMA QuietLines ==
  ASSUME StoreInv, StoreInv', LinesInv, tx.by # Absent, tx.op \notin {"emit", "migrate"},
         tx'.by = tx.by, tx'.op = tx.op, fresh <= fresh', UNCHANGED <<log, lines, opened>>,
         tx'.log = tx.log \/ \E e \in Event : QuietEvent(e) /\ tx'.log = Append(tx.log, e)
  PROVE  LinesInv'
<1>1. /\ fresh \in Nat /\ fresh' \in Nat /\ log \in Seq(Event) /\ tx.log \in Seq(Event)
      /\ lines \in Seq(Line)
  BY DEF StoreInv, StoreTypeOK
<1>2. FileBegins(lines', fresh') /\ LinesOf(log', fresh') /\ LinesOf(tx.log, fresh')
  BY <1>1, FileLater, LinesLater DEF LinesInv
<1>3. LinesOf(tx'.log, fresh')
  BY <1>1, <1>2, LinesAppend DEF QuietEvent
<1>4. MarkedFirst(tx.log) => MarkedFirst(tx'.log)
  <2>1. ASSUME NEW e \in Event, QuietEvent(e)
        PROVE  HasType(Append(tx.log, e), "event") <=> HasType(tx.log, "event")
    BY <1>1, <2>1, HasTypeAppend DEF QuietEvent
  <2>2. ASSUME NEW e \in Event
        PROVE  HasType(tx.log, "migrated") => HasType(Append(tx.log, e), "migrated")
    BY <1>1, HasTypeAppend
  <2> QED BY <2>1, <2>2 DEF MarkedFirst
<1>5. Imports(tx', log', lines')
  BY DEF Imports
<1>6. Marks(tx', log', opened')
  BY <1>4 DEF LinesInv, Marks
<1> QED BY <1>2, <1>3, <1>5, <1>6, LinesInvNext

LEMMA QuietSteps ==
  ASSUME KeysAreNames, StoreInv, StoreInv', LinesInv, Merge \/ AppendOnce \/ SetState \/ Read
  PROVE  LinesInv'
<1> DEFINE Quiet == \/ tx'.log = tx.log
                    \/ \E e \in Event : QuietEvent(e) /\ tx'.log = Append(tx.log, e)
<1>1. /\ tx \in TxType /\ fresh \in Nat /\ tx.log \in Seq(Event)
      /\ held \in [Writers -> Seq(Event)] /\ file \in Nat
  BY DEF StoreInv, StoreTypeOK, TxType
<1>2. tx.by # Absent /\ ~tx.done /\ tx.op \notin {"emit", "migrate"}
      /\ UNCHANGED <<log, lines, opened>>
  BY DEF Merge, AppendOnce, SetState, Read, In
<1>3. tx'.by = tx.by /\ tx'.op = tx.op /\ fresh <= fresh'
  <2>1. Works
    BY MergeWorks, AppendWorks, SetWorks, ReadWorks
  <2> QED BY <2>1 DEF Works
<1>4. ASSUME NEW type \in {"note", "state"}, NEW key \in Keys \cup {Absent}, NEW value \in Nat,
             fresh < MaxEvents, tx'.log = Append(tx.log, New(type, key, value))
      PROVE  Quiet
  <2>1. type \in Types /\ key \in Keys \cup Nat \cup {Absent} /\ key \notin Nat
    BY DEF Types, KeysAreNames
  <2>2. LET e == New(type, key, value) IN e \in Event /\ e.type = type /\ e.key = key
    BY <1>2, <1>4, <2>1, NewFacts
  <2> QED BY <1>4, <2>1, <2>2 DEF QuietEvent
<1>5. ASSUME NEW type, NEW key, NEW value, Add(type, key, value)
      PROVE  fresh < MaxEvents /\ tx'.log = Append(tx.log, New(type, key, value))
  BY <1>1, <1>5 DEF Add, TxType
<1>6. ASSUME Merge PROVE Quiet
  <2> DEFINE mine == held[tx.by]
             e    == mine[tx.at + 1]
  <2>1. tx.by \in Writers /\ tx.op = "save" /\ tx.at \in Nat
    BY <1>1, <1>2, <1>6 DEF Merge, In, TxType
  <2>2. mine \in Seq(Event) /\ tx.at <= Len(mine) /\ Len(mine) \in Nat
    BY <1>1, <1>2, <2>1 DEF StoreInv, TxOk
  <2>3. CASE tx'.log = tx.log
    BY <2>3
  <2>4. CASE tx'.log # tx.log
    <3>1. tx.at # Len(mine) /\ ~Has(tx.log, e.id) /\ tx'.log = Append(tx.log, e)
      BY <1>1, <1>6, <2>4 DEF Merge, TxType
    <3>2. tx.at + 1 \in 1 .. Len(mine) /\ e \in Event
      BY <2>1, <2>2, <3>1
    <3>3. Private(e) \/ Has(log, e.id)
      BY <2>1, <3>2 DEF StoreInv, HeldOk
    <3> HIDE DEF e, mine
    <3>4. Private(e)
      <4>1. log \in Seq(Event) /\ Session!Extends(log, tx.log)
        BY <1>2 DEF StoreInv, TxOk, StoreTypeOK
      <4>2. \A i \in 1 .. Len(log) : i \in 1 .. Len(tx.log) /\ tx.log[i] = log[i]
        BY <4>1, <1>1 DEF Session!Extends
      <4> QED BY <4>2, <3>1, <3>3 DEF Has
    <3>5. QuietEvent(e)
      BY <3>4 DEF Private, QuietEvent, KeysAreNames
    <3> QED BY <3>1, <3>2, <3>5
  <2> QED BY <2>3, <2>4
<1>7. ASSUME AppendOnce PROVE Quiet
  <2>1. tx.key \in Keys \cup {Absent} /\ 0 \in Nat
    BY <1>1 DEF TxType
  <2>2. CASE Add("note", tx.key, 0)
    BY <1>4, <1>5, <2>1, <2>2
  <2>3. CASE Skip
    BY <1>1, <2>3 DEF Skip, TxType
  <2> QED BY <1>7, <2>2, <2>3 DEF AppendOnce
<1>8. ASSUME SetState PROVE Quiet
  <2>1. CASE \E v \in State(tx.log) : tx' = [tx EXCEPT !.done = TRUE, !.value = v]
    BY <1>1, <2>1 DEF TxType
  <2>2. ASSUME fresh < MaxEvents,
               tx' = [tx EXCEPT !.log = Append(@, New("state", Absent, fresh + 1)),
                                !.done = TRUE, !.value = fresh + 1]
        PROVE  Quiet
    <3>1. tx'.log = Append(tx.log, New("state", Absent, fresh + 1))
      BY <1>1, <2>2 DEF TxType
    <3>2. fresh + 1 \in Nat
      BY <1>1
    <3>3. \A v \in Nat : tx'.log = Append(tx.log, New("state", Absent, v)) => Quiet
      BY <1>4, <2>2
    <3> HIDE DEF Quiet
    <3> QED BY <3>1, <3>2, <3>3
  <2> QED BY <1>8, <2>1, <2>2 DEF SetState
<1>9. ASSUME Read PROVE Quiet
  <2>1. CASE Add("state", Absent, file)
    BY <1>1, <1>4, <1>5, <2>1
  <2>2. CASE Skip
    BY <1>1, <2>2 DEF Skip, TxType
  <2> QED BY <1>9, <2>1, <2>2 DEF Read
<1> QED BY <1>2, <1>3, <1>6, <1>7, <1>8, <1>9, QuietLines

(* emit: the value of the line is new. *)
LEMMA EmitLines ==
  ASSUME KeysAreNames, StoreInv, StoreInv', LinesInv, Emit
  PROVE  LinesInv'
<1> DEFINE e    == New("event", Absent, fresh + 1)
           line == [sequence |-> Len(tx.log) + 1, value |-> fresh + 1]
           n    == Len(lines)
<1>1. /\ tx \in TxType /\ fresh \in Nat /\ tx.log \in Seq(Event) /\ log \in Seq(Event)
      /\ lines \in Seq(Line) /\ n \in Nat
  BY DEF StoreInv, StoreTypeOK, TxType
<1>2. tx.by # Absent /\ ~tx.done /\ tx.op = "emit" /\ UNCHANGED <<log, opened>>
      /\ lines' = Append(lines, line) /\ fresh < MaxEvents /\ fresh' = fresh + 1
  BY DEF Emit, In, Add
<1>3. /\ tx'.log = Append(tx.log, e) /\ tx'.by = tx.by /\ tx'.op = tx.op
  BY <1>1 DEF Emit, Add, TxType
<1>4. fresh + 1 \in Nat /\ fresh <= fresh + 1 /\ ~(fresh + 1 <= fresh) /\ ~(fresh + 1 > MaxEvents)
      /\ MaxEvents \in Nat
  BY <1>1, <1>2, SessionStoreConstants
<1>5. e \in Event /\ e.type = "event" /\ e.key = Absent /\ e.value = fresh + 1
  BY <1>2, <1>4, NewEmission
<1> HIDE DEF e
<1>6. LinesOf(tx.log, fresh + 1) /\ LinesOf(log, fresh + 1) /\ FileBegins(lines, fresh + 1)
  BY <1>1, <1>2, <1>4, LinesLater, FileLater DEF LinesInv
<1>7. \A i \in 1 .. Len(tx.log) : tx.log[i].type = "event" => tx.log[i].value # e.value
  BY <1>2, <1>4, <1>5 DEF LinesInv, LinesOf, ValuesUpTo
<1>8. LinesOf(tx'.log, fresh')
  <2>1. e.type # "migrated" /\ e.key \notin Nat /\ e.value <= fresh + 1
    BY <1>1, <1>5 DEF KeysAreNames
  <2>2. LinesOf(Append(tx.log, e), fresh + 1)
    BY <1>1, <1>4, <1>5, <1>6, <1>7, <2>1, LinesAppend
  <2> QED BY <1>2, <1>3, <2>2
<1>9. FileBegins(lines', fresh')
  <2>1. line \in Line /\ line.value = fresh + 1
    BY <1>1 DEF Line
  <2> HIDE DEF line, n
  <2>2. /\ Len(lines') = n + 1 /\ lines'[n + 1] = line
        /\ \A i \in 1 .. n : lines'[i] = lines[i]
        /\ \A i \in 1 .. n + 1 : i \in 1 .. n \/ i = n + 1
    BY <1>1, <1>2, <2>1, AppendFacts DEF n
  <2>3. \A i \in 1 .. n : lines[i].value # fresh + 1
    BY <1>4 DEF LinesInv, FileBegins, n
  <2>4. /\ Legacy <= n /\ Legacy \in Nat
        /\ \A i \in 1 .. Legacy : lines[i].sequence = i /\ lines[i].value = OldLine(i)
        /\ \A i, j \in 1 .. n : lines[i].value = lines[j].value => i = j
        /\ \A i \in 1 .. n : lines[i].value <= fresh + 1 \/ lines[i].value > MaxEvents
    BY <1>6, SessionStoreConstants DEF FileBegins, n
  <2>5. \A i \in 1 .. Legacy : i \in 1 .. n
    BY <1>1, <2>4
  <2>6. Legacy <= n + 1
    BY <1>1, <2>4
  <2>7. \A i, j \in 1 .. n + 1 : lines'[i].value = lines'[j].value => i = j
    BY <2>1, <2>2, <2>3, <2>4
  <2>8. \A i \in 1 .. n + 1 : lines'[i].value <= fresh + 1 \/ lines'[i].value > MaxEvents
    BY <1>4, <2>1, <2>2, <2>4
  <2> QED BY <1>2, <2>2, <2>4, <2>5, <2>6, <2>7, <2>8 DEF FileBegins
<1>10. Marks(tx', log', opened')
  <2>1. Legacy # 0 => HasType(log, "migrated")
    BY <1>2 DEF LinesInv, Marks
  <2>2. HasType(log, "migrated") => HasType(tx.log, "migrated")
    <3>1. Session!Extends(log, tx.log) /\ Len(log) \in Nat /\ Len(tx.log) \in Nat
      BY <1>1, <1>2 DEF StoreInv, TxOk
    <3> QED BY <3>1 DEF Session!Extends, HasType
  <2>3. HasType(tx.log, "migrated") => HasType(tx'.log, "migrated")
    BY <1>1, <1>3, <1>5, HasTypeAppend
  <2>4. MarkedFirst(tx'.log)
    BY <2>1, <2>2, <2>3 DEF MarkedFirst
  <2> QED BY <1>2, <1>3, <2>4 DEF LinesInv, Marks
<1>11. Imports(tx', log', lines')
  BY <1>2, <1>3 DEF Imports
<1> QED BY <1>2, <1>6, <1>8, <1>9, <1>10, <1>11, LinesInvNext

(* A step of the migration. *)
LEMMA MigrateLines ==
  ASSUME KeysAreNames, StoreInv, StoreInv', LinesInv, Migrate
  PROVE  LinesInv'
<1> DEFINE line == lines[tx.at + 1]
<1>1. /\ tx \in TxType /\ fresh \in Nat /\ tx.log \in Seq(Event) /\ log \in Seq(Event)
      /\ lines \in Seq(Line) /\ tx.at \in Nat /\ Len(lines) \in Nat /\ Legacy \in Nat
  BY SessionStoreConstants DEF StoreInv, StoreTypeOK, TxType
<1>2. /\ tx.by # Absent /\ ~tx.done /\ tx.op = "migrate" /\ UNCHANGED <<log, opened, lines>>
      /\ tx.at <= Len(lines)
  BY DEF Migrate, In, StoreInv, TxOk
<1>3. /\ FileBegins(lines, fresh) /\ LinesOf(log, fresh) /\ LinesOf(tx.log, fresh)
      /\ MarkedFirst(log) /\ (Legacy # 0 /\ opened # {} => HasType(log, "migrated"))
  BY <1>2 DEF LinesInv, Marks
<1>4. \/ tx.at = 0 /\ tx.log = log
      \/ /\ tx.at # 0 /\ ~HasType(tx.log, "migrated")
         /\ \A i \in 1 .. Len(tx.log) : tx.log[i].type = "event" =>
              \E n \in 1 .. tx.at : /\ tx.log[i].value = lines[n].value
                                    /\ tx.log[i].key \in Nat => tx.log[i].key = lines[n].sequence
         /\ \A n \in 1 .. Legacy : n <= tx.at => OldIn(tx.log, n)
  BY <1>2 DEF LinesInv, Imports
<1>5. /\ Legacy <= Len(lines)
      /\ \A i \in 1 .. Legacy : lines[i].sequence = i /\ lines[i].value = OldLine(i)
      /\ \A i, j \in 1 .. Len(lines) : lines[i].value = lines[j].value => i = j
      /\ \A i \in 1 .. Len(lines) : lines[i].value <= fresh \/ lines[i].value > MaxEvents
  BY <1>3 DEF FileBegins
<1>6. CASE Skip /\ (lines = <<>> \/ (tx.at = 0 /\ HasType(tx.log, "migrated")))
  <2>1. /\ tx'.log = tx.log /\ tx'.by = tx.by /\ tx'.op = tx.op /\ tx'.done /\ fresh' = fresh
    BY <1>1, <1>6 DEF Skip, TxType
  <2>2. Legacy # 0 => HasType(tx.log, "migrated")
    BY <1>1, <1>5, <1>6
  <2>3. MarkedFirst(tx'.log)
    BY <2>1, <2>2 DEF MarkedFirst
  <2>4. Marks(tx', log', opened')
    BY <1>2, <1>3, <2>1, <2>2, <2>3 DEF Marks
  <2>5. Imports(tx', log', lines')
    BY <2>1 DEF Imports
  <2> QED BY <1>2, <1>3, <2>1, <2>4, <2>5, LinesInvNext
<1>7. ASSUME Add("migrated", Absent, 0), ~(tx.at = 0 /\ HasType(tx.log, "migrated")),
             tx.at = Len(lines) \/ (tx.at = 0 /\ HasType(tx.log, "event")), lines # <<>>
      PROVE  LinesInv'
  <2> DEFINE e == New("migrated", Absent, 0)
  <2>1. /\ tx'.log = Append(tx.log, e) /\ tx'.by = tx.by /\ tx'.op = tx.op /\ tx'.done
        /\ fresh' = fresh + 1 /\ fresh < MaxEvents
    BY <1>1, <1>7 DEF Add, TxType
  <2>2. e \in Event /\ e.type = "migrated" /\ e.key = Absent /\ fresh + 1 \in Nat /\ fresh <= fresh + 1
    <3>1. ASSUME NEW v \in Nat
          PROVE  LET x == New("migrated", Absent, v) IN
                 x \in Event /\ x.type = "migrated" /\ x.key = Absent /\ x.value = v
      <4>1. tx.by # Absent /\ fresh < MaxEvents
        BY <1>2, <2>1
      <4> QED BY <4>1, NewFacts DEF Types
    <3>2. fresh + 1 \in Nat /\ fresh <= fresh + 1
      BY <1>1
    <3> QED BY <3>1, <3>2
  <2> HIDE DEF e
  <2>3. FileBegins(lines', fresh') /\ LinesOf(log', fresh') /\ LinesOf(tx.log, fresh')
    BY <1>1, <1>2, <1>3, <2>1, <2>2, LinesLater, FileLater
  <2>4. \A k \in 1 .. Legacy : OldIn(tx.log, k)
    <3>1. CASE tx.at = 0 /\ HasType(tx.log, "event")
      BY <1>1, <1>3, <1>4, <1>7, <3>1 DEF MarkedFirst
    <3>2. CASE tx.at = Len(lines)
      <4>1. tx.at # 0
        BY <1>1, <1>7, <3>2
      <4>2. \A k \in 1 .. Legacy : k <= tx.at
        BY <1>1, <1>5, <3>2
      <4> QED BY <1>4, <4>1, <4>2
    <3> QED BY <1>7, <3>1, <3>2
  <2>5. LinesOf(tx'.log, fresh')
    BY <1>1, <2>1, <2>2, <2>3, <2>4, LinesAppend DEF KeysAreNames
  <2>6. HasType(tx'.log, "migrated")
    BY <1>1, <2>1, <2>2, HasTypeAppend
  <2>7. Marks(tx', log', opened')
    BY <1>2, <1>3, <2>1, <2>6 DEF Marks, MarkedFirst
  <2>8. Imports(tx', log', lines')
    BY <2>1 DEF Imports
  <2> QED BY <2>3, <2>5, <2>7, <2>8, LinesInvNext
<1>8. ASSUME tx.at # Len(lines), lines # <<>>, ~(tx.at = 0 /\ HasType(tx.log, "migrated")),
             ~(tx.at = 0 /\ HasType(tx.log, "event")),
             IF HasKey(tx.log, line.sequence)
             THEN tx' = [tx EXCEPT !.at = @ + 1] /\ UNCHANGED fresh
             ELSE Import(line.sequence, line.value)
      PROVE  LinesInv'
  <2>1. /\ tx.at + 1 \in 1 .. Len(lines) /\ line \in Line
        /\ line.sequence \in Nat /\ line.value \in Nat
    <3>1. tx.at + 1 \in 1 .. Len(lines)
      BY <1>1, <1>2, <1>8
    <3>2. line \in Line
      BY <1>1, <3>1
    <3> QED BY <3>1, <3>2 DEF Line
  <2>2. \A i \in 1 .. Len(tx.log) : tx.log[i].type = "event" =>
          \E n \in 1 .. tx.at : /\ tx.log[i].value = lines[n].value
                                /\ tx.log[i].key \in Nat => tx.log[i].key = lines[n].sequence
    BY <1>4, <1>8 DEF HasType
  <2>3. ~HasType(tx.log, "migrated") /\ \A n \in 1 .. Legacy : n <= tx.at => OldIn(tx.log, n)
    BY <1>1, <1>4, <1>8
  <2>4. \A n \in 1 .. tx.at : n \in 1 .. tx.at + 1 /\ n \in 1 .. Len(lines) /\ n # tx.at + 1
    BY <1>1, <1>2
  <2>5. tx.at + 1 # 0 /\ tx.at + 1 \in Nat
    BY <1>1
  <2>6. CASE HasKey(tx.log, line.sequence)
    <3>1. /\ tx'.log = tx.log /\ tx'.by = tx.by /\ tx'.op = tx.op /\ tx'.at = tx.at + 1
          /\ tx'.done = tx.done /\ fresh' = fresh
      BY <1>1, <1>8, <2>6 DEF TxType
    <3>2. tx.at + 1 \notin 1 .. Legacy
      <4>1. PICK i \in 1 .. Len(tx.log) : tx.log[i].key = line.sequence
        BY <2>6 DEF HasKey
      <4>2. tx.log[i].type = "event"
        BY <1>3, <2>1, <4>1 DEF LinesOf, NumbersImported
      <4>3. PICK n \in 1 .. tx.at : tx.log[i].key = lines[n].sequence
        BY <2>1, <2>2, <4>1, <4>2
      <4>4. ASSUME tx.at + 1 \in 1 .. Legacy PROVE FALSE
        <5>1. n \in 1 .. Legacy
          BY <1>1, <4>4
        <5>2. lines[n].sequence = n /\ line.sequence = tx.at + 1
          BY <1>5, <4>4, <5>1
        <5> QED BY <2>4, <4>1, <4>3, <5>2
      <4> QED BY <4>4
    <3>3. \A n \in 1 .. Legacy : n <= tx.at + 1 => OldIn(tx.log, n)
      BY <1>1, <2>3, <3>2
    <3>4. \A i \in 1 .. Len(tx.log) : tx.log[i].type = "event" =>
            \E n \in 1 .. tx.at + 1 :
               /\ tx.log[i].value = lines[n].value
               /\ tx.log[i].key \in Nat => tx.log[i].key = lines[n].sequence
      BY <2>2, <2>4
    <3>5. Imports(tx', log', lines')
      BY <1>2, <2>3, <2>5, <3>1, <3>3, <3>4 DEF Imports
    <3>6. Marks(tx', log', opened')
      BY <1>2, <1>3, <3>1 DEF Marks
    <3> QED BY <1>2, <1>3, <3>1, <3>5, <3>6, LinesInvNext
  <2>7. CASE ~HasKey(tx.log, line.sequence)
    <3> DEFINE e == New("event", line.sequence, line.value)
               s == Append(tx.log, e)
    <3>0. fresh < MaxEvents /\ fresh' = fresh + 1
          /\ tx' = [tx EXCEPT !.at = tx.at + 1, !.log = Append(tx.log, e)]
      BY <1>1, <1>8, <2>7 DEF Import, TxType
    <3>1. /\ e \in Event /\ e.type = "event" /\ e.key = line.sequence /\ e.value = line.value
          /\ fresh + 1 \in Nat /\ fresh <= fresh + 1
      <4>1. ASSUME NEW q \in Nat, NEW v \in Nat
            PROVE  LET x == New("event", q, v) IN
                   /\ x \in Event /\ x.type = "event" /\ x.key = q /\ x.value = v
                   /\ fresh + 1 \in Nat /\ fresh <= fresh + 1
        BY <1>2, <3>0, NewFacts DEF Types
      <4> QED BY <2>1, <4>1
    <3> HIDE DEF e
    <3>2. s \in Seq(Event)
      BY <1>1, <3>1, AppendFacts
    <3>3. /\ tx'.log = s /\ tx'.at = tx.at + 1 /\ tx'.by = tx.by /\ tx'.op = tx.op
      BY <1>1, <3>0, <3>2, TxAppend
    <3>4. tx'.done = tx.done
      BY <1>1, <3>0 DEF TxType
    <3>5. FileBegins(lines', fresh') /\ LinesOf(log', fresh') /\ LinesOf(tx.log, fresh')
      BY <1>1, <1>2, <1>3, <3>0, <3>1, LinesLater, FileLater
    <3>6. \A i \in 1 .. Len(tx.log) : tx.log[i].type = "event" => tx.log[i].value # e.value
      BY <1>5, <2>1, <2>2, <2>4, <3>1
    <3>7. e.value <= fresh' \/ e.value > MaxEvents
      BY <1>1, <1>5, <2>1, <3>0, <3>1
    <3>8. LinesOf(s, fresh')
      BY <1>1, <3>0, <3>1, <3>5, <3>6, <3>7, LinesAppend
    <3>9. ~HasType(s, "migrated")
      BY <1>1, <2>3, <3>1, HasTypeAppend
    <3>10. /\ Len(s) = Len(tx.log) + 1 /\ Len(tx.log) \in Nat /\ s[Len(tx.log) + 1] = e
           /\ \A i \in 1 .. Len(tx.log) : s[i] = tx.log[i]
           /\ \A i \in 1 .. Len(s) : i \in 1 .. Len(tx.log) \/ i = Len(tx.log) + 1
      BY <1>1, <3>1, AppendFacts
    <3>11. \A n \in 1 .. Legacy : n <= tx.at + 1 => OldIn(s, n)
      <4> SUFFICES ASSUME NEW n \in 1 .. Legacy, n <= tx.at + 1 PROVE OldIn(s, n)
        OBVIOUS
      <4>1. CASE n = tx.at + 1
        <5>1. e.value = OldLine(n)
          BY <1>5, <3>1, <4>1
        <5> QED BY <1>1, <3>1, <5>1, OldInAppend
      <4>2. CASE n <= tx.at
        BY <1>1, <2>3, <3>1, <4>2, OldInAppend
      <4> QED BY <1>1, <4>1, <4>2
    <3> HIDE DEF s
    <3>12. ASSUME NEW i \in 1 .. Len(s), s[i].type = "event"
           PROVE  \E n \in 1 .. tx.at + 1 :
                     /\ s[i].value = lines[n].value
                     /\ s[i].key \in Nat => s[i].key = lines[n].sequence
      <4>1. CASE i \in 1 .. Len(tx.log)
        BY <2>2, <2>4, <3>10, <3>12, <4>1
      <4>2. CASE i = Len(tx.log) + 1
        <5>1. tx.at + 1 \in 1 .. tx.at + 1
          BY <1>1
        <5> QED BY <3>1, <3>10, <4>2, <5>1
      <4> QED BY <3>10, <4>1, <4>2
    <3>13. Imports(tx', log', lines')
      BY <1>2, <2>5, <3>3, <3>4, <3>9, <3>11, <3>12 DEF Imports
    <3>14. Marks(tx', log', opened')
      BY <1>2, <1>3, <3>3, <3>4 DEF Marks
    <3> QED BY <3>3, <3>5, <3>8, <3>13, <3>14, LinesInvNext
  <2> QED BY <2>6, <2>7
<1> QED BY <1>6, <1>7, <1>8 DEF Migrate

(* The steps that leave the log, the transaction and the file alone. *)
LEMMA OtherLines ==
  ASSUME StoreInv, StoreInv', LinesInv, UNCHANGED <<log, tx, lines, opened>>, fresh <= fresh'
  PROVE  LinesInv'
<1>1. /\ fresh \in Nat /\ fresh' \in Nat /\ log \in Seq(Event) /\ tx.log \in Seq(Event)
      /\ lines \in Seq(Line)
  BY DEF StoreInv, StoreTypeOK
<1>2. /\ FileBegins(lines', fresh') /\ LinesOf(log', fresh')
      /\ tx'.by # Absent => LinesOf(tx'.log, fresh')
  BY <1>1, FileLater, LinesLater DEF LinesInv
<1>3. Imports(tx', log', lines') /\ Marks(tx', log', opened')
  BY DEF LinesInv
<1> QED BY <1>2, <1>3, LinesInvNext

(* No transaction is open any more, or only another process's. *)
LEMMA ClosedLines ==
  ASSUME LinesInv, UNCHANGED <<log, fresh, lines>>, opened' \subseteq opened,
         tx' = Closed \/ (tx' = tx /\ (tx.by \in opened => tx.by \in opened'))
  PROVE  LinesInv'
<1>1. FileBegins(lines', fresh') /\ LinesOf(log', fresh')
  BY DEF LinesInv
<1>2. Closed.by = Absent
  BY DEF Closed
<1>3. tx'.by # Absent => tx' = tx
  BY <1>2
<1>4. tx'.by # Absent => LinesOf(tx'.log, fresh')
  BY <1>3 DEF LinesInv
<1>5. Imports(tx', log', lines')
  BY <1>3 DEF LinesInv, Imports
<1>6. Marks(tx', log', opened')
  <2>1. MarkedFirst(log') /\ (Legacy # 0 /\ opened' # {} => HasType(log', "migrated"))
    BY DEF LinesInv, Marks
  <2>2. CASE tx'.by = Absent
    BY <2>1, <2>2 DEF Marks
  <2>3. CASE tx'.by # Absent
    <3>1. tx' = tx /\ (tx.by \in opened => tx.by \in opened')
      BY <1>2, <2>3
    <3> QED BY <2>1, <3>1 DEF LinesInv, Marks
  <2> QED BY <2>2, <2>3
<1> QED BY <1>1, <1>4, <1>5, <1>6, LinesInvNext

LEMMA BeginLines ==
  ASSUME LinesInv, NEW w \in Writers, NEW op, NEW key, OpenTransaction(w, op, key)
  PROVE  LinesInv'
<1>1. /\ UNCHANGED <<log, fresh, lines, opened>> /\ (op = "emit" => w \in opened)
      /\ tx'.by = w /\ tx'.op = op /\ tx'.log = log /\ tx'.at = 0 /\ ~tx'.done
  BY DEF OpenTransaction, Closed
<1>2. FileBegins(lines', fresh') /\ LinesOf(log', fresh') /\ LinesOf(tx'.log, fresh')
  BY <1>1 DEF LinesInv
<1>3. Imports(tx', log', lines')
  BY <1>1 DEF Imports
<1>4. Marks(tx', log', opened')
  BY <1>1 DEF LinesInv, Marks
<1> QED BY <1>2, <1>3, <1>4, LinesInvNext

LEMMA CommitLines ==
  ASSUME StoreInv, LinesInv, Commit
  PROVE  LinesInv'
<1>1. /\ tx.by # Absent /\ tx.done /\ log' = tx.log /\ UNCHANGED <<fresh, lines>>
      /\ opened' = IF tx.op = "migrate" THEN opened \cup {tx.by} ELSE opened
      /\ tx'.by = Absent
  BY DEF Commit, Closed
<1>2. FileBegins(lines', fresh') /\ LinesOf(log', fresh')
  BY <1>1 DEF LinesInv
<1>3. Imports(tx', log', lines')
  BY <1>1 DEF Imports
<1>4. HasType(log, "migrated") => HasType(tx.log, "migrated")
  <2>1. Session!Extends(log, tx.log) /\ Len(log) \in Nat /\ Len(tx.log) \in Nat
    BY <1>1 DEF StoreInv, TxOk, StoreTypeOK
  <2> QED BY <2>1 DEF Session!Extends, HasType
<1>5. Marks(tx', log', opened')
  BY <1>1, <1>4 DEF LinesInv, Marks
<1> QED BY <1>1, <1>2, <1>3, <1>5, LinesInvNext

(* What the lines, the file and the marks have to do with each other. *)
THEOREM LinesInvHolds == ASSUME KeysAreNames PROVE StoreSpec => [](StoreInv /\ LinesInv)
<1>1. StoreInit => StoreInv /\ LinesInv
  <2> SUFFICES ASSUME StoreInit
               PROVE  LinesInv
    BY InitInv
  <2>1. /\ log = <<>> /\ fresh = 0 /\ tx.by = Absent /\ opened = {}
        /\ lines = [n \in 1 .. Legacy |-> [sequence |-> n, value |-> OldLine(n)]]
    BY DEF StoreInit, Closed
  <2>2. Legacy \in Nat /\ MaxEvents \in Nat
    BY SessionStoreConstants
  <2>3. Len(lines) = Legacy
    BY <2>1, <2>2
  <2>4. \A n \in 1 .. Legacy : /\ lines[n].sequence = n /\ lines[n].value = OldLine(n)
                               /\ OldLine(n) > MaxEvents
    BY <2>1, <2>2 DEF OldLine
  <2>5. \A n, m \in 1 .. Legacy : OldLine(n) = OldLine(m) => n = m
    BY <2>2 DEF OldLine
  <2>6. FileBegins(lines, fresh)
    BY <2>2, <2>3, <2>4, <2>5 DEF FileBegins
  <2>7. ~HasType(log, "migrated") /\ ~HasType(log, "event") /\ Len(log) = 0
    BY <2>1 DEF HasType
  <2>8. LinesOf(log, fresh)
    BY <2>7 DEF LinesOf, LinesOnce, ValuesUpTo, NumbersImported, MarkedIsWhole
  <2> QED BY <2>1, <2>6, <2>7, <2>8 DEF LinesInv, Imports, Marks, MarkedFirst
<1>2. StoreInv /\ LinesInv /\ [StoreNext]_storeVars => StoreInv' /\ LinesInv'
  <2> SUFFICES ASSUME StoreInv, LinesInv, [StoreNext]_storeVars
               PROVE  LinesInv'
    BY NextInv
  <2>1. StoreInv'
    BY NextInv
  <2>2. fresh \in Nat /\ fresh <= fresh /\ fresh <= fresh + 1
    BY DEF StoreInv, StoreTypeOK
  <2>3. CASE UNCHANGED storeVars \/ WriteEarly \/ Follow
    BY <2>1, <2>2, <2>3, OtherLines DEF storeVars, WriteEarly, Follow
  <2>4. ASSUME NEW w \in Writers, Load(w) \/ Think(w) \/ WriteLate(w)
        PROVE  LinesInv'
    BY <2>1, <2>2, <2>4, OtherLines DEF Load, Think, WriteLate
  <2>5. CASE Abort
    BY <2>5, ClosedLines DEF Abort
  <2>6. ASSUME NEW w \in Writers, WriterDies(w)
        PROVE  LinesInv'
    BY <2>6, ClosedLines DEF WriterDies
  <2>7. ASSUME NEW w \in Writers, NEW op, NEW key, OpenTransaction(w, op, key)
        PROVE  LinesInv'
    BY <2>7, BeginLines
  <2>8. CASE Merge \/ AppendOnce \/ SetState \/ Read
    BY <2>1, <2>8, QuietSteps
  <2>9. CASE Emit \/ Migrate \/ Commit
    BY <2>1, <2>9, EmitLines, MigrateLines, CommitLines
  <2> QED BY <2>3, <2>4, <2>5, <2>6, <2>7, <2>8, <2>9 DEF StoreNext
<1> QED BY <1>1, <1>2, PTL DEF StoreSpec

(* The page's log: no line of events.jsonl becomes two events, and none of *)
(* the lines of an older run is left out once the log has its mark,        *)
(* whatever is emitted, aborted, imported again by another process or      *)
(* saved from an agent's copy (EventLog in tool_protocol.py).              *)
THEOREM LinesAreStoredOnce == ASSUME KeysAreNames PROVE StoreSpec => []LinesStoredOnce
<1>1. LinesInv => LinesStoredOnce
  BY DEF LinesInv, LinesOf, LinesOnce, MarkedIsWhole, OldIn, LinesStoredOnce
<1> QED BY <1>1, LinesInvHolds, PTL

-----------------------------------------------------------------------------
(* The chunks of a text, for every text: they cover it, and there is a     *)
(* finite number of them.                                                  *)
AllTexts == [length : Nat, breaks : SUBSET Nat]

(* A bounded set of numbers has a greatest one, and Latest is it. *)
LEMMA LatestIsLast ==
  ASSUME NEW T \in SUBSET Nat, T # {}, NEW n \in Nat, \A y \in T : y <= n
  PROVE  Latest(T) \in T /\ \A y \in T : y <= Latest(T)
<1> DEFINE Away == {n - y : y \in T}
<1>1. Away \in SUBSET Nat /\ Away # {}
  <2>1. \A y \in T : n - y \in Nat
    OBVIOUS
  <2> QED BY <2>1
<1>2. PICK d \in Away : \A y \in Away : d <= y
  BY <1>1, LeastNat
<1>3. PICK x \in T : d = n - x
  BY <1>2
<1>4. ASSUME NEW y \in T PROVE y <= x
  <2>1. n - y \in Away
    OBVIOUS
  <2>2. d <= n - y
    BY <2>1, <1>2
  <2> QED BY <2>2, <1>3
<1>5. \E z \in T : \A y \in T : y <= z
  BY <1>4
<1> QED BY <1>5 DEF Latest

(* A chunk is not empty, ends in the text, and the next one leaves no gap. *)
LEMMA ChunkGoesOn ==
  ASSUME NEW text \in AllTexts, NEW c \in Nat, c < text.length
  PROVE  /\ ChunkEnd(text, c) \in c + 1 .. text.length
         /\ NextCursor(c, ChunkEnd(text, c)) \in c + 1 .. ChunkEnd(text, c)
<1> DEFINE full  == Least(c + Size, text.length)
           half  == Size \div 2
           after == {b \in text.breaks : b > c + half /\ b < full}
<1>1. Size \in Nat /\ Size > 0 /\ Overlap \in Nat /\ text.length \in Nat /\ text.breaks \in SUBSET Nat
  BY RetrievalAssumption DEF AllTexts
<1>2. half \in Nat
  BY <1>1
<1>3. full \in c + 1 .. text.length
  BY <1>1 DEF Least
<1> HIDE DEF full, half
<1>4. after \in SUBSET Nat /\ \A b \in after : b > c /\ b < full
  BY <1>1, <1>2
<1> HIDE DEF after
<1>5. after # {} => Latest(after) \in after
  <2>1. full \in Nat /\ \A b \in after : b <= full
    BY <1>1, <1>3, <1>4
  <2> QED BY <2>1, <1>4, LatestIsLast
<1>6. after # {} => Latest(after) + 1 \in c + 1 .. text.length
  <2> SUFFICES ASSUME after # {}, NEW z \in after, z = Latest(after)
               PROVE  z + 1 \in c + 1 .. text.length
    BY <1>5
  <2>1. z \in Nat /\ z > c /\ z < full
    BY <1>4
  <2> QED BY <2>1, <1>3, <1>1
<1>7. ChunkEnd(text, c) = IF full < text.length /\ after # {} THEN Latest(after) + 1 ELSE full
  BY DEF ChunkEnd, full, half, after
<1>8. ChunkEnd(text, c) \in c + 1 .. text.length
  BY <1>3, <1>6, <1>7
<1>9. NextCursor(c, ChunkEnd(text, c)) \in c + 1 .. ChunkEnd(text, c)
  BY <1>1, <1>8 DEF NextCursor, Greatest
<1> QED BY <1>8, <1>9

(* What the recursion says of a function on the cursors from a on. *)
Cuts(f, text, a) ==
  f = [c \in a .. text.length |->
         {[first |-> c, last |-> ChunkEnd(text, c) - 1]}
           \cup IF ChunkEnd(text, c) >= text.length THEN {} ELSE f[NextCursor(c, ChunkEnd(text, c))]]

(* The recursion has a solution: none is missing at a least distance from  *)
(* the end.                                                                *)
LEMMA CutsExist ==
  ASSUME NEW text \in AllTexts
  PROVE  \E f : Cuts(f, text, 0)
<1> DEFINE n == text.length
           Missing == {k \in Nat : k <= n /\ ~ \E f : Cuts(f, text, n - k)}
<1>0. n \in Nat
  BY DEF AllTexts
<1> HIDE DEF n
<1>1. Missing = {}
  <2> SUFFICES ASSUME Missing # {} PROVE FALSE
    OBVIOUS
  <2>1. PICK k \in Missing : \A y \in Missing : k <= y
    BY LeastNat
  <2> DEFINE a == n - k
  <2>2. a \in 0 .. n /\ ~ \E f : Cuts(f, text, a)
    BY <1>0, <2>1
  <2>3. \E f : a < n => Cuts(f, text, a + 1)
    <3>1. CASE a = n
      BY <3>1, <1>0
    <3>2. CASE a < n
      <4>1. k - 1 \in Nat /\ k - 1 <= n /\ ~(k <= k - 1) /\ n - (k - 1) = a + 1
        BY <1>0, <2>1, <3>2
      <4>2. k - 1 \notin Missing
        BY <2>1, <4>1
      <4>3. \E f : Cuts(f, text, n - (k - 1))
        BY <4>1, <4>2
      <4> QED BY <4>1, <4>3
    <3> QED BY <3>1, <3>2, <2>2, <1>0
  <2>4. PICK f : a < n => Cuts(f, text, a + 1)
    BY <2>3
  <2> HIDE DEF a
  <2> DEFINE rest(c) == IF ChunkEnd(text, c) >= n THEN {} ELSE f[NextCursor(c, ChunkEnd(text, c))]
             g == [c \in a .. n |->
                     IF c = a THEN {[first |-> a, last |-> ChunkEnd(text, a) - 1]} \cup rest(a)
                     ELSE f[c]]
  <2>5. \A c \in a + 1 .. n : f[c] = {[first |-> c, last |-> ChunkEnd(text, c) - 1]} \cup rest(c)
    BY <2>4, <2>2, <1>0 DEF Cuts, n
  <2>6. ASSUME NEW c \in a .. n
        PROVE  g[c] = {[first |-> c, last |-> ChunkEnd(text, c) - 1]}
                        \cup IF ChunkEnd(text, c) >= n THEN {} ELSE g[NextCursor(c, ChunkEnd(text, c))]
    <3>1. g[c] = {[first |-> c, last |-> ChunkEnd(text, c) - 1]} \cup rest(c)
      <4>1. CASE c = a
        BY <4>1
      <4>2. CASE c # a
        <5>1. c \in a + 1 .. n
          BY <4>2, <2>2, <1>0
        <5> QED BY <5>1, <2>5, <4>2
      <4> QED BY <4>1, <4>2
    <3>2. ASSUME ~(ChunkEnd(text, c) >= n)
          PROVE  g[NextCursor(c, ChunkEnd(text, c))] = f[NextCursor(c, ChunkEnd(text, c))]
      <4>1. CASE c < n
        <5>1. c \in Nat /\ c < text.length
          BY <4>1, <2>2, <1>0 DEF n
        <5>2. /\ ChunkEnd(text, c) \in c + 1 .. n
              /\ NextCursor(c, ChunkEnd(text, c)) \in c + 1 .. ChunkEnd(text, c)
          BY <5>1, ChunkGoesOn DEF n
        <5>3. NextCursor(c, ChunkEnd(text, c)) \in a .. n /\ NextCursor(c, ChunkEnd(text, c)) # a
          BY <5>2, <2>2, <1>0, <5>1
        <5> QED BY <5>3
      <4>2. CASE ~(c < n)
        <5>1. c = text.length /\ n = text.length /\ c \in Nat
          BY <4>2, <2>2, <1>0 DEF n
        <5>2. Least(c + Size, text.length) = n /\ ~(n < text.length)
          BY <5>1, RetrievalAssumption DEF Least
        <5>3. ChunkEnd(text, c) = n
          BY <5>2 DEF ChunkEnd
        <5> QED BY <5>3, <3>2, <1>0
      <4> QED BY <4>1, <4>2
    <3> QED BY <3>1, <3>2
  <2> HIDE DEF g
  <2>7. g = [c \in a .. n |-> g[c]]
    BY DEF g
  <2>8. Cuts(g, text, a)
    BY <2>6, <2>7 DEF Cuts, n
  <2> QED BY <2>2, <2>8
<1>2. n \notin Missing /\ n - n = 0 /\ n <= n
  BY <1>1, <1>0
<1> QED BY <1>2, <1>0

LEMMA ChunksFollow ==
  ASSUME NEW text \in AllTexts
  PROVE  Cuts(ChunksFrom(text), text, 0)
<1> DEFINE P(f) == f = [c \in 0 .. text.length |->
                          LET e == ChunkEnd(text, c)
                          IN {[first |-> c, last |-> e - 1]}
                               \cup IF e >= text.length THEN {} ELSE f[NextCursor(c, e)]]
<1>1. \E f : P(f)
  BY CutsExist DEF Cuts
<1>2. P(CHOOSE f : P(f))
  BY <1>1
<1>3. ChunksFrom(text) = CHOOSE f : P(f)
  BY DEF ChunksFrom
<1>4. P(ChunksFrom(text))
  BY <1>2, <1>3
<1> QED BY <1>4 DEF Cuts

IsSpans(spans) ==
  /\ IsFiniteSet(spans)
  /\ \A s \in spans : s = [first |-> s.first, last |-> s.last] /\ s.first \in Nat

(* The chunks cover the text, the whole of it. *)
THEOREM ChunksCover ==
  ASSUME NEW text \in AllTexts
  PROVE  IsSpans(Chunks(text)) /\ Covered(Chunks(text)) = 0 .. text.length - 1
<1> DEFINE n == text.length
           f == ChunksFrom(text)
           Good(c) == IsSpans(f[c]) /\ Covered(f[c]) = c .. n - 1
           Bad == {k \in Nat : k # 0 /\ k <= n /\ ~Good(n - k)}
<1>0. n \in Nat
  BY DEF AllTexts
<1>1. \A c \in 0 .. n :
        f[c] = {[first |-> c, last |-> ChunkEnd(text, c) - 1]}
                 \cup IF ChunkEnd(text, c) >= n THEN {} ELSE f[NextCursor(c, ChunkEnd(text, c))]
  BY ChunksFollow DEF Cuts
<1> HIDE DEF n, f, Good
<1>2. Bad = {}
  <2> SUFFICES ASSUME Bad # {} PROVE FALSE
    OBVIOUS
  <2>1. PICK k \in Bad : \A y \in Bad : k <= y
    BY LeastNat
  <2> DEFINE c == n - k
             e == ChunkEnd(text, c)
             d == NextCursor(c, e)
             one == [first |-> c, last |-> e - 1]
  <2>2. c \in 0 .. n /\ c < n /\ ~Good(c)
    BY <1>0, <2>1
  <2> HIDE DEF c
  <2>3. e \in c + 1 .. n /\ d \in c + 1 .. e
    BY <2>2, <1>0, ChunkGoesOn DEF n
  <2> HIDE DEF e, d
  <2>4. f[c] = {one} \cup IF e >= n THEN {} ELSE f[d]
    BY <2>2, <1>1 DEF e, d
  <2>5. /\ one = [first |-> one.first, last |-> one.last] /\ one.first .. one.last = c .. e - 1
        /\ one.first \in Nat
    BY <2>2
  <2> HIDE DEF one
  <2>6. CASE e >= n
    <3>1. f[c] = {one} /\ e = n
      BY <2>4, <2>6, <2>3, <2>2, <1>0
    <3>2. Covered(f[c]) = c .. n - 1
      BY <3>1, <2>5 DEF Covered
    <3>3. IsSpans(f[c])
      BY <3>1, <2>5, FS_Singleton DEF IsSpans
    <3> QED BY <3>2, <3>3, <2>2 DEF Good
  <2>7. CASE ~(e >= n)
    <3>1. f[c] = f[d] \cup {one}
      BY <2>4, <2>7
    <3>2. d \in 0 .. n /\ d < n /\ c < d
      BY <2>3, <2>7, <2>2, <1>0
    <3>3. n - d \in Nat /\ n - d # 0 /\ n - d <= n /\ n - (n - d) = d /\ ~(k <= n - d)
      BY <3>2, <1>0, <2>1, <2>2 DEF c
    <3>4. Good(d)
      BY <3>3, <2>1
    <3>5. Covered(f[c]) = Covered(f[d]) \cup c .. e - 1
      BY <3>1, <2>5 DEF Covered
    <3>6. Covered(f[c]) = c .. n - 1
      BY <3>5, <3>4, <2>3, <2>7, <2>2, <1>0 DEF Good
    <3>7. IsSpans(f[c])
      <4>1. IsSpans(f[d])
        BY <3>4 DEF Good
      <4>2. IsFiniteSet(f[c])
        BY <3>1, <4>1, FS_AddElement DEF IsSpans
      <4>3. \A s \in f[c] : s = [first |-> s.first, last |-> s.last] /\ s.first \in Nat
        BY <3>1, <4>1, <2>5 DEF IsSpans
      <4> QED BY <4>2, <4>3 DEF IsSpans
    <3> QED BY <3>6, <3>7, <2>2 DEF Good
  <2> QED BY <2>6, <2>7
<1>3. CASE n = 0
  <2>1. Chunks(text) = {} /\ 0 .. n - 1 = {}
    BY <1>3 DEF Chunks, n
  <2> QED BY <2>1, FS_EmptySet DEF IsSpans, Covered, n
<1>4. CASE n # 0
  <2>1. n \notin Bad /\ n - n = 0 /\ n <= n
    BY <1>2, <1>0
  <2>2. Good(0)
    BY <2>1, <1>0, <1>4
  <2>3. Chunks(text) = f[0]
    BY <1>4 DEF Chunks, n, f
  <2> QED BY <2>2, <2>3 DEF Good, n
<1> QED BY <1>3, <1>4

-----------------------------------------------------------------------------
(* Every row of a span once: what a search counts is what was cut. *)
RowsFor(w, id, text) ==
  {[id |-> <<w, s.first>>, document |-> id, first |-> s.first, last |-> s.last] :
     s \in Chunks(text)}

LEMMA RowsAreSpans ==
  ASSUME NEW text \in AllTexts, NEW w, NEW id, NEW rows, rows = RowsFor(w, id, text)
  PROVE  /\ {[first |-> r.first, last |-> r.last] : r \in rows} = Chunks(text)
         /\ Cardinality(rows) = Cardinality(Chunks(text))
<1> DEFINE spans == Chunks(text)
           row(s) == [id |-> <<w, s.first>>, document |-> id, first |-> s.first, last |-> s.last]
           f == [s \in spans |-> row(s)]
<1>1. IsFiniteSet(spans) /\ \A s \in spans : s = [first |-> s.first, last |-> s.last]
  BY ChunksCover DEF IsSpans
<1>2. rows = {row(s) : s \in spans}
  BY DEF RowsFor
<1> HIDE DEF spans
<1>3. {[first |-> r.first, last |-> r.last] : r \in rows} = spans
  <2>1. ASSUME NEW r \in rows PROVE [first |-> r.first, last |-> r.last] \in spans
    <3>1. PICK s \in spans : r = row(s)
      BY <1>2
    <3>2. r.first = s.first /\ r.last = s.last
      BY <3>1
    <3> QED BY <3>2, <1>1
  <2>2. ASSUME NEW s \in spans
        PROVE  \E r \in rows : s = [first |-> r.first, last |-> r.last]
    <3>1. row(s) \in rows /\ row(s).first = s.first /\ row(s).last = s.last
      BY <1>2
    <3> QED BY <3>1, <1>1
  <2> QED BY <2>1, <2>2
<1>4. f \in [spans -> rows] /\ \A r \in rows : \E s \in spans : f[s] = r
  BY <1>2
<1>5. ASSUME NEW s \in spans, NEW q \in spans, f[s] = f[q] PROVE s = q
  <2>1. f[s].first = s.first /\ f[s].last = s.last /\ f[q].first = q.first /\ f[q].last = q.last
    OBVIOUS
  <2>2. s.first = q.first /\ s.last = q.last
    BY <2>1, <1>5
  <2> QED BY <2>2, <1>1
<1> HIDE DEF f
<1>6. f \in Bijection(spans, rows)
  <2>1. f \in Injection(spans, rows)
    BY <1>4, <1>5 DEF Injection, IsInjective
  <2>2. f \in Surjection(spans, rows)
    BY <1>4 DEF Surjection
  <2> QED BY <2>1, <2>2 DEF Bijection
<1>7. ExistsBijection(spans, rows)
  BY <1>6 DEF ExistsBijection
<1>8. Cardinality(rows) = Cardinality(spans)
  BY <1>7, <1>1, FS_Bijection
<1> QED BY <1>3, <1>8 DEF spans

-----------------------------------------------------------------------------
(* The index, for any clients, texts and sizes.                            *)
(*                                                                         *)
(* A client deletes by what it listed earlier.  What it listed belongs to  *)
(* the document it had found, whatever was written since: rows are not     *)
(* numbered twice, and no document gets the number of another.             *)
RowNumbers    == Nat \X Nat
ClientRecords ==
  [stage : {"none", "embed", "find", "old", "write", "removeOld", "delete"},
   text : AllTexts, id : Nat, old : SUBSET RowNumbers, embedded : BOOLEAN]

IndexTypeOK ==
  /\ document \in [id : Nat, text : AllTexts]
  /\ client \in [Clients -> ClientRecords]
  /\ embeds \in BOOLEAN /\ writes \in Nat

Numbered ==
  /\ document.id <= writes
  /\ \A r \in chunks : /\ r.document \in 0 .. writes
                       /\ \E w \in 1 .. writes, a \in Nat : r.id = <<w, a>>
  /\ \A c \in Clients : client[c].id <= writes

OneOwner == \A r, q \in chunks : r.id = q.id => r.document = q.document

OldAreTheirs ==
  \A c \in Clients : \A o \in client[c].old :
    /\ \E w \in 0 .. writes, a \in Nat : o = <<w, a>>
    /\ \A r \in chunks : r.id = o => r.document = client[c].id

IsWhole ==
  document.id # 0 =>
    /\ \E w \in 1 .. writes : RowsOf(document.id) = RowsFor(w, document.id, document.text)
    /\ RowIds(RowsOf(document.id)) \subseteq fts

NothingListed ==
  \A c \in Clients : client[c].stage \in {"none", "embed", "find"} => client[c].old = {}

IndexInv == IndexTypeOK /\ Numbered /\ OneOwner /\ OldAreTheirs /\ NothingListed /\ IsWhole

LEMMA IndexFindsWhatIsIndexed ==
  ASSUME IndexInv
  PROVE  FindsWhatIsIndexed
<1> SUFFICES ASSUME document.id # 0, NEW answers \in BOOLEAN
             PROVE  LET found == {[first |-> r.first, last |-> r.last] :
                                    r \in {h \in Hits(answers) : h.document = document.id}}
                    IN /\ found = Chunks(document.text)
                       /\ Covered(found) = 0 .. document.text.length - 1
                       /\ Cardinality({h \in Hits(answers) : h.document = document.id})
                            = Cardinality(found)
  BY DEF FindsWhatIsIndexed
<1> DEFINE rows == {h \in Hits(answers) : h.document = document.id}
<1>1. PICK w \in 1 .. writes : RowsOf(document.id) = RowsFor(w, document.id, document.text)
  BY DEF IndexInv, IsWhole
<1>2. RowIds(RowsOf(document.id)) \subseteq fts
  BY DEF IndexInv, IsWhole
<1>3. rows = RowsOf(document.id)
  BY <1>2 DEF RowIds, RowsOf, Hits, Lexical, Semantic
<1> HIDE DEF rows
<1>4. document.text \in AllTexts
  BY DEF IndexInv, IndexTypeOK
<1>5. /\ {[first |-> r.first, last |-> r.last] : r \in rows} = Chunks(document.text)
      /\ Cardinality(rows) = Cardinality(Chunks(document.text))
  BY <1>1, <1>3, <1>4, RowsAreSpans
<1>6. Covered(Chunks(document.text)) = 0 .. document.text.length - 1
  BY <1>4, ChunksCover
<1> QED BY <1>5, <1>6 DEF rows

(* What each step does to the tables and to its client. *)
Becomes(c, w) == w \in ClientRecords /\ client' = [client EXCEPT ![c] = w]

LEMMA NoRequestType ==
  NoRequest \in ClientRecords /\ NoRequest.id = 0 /\ NoRequest.old = {} /\ NoDocument \in [id : Nat, text : AllTexts]
<1>1. NoDocument.text \in AllTexts /\ NoDocument \in [id : Nat, text : AllTexts]
  BY DEF NoDocument, AllTexts
<1> QED BY <1>1 DEF NoRequest, ClientRecords

(* A step of a client alone: it asks for the document there is, or lists   *)
(* the rows of the one it had found, or drops what it knew.                *)
Asks(c) ==
  \E w \in ClientRecords :
    /\ client' = [client EXCEPT ![c] = w] /\ UNCHANGED Store
    /\ w.stage \in {"none", "embed", "find"} => w.old = {}
    /\ \/ w.id = client[c].id /\ w.old = client[c].old
       \/ w.id = client[c].id /\ w.old = RowIds(RowsOf(client[c].id))
       \/ w.id \in {0, document.id} /\ w.old = {}

LEMMA ClientSteps ==
  ASSUME IndexInv, NEW c \in Clients,
         \/ \E text \in Texts : Ingest(c, text)
         \/ Embed(c) \/ Find(c) \/ ListOld(c) \/ Remove(c) \/ ClientDies(c)
  PROVE  Asks(c)
<1>0. /\ client[c] \in ClientRecords /\ client \in [Clients -> ClientRecords] /\ document.id \in Nat
      /\ client[c].stage \in {"none", "embed", "find"} => client[c].old = {}
  BY DEF IndexInv, IndexTypeOK, NothingListed
<1>1. ASSUME NEW text \in Texts, Ingest(c, text) PROVE Asks(c)
  <2> DEFINE w == [NoRequest EXCEPT !.stage = "embed", !.text = text]
  <2>1. text \in AllTexts
    BY RetrievalAssumption DEF AllTexts
  <2>2. w \in ClientRecords /\ w.id = 0 /\ w.old = {}
    BY <2>1 DEF NoRequest, ClientRecords
  <2>3. client' = [client EXCEPT ![c] = w] /\ UNCHANGED Store
    BY <1>1 DEF Ingest
  <2> HIDE DEF w
  <2> QED BY <2>2, <2>3 DEF Asks
<1>2. ASSUME Embed(c) PROVE Asks(c)
  <2>1. PICK got \in {FALSE, embeds /\ client[c].text.length > 0} :
          client' = [client EXCEPT ![c].stage = "find", ![c].embedded = got]
    BY <1>2 DEF Embed
  <2> DEFINE w == [client[c] EXCEPT !.stage = "find", !.embedded = got]
  <2>2. got \in BOOLEAN
    BY Zenon DEF IndexInv, IndexTypeOK
  <2>3. w \in ClientRecords /\ w.id = client[c].id /\ w.old = client[c].old
    BY <2>2, <1>0 DEF ClientRecords
  <2>4. client' = [client EXCEPT ![c] = w]
    BY <2>1, <1>0
  <2>5. UNCHANGED Store /\ client[c].old = {}
    BY <1>2, <1>0 DEF Embed, AtStage
  <2> HIDE DEF w
  <2> QED BY <2>3, <2>4, <2>5 DEF Asks
<1>3. ASSUME Find(c) PROVE Asks(c)
  <2> DEFINE w == [client[c] EXCEPT !.id = document.id,
                                    !.stage = IF document.id = 0 THEN "write" ELSE "old"]
  <2>1. w \in ClientRecords /\ w.id = document.id /\ w.old = client[c].old
    BY <1>0 DEF ClientRecords
  <2>2. client' = [client EXCEPT ![c] = w] /\ UNCHANGED Store
    BY <1>3, <1>0 DEF Find
  <2>3. client[c].old = {}
    BY <1>3, <1>0 DEF Find, AtStage
  <2> HIDE DEF w
  <2> QED BY <2>1, <2>2, <2>3 DEF Asks
<1>4. ASSUME ListOld(c) PROVE Asks(c)
  <2> DEFINE all == RowIds(RowsOf(client[c].id))
             w == [client[c] EXCEPT !.old = all,
                                    !.stage = IF client[c].stage = "old" THEN "write" ELSE "delete"]
  <2>1. all \subseteq RowNumbers
    <3>1. ASSUME NEW r \in chunks PROVE r.id \in RowNumbers
      <4>1. writes \in Nat /\ \E n \in 1 .. writes, a \in Nat : r.id = <<n, a>>
        BY DEF IndexInv, Numbered, IndexTypeOK
      <4> QED BY <4>1 DEF RowNumbers
    <3> QED BY <3>1 DEF RowIds, RowsOf
  <2> HIDE DEF all
  <2>2. w \in ClientRecords /\ w.id = client[c].id /\ w.old = all
        /\ w.stage \notin {"none", "embed", "find"}
    BY <1>0, <2>1 DEF ClientRecords
  <2>3. client' = [client EXCEPT ![c] = w] /\ UNCHANGED Store
    BY <1>4, <1>0 DEF ListOld, all
  <2> HIDE DEF w
  <2> QED BY <2>2, <2>3 DEF Asks, all
<1>5. ASSUME Remove(c) PROVE Asks(c)
  <2> DEFINE w == [NoRequest EXCEPT !.stage = "removeOld", !.id = document.id]
  <2>1. w \in ClientRecords /\ w.id = document.id /\ w.old = {}
    BY <1>0, NoRequestType DEF NoRequest, ClientRecords
  <2>2. client' = [client EXCEPT ![c] = w] /\ UNCHANGED Store
    BY <1>5 DEF Remove
  <2> HIDE DEF w
  <2> QED BY <2>1, <2>2 DEF Asks
<1>6. ASSUME ClientDies(c) PROVE Asks(c)
  BY <1>6, NoRequestType DEF ClientDies, Asks
<1> QED BY <1>1, <1>2, <1>3, <1>4, <1>5, <1>6

LEMMA AsksKeeps ==
  ASSUME IndexInv, NEW c \in Clients, Asks(c)
  PROVE  IndexInv'
<1> USE DEF IndexInv
<1>1. PICK w \in ClientRecords :
        /\ client' = [client EXCEPT ![c] = w] /\ UNCHANGED Store
        /\ w.stage \in {"none", "embed", "find"} => w.old = {}
        /\ \/ w.id = client[c].id /\ w.old = client[c].old
           \/ w.id = client[c].id /\ w.old = RowIds(RowsOf(client[c].id))
           \/ w.id \in {0, document.id} /\ w.old = {}
  BY DEF Asks
<1>2. /\ client' \in [Clients -> ClientRecords] /\ client'[c] = w
      /\ \A d \in Clients : d # c => client'[d] = client[d]
  BY <1>1 DEF IndexTypeOK
<1>3. /\ document' = document /\ chunks' = chunks /\ fts' = fts /\ writes' = writes
      /\ embeds' = embeds
  BY <1>1 DEF Store
<1>4. IndexTypeOK'
  BY <1>2, <1>3 DEF IndexTypeOK
<1>5. document.id \in Nat /\ writes \in Nat
  BY DEF IndexTypeOK
<1>6. Numbered'
  <2>1. w.id <= writes
    BY <1>1, <1>5 DEF Numbered
  <2> QED BY <2>1, <1>2, <1>3 DEF Numbered
<1>7. OneOwner'
  BY <1>3 DEF OneOwner
<1>8. OldAreTheirs'
  <2>1. ASSUME NEW d \in Clients, NEW o \in client'[d].old
        PROVE  /\ \E n \in 0 .. writes, a \in Nat : o = <<n, a>>
               /\ \A r \in chunks : r.id = o => r.document = client'[d].id
    <3>1. CASE d # c
      BY <3>1, <2>1, <1>2 DEF OldAreTheirs
    <3>2. CASE d = c /\ w.id = client[c].id /\ w.old = client[c].old
      BY <3>2, <2>1, <1>2 DEF OldAreTheirs
    <3>3. CASE d = c /\ w.id = client[c].id /\ w.old = RowIds(RowsOf(client[c].id))
      <4>1. PICK q \in chunks : q.document = client[c].id /\ o = q.id
        BY <3>3, <2>1, <1>2 DEF RowIds, RowsOf
      <4>2. \E n \in 0 .. writes, a \in Nat : o = <<n, a>>
        BY <4>1, <1>5 DEF Numbered
      <4>3. \A r \in chunks : r.id = o => r.document = client'[d].id
        BY <4>1, <3>3, <1>2 DEF OneOwner
      <4> QED BY <4>2, <4>3
    <3>4. CASE d = c /\ w.old = {}
      BY <3>4, <2>1, <1>2
    <3> QED BY <3>1, <3>2, <3>3, <3>4, <1>1
  <2> QED BY <2>1, <1>3 DEF OldAreTheirs
<1>9. NothingListed'
  BY <1>1, <1>2 DEF NothingListed
<1>10. IsWhole'
  BY <1>3 DEF IsWhole, RowsOf
<1> QED BY <1>4, <1>6, <1>7, <1>8, <1>9, <1>10

(* What a write adds has numbers of its own. *)
LEMMA NewRowsAreNew ==
  ASSUME IndexInv, NEW c \in Clients
  PROVE  /\ NewRows(c) = RowsFor(writes + 1, Owner(c), client[c].text)
         /\ \A r \in NewRows(c) : r.document = Owner(c) /\ \E a \in Nat : r.id = <<writes + 1, a>>
         /\ Owner(c) \in 1 .. writes + 1
<1>1. client[c].text \in AllTexts /\ client[c].id \in Nat /\ writes \in Nat /\ client[c].id <= writes
  BY DEF IndexInv, IndexTypeOK, Numbered, ClientRecords
<1>2. \A s \in Chunks(client[c].text) : s.first \in Nat
  BY <1>1, ChunksCover DEF IsSpans
<1>3. Owner(c) \in 1 .. writes + 1
  BY <1>1 DEF Owner
<1>4. NewRows(c) = RowsFor(writes + 1, Owner(c), client[c].text)
  BY DEF NewRows, RowsFor
<1>5. ASSUME NEW r \in NewRows(c)
      PROVE  r.document = Owner(c) /\ \E a \in Nat : r.id = <<writes + 1, a>>
  <2>1. PICK s \in Chunks(client[c].text) :
          r = [id |-> <<writes + 1, s.first>>, document |-> Owner(c),
               first |-> s.first, last |-> s.last]
    BY DEF NewRows
  <2>2. r.document = Owner(c) /\ r.id = <<writes + 1, s.first>>
    BY <2>1
  <2> QED BY <2>2, <1>2
<1> QED BY <1>3, <1>4, <1>5

(* A transaction: rows go, rows with new numbers come. *)
Commits(c, owner) ==
  /\ client' = [client EXCEPT ![c] = NoRequest]
  /\ embeds' = embeds /\ writes' \in {writes, writes + 1}
  /\ document' \in [id : Nat, text : AllTexts] /\ document'.id <= writes'
  /\ \A r \in chunks' : \/ r \in chunks
                        \/ /\ r.document = owner /\ writes' = writes + 1
                           /\ \E a \in Nat : r.id = <<writes + 1, a>>

LEMMA CommitKeeps ==
  ASSUME IndexInv, NEW c \in Clients, NEW owner \in Nat, owner <= writes', Commits(c, owner), IsWhole'
  PROVE  IndexInv'
<1> USE DEF IndexInv
<1>1. /\ client' \in [Clients -> ClientRecords] /\ client'[c] = NoRequest
      /\ \A d \in Clients : d # c => client'[d] = client[d]
  BY NoRequestType DEF IndexTypeOK, Commits
<1>2. writes \in Nat /\ writes' \in {writes, writes + 1}
  BY DEF IndexTypeOK, Commits
<1>3. IndexTypeOK'
  BY <1>1, <1>2 DEF IndexTypeOK, Commits
<1>4. \A d \in Clients : client'[d].id <= writes'
  <2>1. NoRequest.id = 0
    BY NoRequestType
  <2>2. ASSUME NEW d \in Clients PROVE client'[d].id <= writes'
    <3>1. CASE d = c
      BY <3>1, <2>1, <1>1, <1>2
    <3>2. CASE d # c
      <4>1. client'[d] = client[d] /\ client[d].id <= writes /\ client[d].id \in Nat
        BY <3>2, <1>1 DEF Numbered, IndexTypeOK, ClientRecords
      <4> QED BY <4>1, <1>2
    <3> QED BY <3>1, <3>2
  <2> QED BY <2>2
<1>5. ASSUME NEW r \in chunks'
      PROVE  /\ r.document \in 0 .. writes'
             /\ \E w \in 1 .. writes', a \in Nat : r.id = <<w, a>>
  <2>1. CASE r \in chunks
    <3>1. PICK w \in 1 .. writes, a \in Nat : r.id = <<w, a>>
      BY <2>1 DEF Numbered
    <3>2. w \in 1 .. writes' /\ r.document \in 0 .. writes'
      BY <2>1, <1>2 DEF Numbered
    <3> QED BY <3>1, <3>2
  <2>2. CASE /\ r.document = owner /\ writes' = writes + 1
             /\ \E a \in Nat : r.id = <<writes + 1, a>>
    <3>1. PICK a \in Nat : r.id = <<writes', a>>
      BY <2>2
    <3>2. writes' \in 1 .. writes' /\ r.document \in 0 .. writes'
      BY <2>2, <1>2
    <3> QED BY <3>1, <3>2
  <2> QED BY <2>1, <2>2 DEF Commits
<1>6. Numbered'
  BY <1>4, <1>5 DEF Numbered, Commits
<1>7. ASSUME NEW r \in chunks', NEW w, w <= writes, w \in Nat, NEW a, r.id = <<w, a>>
      PROVE  r \in chunks
  <2> SUFFICES ASSUME NEW b \in Nat, r.id = <<writes + 1, b>> PROVE FALSE
    BY DEF Commits
  <2>1. w = writes + 1
    BY <1>7
  <2> QED BY <2>1, <1>7, <1>2
<1>8. OneOwner'
  <2> SUFFICES ASSUME NEW r \in chunks', NEW q \in chunks', r.id = q.id
               PROVE  r.document = q.document
    BY DEF OneOwner
  <2>1. ASSUME NEW x \in chunks', NEW y \in chunks', x.id = y.id, x \in chunks PROVE y \in chunks
    <3>1. PICK w \in 1 .. writes, a \in Nat : x.id = <<w, a>>
      BY <2>1 DEF Numbered
    <3>2. w <= writes /\ w \in Nat
      BY <1>2
    <3> QED BY <3>1, <3>2, <2>1, <1>7
  <2>2. CASE r \in chunks \/ q \in chunks
    BY <2>1, <2>2 DEF OneOwner
  <2>3. CASE r \notin chunks /\ q \notin chunks
    BY <2>3 DEF Commits
  <2> QED BY <2>2, <2>3
<1>9. OldAreTheirs'
  <2>1. ASSUME NEW d \in Clients, NEW o \in client'[d].old
        PROVE  /\ \E w \in 0 .. writes', a \in Nat : o = <<w, a>>
               /\ \A r \in chunks' : r.id = o => r.document = client'[d].id
    <3>1. d # c /\ client'[d] = client[d]
      BY <2>1, <1>1, NoRequestType
    <3>2. PICK w \in 0 .. writes, a \in Nat : o = <<w, a>>
      BY <2>1, <3>1 DEF OldAreTheirs
    <3>3. w \in 0 .. writes' /\ w <= writes /\ w \in Nat
      BY <1>2
    <3>4. ASSUME NEW r \in chunks', r.id = o PROVE r.document = client[d].id
      <4>1. r \in chunks
        BY <3>2, <3>3, <3>4, <1>7
      <4> QED BY <4>1, <3>1, <2>1, <3>4 DEF OldAreTheirs
    <3> QED BY <3>1, <3>2, <3>3, <3>4
  <2> QED BY <2>1 DEF OldAreTheirs
<1>10. NothingListed'
  BY <1>1, NoRequestType DEF NothingListed
<1> QED BY <1>3, <1>6, <1>8, <1>9, <1>10

(* The first index of a file, over nothing. *)
LEMMA InsertKeeps ==
  ASSUME IndexInv, NEW c \in Clients, Insert(c)
  PROVE  IndexInv'
<1>0. /\ client' = [client EXCEPT ![c] = NoRequest] /\ client[c].id = 0
      /\ writes \in Nat /\ client[c] \in ClientRecords /\ document.id \in Nat
  BY DEF Insert, IndexInv, IndexTypeOK
<1>1. CASE document.id # 0
  <2>1. UNCHANGED Store
    BY <1>1 DEF Insert
  <2>2. Asks(c)
    BY <2>1, <1>0, NoRequestType DEF Asks
  <2> QED BY <2>2, AsksKeeps
<1>2. CASE document.id = 0
  <2>1. /\ writes' = writes + 1 /\ embeds' = embeds
        /\ document' = [id |-> writes + 1, text |-> client[c].text]
        /\ chunks' = chunks \cup NewRows(c) /\ fts' = fts \cup RowIds(NewRows(c))
    BY <1>2 DEF Insert
  <2>2. Owner(c) = writes + 1
    BY <1>0 DEF Owner
  <2>3. client[c].text \in AllTexts
    BY <1>0 DEF ClientRecords
  <2>4. /\ document'.id = writes + 1 /\ document'.text = client[c].text
        /\ document' \in [id : Nat, text : AllTexts]
    BY <2>1, <2>3, <1>0
  <2>5. Commits(c, writes + 1)
    BY <2>1, <2>2, <2>4, <1>0, NewRowsAreNew DEF Commits
  <2>6. {r \in chunks' : r.document = writes + 1} = NewRows(c)
    <3>1. ASSUME NEW r \in chunks PROVE r.document # writes + 1
      BY <1>0 DEF IndexInv, Numbered
    <3> QED BY <3>1, <2>1, <2>2, NewRowsAreNew
  <2>7. IsWhole'
    <3>1. RowsOf(document.id)' = NewRows(c)
      BY <2>4, <2>6 DEF RowsOf
    <3>2. RowIds(RowsOf(document.id))' = RowIds(NewRows(c))
      BY <3>1 DEF RowIds
    <3>3. NewRows(c) = RowsFor(writes + 1, writes + 1, client[c].text)
      BY NewRowsAreNew, <2>2
    <3>4. writes + 1 \in 1 .. writes'
      BY <2>1, <1>0
    <3> QED BY <3>1, <3>2, <3>3, <3>4, <2>1, <2>4 DEF IsWhole
  <2> QED BY <2>5, <2>7, <2>1, <1>0, CommitKeeps
<1> QED BY <1>1, <1>2

(* Rows of the document that is there, when those of another one go. *)
LEMMA OthersStay ==
  ASSUME IndexInv, NEW c \in Clients, document' = document, document.id # client[c].id,
         writes' \in {writes, writes + 1},
         RowsOf(document.id)' = RowsOf(document.id), fts \ client[c].old \subseteq fts'
  PROVE  IsWhole'
<1>1. ASSUME NEW r \in RowsOf(document.id), document.id # 0 PROVE r.id \in fts'
  <2>1. r \in chunks /\ r.document = document.id /\ r.id \in fts
    BY <1>1 DEF IndexInv, IsWhole, RowsOf, RowIds
  <2>2. r.id \notin client[c].old
    BY <2>1 DEF IndexInv, OldAreTheirs
  <2> QED BY <2>1, <2>2
<1>2. ASSUME document.id # 0 PROVE RowIds(RowsOf(document.id))' \subseteq fts'
  BY <1>1, <1>2 DEF RowIds
<1>3. writes \in Nat
  BY DEF IndexInv, IndexTypeOK
<1>4. ASSUME document.id # 0
      PROVE  \E w \in 1 .. writes' : RowsOf(document.id) = RowsFor(w, document.id, document.text)
  <2>1. PICK w \in 1 .. writes : RowsOf(document.id) = RowsFor(w, document.id, document.text)
    BY <1>4 DEF IndexInv, IsWhole
  <2>2. w \in 1 .. writes'
    BY <1>3
  <2> QED BY <2>1, <2>2
<1> QED BY <1>2, <1>4 DEF IsWhole

(* A new text: the rows of the old one go, all of them. *)
LEMMA ReplaceKeeps ==
  ASSUME IndexInv, NEW c \in Clients, Replace(c)
  PROVE  IndexInv'
<1> DEFINE id == client[c].id
<1>0. /\ client' = [client EXCEPT ![c] = NoRequest] /\ id # 0 /\ id \in Nat
      /\ writes \in Nat /\ client[c] \in ClientRecords /\ document \in [id : Nat, text : AllTexts]
      /\ document.id <= writes /\ id <= writes
  BY DEF Replace, IndexInv, IndexTypeOK, Numbered, ClientRecords
<1>1. /\ writes' = writes + 1 /\ embeds' = embeds
      /\ document' = IF document.id = id THEN [document EXCEPT !.text = client[c].text] ELSE document
      /\ chunks' = (chunks \ RowsOf(id)) \cup NewRows(c)
      /\ fts' = (fts \ client[c].old) \cup RowIds(NewRows(c))
  BY DEF Replace, Gone
<1>2. Owner(c) = id /\ client[c].text \in AllTexts
  BY <1>0 DEF Owner, ClientRecords
<1>3. /\ document'.id = document.id /\ document' \in [id : Nat, text : AllTexts]
      /\ document.id = id => document'.text = client[c].text
  BY <1>0, <1>1, <1>2
<1>4. Commits(c, id)
  <2>1. \A r \in chunks' : \/ r \in chunks
                           \/ r.document = id /\ \E a \in Nat : r.id = <<writes + 1, a>>
    BY <1>1, <1>2, NewRowsAreNew
  <2>2. document'.id <= writes'
    BY <1>0, <1>1, <1>3
  <2> QED BY <2>1, <2>2, <1>0, <1>1, <1>3 DEF Commits
<1>5. IsWhole'
  <2>1. CASE document.id = id
    <3>1. RowsOf(document.id)' = NewRows(c)
      BY <1>1, <1>2, <1>3, <2>1, NewRowsAreNew DEF RowsOf
    <3>2. RowIds(RowsOf(document.id))' = RowIds(NewRows(c))
      BY <3>1 DEF RowIds
    <3>3. NewRows(c) = RowsFor(writes + 1, document.id, client[c].text)
      BY NewRowsAreNew, <1>2, <2>1
    <3>4. writes + 1 \in 1 .. writes'
      BY <1>1, <1>0
    <3> QED BY <3>1, <3>2, <3>3, <3>4, <1>1, <1>3, <2>1 DEF IsWhole
  <2>2. CASE document.id # id
    <3>1. document' = document
      BY <1>1, <2>2
    <3>2. RowsOf(document.id)' = RowsOf(document.id)
      BY <1>1, <1>2, <3>1, <2>2, NewRowsAreNew DEF RowsOf
    <3> QED BY <3>1, <3>2, <1>1, <2>2, OthersStay
  <2> QED BY <2>1, <2>2
<1> QED BY <1>4, <1>5, <1>0, <1>1, CommitKeeps

LEMMA DeleteKeeps ==
  ASSUME IndexInv, NEW c \in Clients, Delete(c)
  PROVE  IndexInv'
<1> DEFINE id == client[c].id
<1>0. /\ client' = [client EXCEPT ![c] = NoRequest] /\ id \in Nat
      /\ writes \in Nat /\ document \in [id : Nat, text : AllTexts]
      /\ document.id <= writes /\ id <= writes
  BY DEF Delete, IndexInv, IndexTypeOK, Numbered, ClientRecords
<1>1. /\ writes' = writes /\ embeds' = embeds
      /\ document' = IF document.id = id THEN NoDocument ELSE document
      /\ chunks' = chunks \ RowsOf(id) /\ fts' = fts \ client[c].old
  BY DEF Delete
<1>2. NoDocument.id = 0 /\ NoDocument \in [id : Nat, text : AllTexts]
  BY NoRequestType DEF NoDocument
<1>3. Commits(c, id)
  BY <1>0, <1>1, <1>2 DEF Commits
<1>4. IsWhole'
  <2>1. CASE document.id = id
    BY <2>1, <1>1, <1>2 DEF IsWhole
  <2>2. CASE document.id # id
    <3>1. document' = document
      BY <1>1, <2>2
    <3>2. RowsOf(document.id)' = RowsOf(document.id)
      BY <1>1, <3>1, <2>2 DEF RowsOf
    <3> QED BY <3>1, <3>2, <1>1, <2>2, OthersStay
  <2> QED BY <2>1, <2>2
<1> QED BY <1>3, <1>4, <1>0, <1>1, CommitKeeps

(* The invariant is inductive. *)
THEOREM IndexInvHolds == IndexSpec => []IndexInv
<1>1. IndexInit => IndexInv
  <2> SUFFICES ASSUME IndexInit PROVE IndexInv
    OBVIOUS
  <2>1. IndexTypeOK
    BY NoRequestType DEF IndexInit, IndexTypeOK
  <2>2. \A c \in Clients : client[c] = NoRequest
    BY DEF IndexInit
  <2>3. document.id = 0 /\ chunks = {} /\ writes = 0
    BY DEF IndexInit, NoDocument
  <2>4. Numbered /\ OneOwner /\ OldAreTheirs /\ NothingListed /\ IsWhole
    BY <2>2, <2>3, NoRequestType
       DEF Numbered, OneOwner, OldAreTheirs, NothingListed, IsWhole
  <2> QED BY <2>1, <2>4 DEF IndexInv
<1>2. IndexInv /\ [IndexNext]_indexVars => IndexInv'
  <2> SUFFICES ASSUME IndexInv, [IndexNext]_indexVars PROVE IndexInv'
    OBVIOUS
  <2>1. CASE UNCHANGED indexVars
    BY <2>1 DEF indexVars, IndexInv, IndexTypeOK, Numbered, OneOwner, OldAreTheirs,
                NothingListed, IsWhole, RowsOf, RowIds
  <2>2. ASSUME NEW c \in Clients,
               \/ \E text \in Texts : Ingest(c, text)
               \/ Embed(c) \/ Find(c) \/ ListOld(c) \/ Remove(c) \/ ClientDies(c)
        PROVE  IndexInv'
    BY <2>2, ClientSteps, AsksKeeps
  <2>3. ASSUME NEW c \in Clients, Insert(c) PROVE IndexInv'
    BY <2>3, InsertKeeps
  <2>4. ASSUME NEW c \in Clients, Replace(c) PROVE IndexInv'
    BY <2>4, ReplaceKeeps
  <2>5. ASSUME NEW c \in Clients, Delete(c) PROVE IndexInv'
    BY <2>5, DeleteKeeps
  <2> QED BY <2>1, <2>2, <2>3, <2>4, <2>5 DEF IndexNext
<1> QED BY <1>1, <1>2, PTL DEF IndexSpec

(* A search finds the recorded text of the document, the whole of it and   *)
(* nothing of another version, whatever the other clients do               *)
(* (rag.py, _ingest_file, _chunk, search).                                 *)
THEOREM FindsWhatIsIndexedHolds == IndexSpec => []FindsWhatIsIndexed
<1>1. IndexInv => FindsWhatIsIndexed
  BY IndexFindsWhatIsIndexed
<1> QED BY <1>1, IndexInvHolds, PTL
===============================================================================
