---------------------------- MODULE SessionStore -----------------------------
(***************************************************************************)
(* The Session of one run: the SQLite store (src/lightworker/sessions.py), *)
(* the state and the readable files of RunStore (storage.py), the event    *)
(* log of the page (EventLog in tool_protocol.py), and the agents that     *)
(* hold a copy of the Session and save it later.                           *)
(*                                                                         *)
(* A transaction (BEGIN IMMEDIATE) has the store to itself; a transaction  *)
(* within one joins it.  What is written to a file inside a transaction    *)
(* stays written when the transaction is rolled back.  One state stands    *)
(* for all the canonical JSON files, and its values are numbers.           *)
(***************************************************************************)
EXTENDS Naturals, Sequences, FiniteSets

CONSTANTS
  Writers,    \* processes with a connection to the store
  Keys,       \* idempotency keys
  Legacy,     \* lines of an events.jsonl older than the Session
  ReadLimit,  \* events that one read returns at most
  MaxEvents,  \* bound: events made
  Absent

ASSUME SessionStoreConstants ==
  /\ Legacy \in Nat /\ ReadLimit \in Nat \ {0} /\ MaxEvents \in Nat
  /\ Absent \notin Writers \cup Keys

VARIABLES
  log,     \* the committed events, in the order of their sequence
  fresh,   \* events made so far: the source of event_id
  tx,      \* the transaction that is open
  held,    \* the Session each agent holds
  file,    \* the value in the JSON file
  late,    \* values committed whose file is still to be written
  opened,  \* processes whose EventLog is made
  lines,   \* the lines of events.jsonl
  reader,  \* a page that follows the events
  lastSet  \* the value last committed by set_state (history)

storeVars == <<log, fresh, tx, held, file, late, opened, lines, reader, lastSet>>

-----------------------------------------------------------------------------
Ids   == 1 .. MaxEvents
Types == {"state", "event", "note", "migrated"}

(* An event of the page carries the value of its line. *)
Line   == [sequence : Nat, value : Nat]
Event  == [id : Ids, type : Types, key : Keys \cup Nat \cup {Absent}, value : Nat]
Ops    == {"save", "append", "emit", "set", "read", "migrate"}
Closed == [by |-> Absent, op |-> "save", log |-> <<>>, at |-> 0, done |-> FALSE,
           key |-> Absent, value |-> 0]

StoreTypeOK ==
  /\ log \in Seq(Event)
  /\ fresh \in 0 .. MaxEvents
  /\ tx \in [by : Writers \cup {Absent}, op : Ops, log : Seq(Event), at : Nat,
             done : BOOLEAN, key : Keys \cup {Absent}, value : Nat]
  /\ held \in [Writers -> Seq(Event)]
  /\ file \in Nat /\ lines \in Seq(Line)
  /\ late \in [Writers -> Nat] /\ opened \subseteq Writers
  /\ reader \in [after : Nat, seen : SUBSET Nat]
  /\ lastSet \in Nat

(* The values of a run that is older than its Session come after all ids.  *)
OldValue   == MaxEvents + 1
OldLine(n) == MaxEvents + 1 + n

StoreInit ==
  /\ log = <<>> /\ fresh = 0 /\ tx = Closed
  /\ held = [w \in Writers |-> <<>>]
  /\ file \in {0, OldValue}
  /\ late = [w \in Writers |-> 0]
  /\ opened = {} /\ lines = [n \in 1 .. Legacy |-> [sequence |-> n, value |-> OldLine(n)]]
  /\ reader = [after |-> 0, seen |-> {}]
  /\ lastSet = 0

-----------------------------------------------------------------------------
Has(s, id)      == \E i \in 1 .. Len(s) : s[i].id = id
HasKey(s, k)    == \E i \in 1 .. Len(s) : s[i].key = k
HasType(s, t)   == \E i \in 1 .. Len(s) : s[i].type = t

(* TaskSession.state: the value of the last state event, if there is one. *)
State(s) ==
  {s[i].value : i \in {i \in 1 .. Len(s) : /\ s[i].type = "state"
                                          /\ \A j \in i + 1 .. Len(s) : s[j].type # "state"}}

New(type, key, value) == [id |-> fresh + 1, type |-> type, key |-> key, value |-> value]

(* Append an event to the open transaction. *)
Add(type, key, value) ==
  /\ fresh < MaxEvents
  /\ fresh' = fresh + 1
  /\ tx' = [tx EXCEPT !.log = Append(@, New(type, key, value)), !.done = TRUE]

(* A line of the file becomes an event; the import goes on. *)
Import(key, value) ==
  /\ fresh < MaxEvents
  /\ fresh' = fresh + 1
  /\ tx' = [tx EXCEPT !.at = @ + 1, !.log = Append(@, New("event", key, value))]

Skip == tx' = [tx EXCEPT !.done = TRUE] /\ UNCHANGED fresh

In(op) == tx.by # Absent /\ tx.op = op /\ ~tx.done

-----------------------------------------------------------------------------
OpenTransaction(w, op, key) ==
  /\ tx.by = Absent
  /\ op = "emit" => w \in opened
  /\ tx' = [Closed EXCEPT !.by = w, !.op = op, !.log = log, !.key = key]
  /\ UNCHANGED <<log, fresh, held, file, late, opened, lines, reader, lastSet>>

(* An agent's Session goes on from what it loaded. *)
Load(w) ==
  /\ tx.by = Absent
  /\ held' = [held EXCEPT ![w] = log]
  /\ UNCHANGED <<log, fresh, tx, file, late, opened, lines, reader, lastSet>>

Think(w) ==
  /\ tx.by # w /\ fresh < MaxEvents
  /\ fresh' = fresh + 1
  /\ held' = [held EXCEPT ![w] = Append(@, New("note", Absent, 0))]
  /\ UNCHANGED <<log, tx, file, late, opened, lines, reader, lastSet>>

(* What the agent holds replaces what is stored (faulty). *)
MergeReplaces ==
  /\ In("save")
  /\ tx' = [tx EXCEPT !.done = TRUE, !.log = held[tx.by]]
  /\ UNCHANGED <<log, fresh, held, file, late, opened, lines, reader, lastSet>>

(* save: the events of the agent that the store does not know are appended *)
(* to what it knows, one after the other.                                  *)
Merge ==
  /\ In("save")
  /\ LET mine == held[tx.by] IN
     IF tx.at = Len(mine) THEN tx' = [tx EXCEPT !.done = TRUE]
     ELSE LET e == mine[tx.at + 1] IN
          tx' = [tx EXCEPT !.at = @ + 1,
                           !.log = IF Has(tx.log, e.id) THEN @ ELSE Append(@, e)]
  /\ UNCHANGED <<log, fresh, held, file, late, opened, lines, reader, lastSet>>

(* A call that is repeated appends again (faulty). *)
AppendAgain ==
  /\ In("append")
  /\ Add("note", tx.key, 0)
  /\ UNCHANGED <<log, held, file, late, opened, lines, reader, lastSet>>

(* append_if_sequence: a known key stands for the event that has it.       *)
AppendOnce ==
  /\ In("append")
  /\ IF tx.key # Absent /\ HasKey(tx.log, tx.key) THEN Skip ELSE Add("note", tx.key, 0)
  /\ UNCHANGED <<log, held, file, late, opened, lines, reader, lastSet>>

(* EventLog.emit: the event, then its line in the file. *)
Emit ==
  /\ In("emit")
  /\ Add("event", Absent, fresh + 1)
  /\ lines' = Append(lines, [sequence |-> Len(tx.log) + 1, value |-> fresh + 1])
  /\ UNCHANGED <<log, held, file, late, opened, reader, lastSet>>

(* set_state leaves an equal value alone. *)
SetState ==
  /\ In("set")
  /\ \/ \E v \in State(tx.log) :
          tx' = [tx EXCEPT !.done = TRUE, !.value = v] /\ UNCHANGED fresh
     \/ /\ fresh < MaxEvents /\ fresh' = fresh + 1
        /\ tx' = [tx EXCEPT !.log = Append(@, New("state", Absent, fresh + 1)),
                            !.done = TRUE, !.value = fresh + 1]
  /\ UNCHANGED <<log, held, file, late, opened, lines, reader, lastSet>>

(* write_json inside a transaction writes the file before the commit. *)
WriteEarly ==
  /\ tx.by # Absent /\ tx.op = "set" /\ tx.done /\ file # tx.value
  /\ file' = tx.value
  /\ UNCHANGED <<log, fresh, tx, held, late, opened, lines, reader, lastSet>>

(* read_json takes the file for the state whenever they differ (faulty). *)
ReadFile ==
  /\ In("read")
  /\ IF file = 0 \/ State(tx.log) = {file} THEN Skip ELSE Add("state", Absent, file)
  /\ UNCHANGED <<log, held, file, late, opened, lines, reader, lastSet>>

(* read_json: the file of an old run becomes the first state. *)
Read ==
  /\ In("read")
  /\ IF file = 0 \/ State(tx.log) # {} THEN Skip ELSE Add("state", Absent, file)
  /\ UNCHANGED <<log, held, file, late, opened, lines, reader, lastSet>>

(* The lines are imported whenever the file is there (faulty). *)
MigrateAgain ==
  /\ In("migrate")
  /\ IF tx.at < Len(lines) THEN Import(Absent, lines[tx.at + 1].value)
     ELSE IF HasType(tx.log, "migrated") THEN Skip ELSE Add("migrated", Absent, 0)
  /\ UNCHANGED <<log, held, file, late, opened, lines, reader, lastSet>>

(* EventLog._migrate: nothing when there is no file or it was done before, *)
(* a mark if there are events, else the lines of the file and the mark.    *)
Migrate ==
  /\ In("migrate")
  /\ IF lines = <<>> \/ (tx.at = 0 /\ HasType(tx.log, "migrated")) THEN Skip
     ELSE IF tx.at = Len(lines) \/ (tx.at = 0 /\ HasType(tx.log, "event"))
     THEN Add("migrated", Absent, 0)
     ELSE LET line == lines[tx.at + 1] IN
          IF HasKey(tx.log, line.sequence)
          THEN tx' = [tx EXCEPT !.at = @ + 1] /\ UNCHANGED fresh
          ELSE Import(line.sequence, line.value)
  /\ UNCHANGED <<log, held, file, late, opened, lines, reader, lastSet>>

(* The agent is given the merged Session; a file not yet written follows.  *)
Commit ==
  /\ tx.by # Absent /\ tx.done
  /\ log' = tx.log
  /\ held' = IF tx.op = "save" THEN [held EXCEPT ![tx.by] = tx.log] ELSE held
  /\ late' = IF tx.op = "set" /\ file # tx.value THEN [late EXCEPT ![tx.by] = tx.value] ELSE late
  /\ lastSet' = IF tx.op = "set" THEN tx.value ELSE lastSet
  /\ opened' = IF tx.op = "migrate" THEN opened \cup {tx.by} ELSE opened
  /\ tx' = Closed
  /\ UNCHANGED <<fresh, file, lines, reader>>

WriteLate(w) ==
  /\ late[w] # 0 /\ tx.by # w
  /\ file' = late[w]
  /\ late' = [late EXCEPT ![w] = 0]
  /\ UNCHANGED <<log, fresh, tx, held, opened, lines, reader, lastSet>>

(* An exception rolls the transaction back, and so does the process's end. *)
Abort ==
  /\ tx.by # Absent
  /\ tx' = Closed
  /\ UNCHANGED <<log, fresh, held, file, late, opened, lines, reader, lastSet>>

WriterDies(w) ==
  /\ tx' = IF tx.by = w THEN Closed ELSE tx
  /\ held' = [held EXCEPT ![w] = <<>>] /\ late' = [late EXCEPT ![w] = 0]
  /\ opened' = opened \ {w}
  /\ UNCHANGED <<log, fresh, file, lines, reader, lastSet>>

(* The positions of the page's events after a sequence. *)
After(seq) == {i \in seq + 1 .. Len(log) : log[i].type = "event"}

(* The page skips what one read has no room for (faulty). *)
FollowNewest ==
  /\ tx.by = Absent
  /\ \E last \in After(reader.after) :
       LET shown == {i \in After(reader.after) : i <= last} IN
       /\ \/ Cardinality(shown) = ReadLimit
          \/ Cardinality(shown) < ReadLimit /\ shown = After(reader.after)
       /\ reader' = [after |-> Len(log), seen |-> reader.seen \cup shown]
  /\ UNCHANGED <<log, fresh, tx, held, file, late, opened, lines, lastSet>>

(* stream_events: the first ReadLimit events after the last one shown.      *)
Follow ==
  /\ tx.by = Absent
  /\ \E last \in After(reader.after) :
       LET shown == {i \in After(reader.after) : i <= last} IN
       /\ \/ Cardinality(shown) = ReadLimit
          \/ Cardinality(shown) < ReadLimit /\ shown = After(reader.after)
       /\ reader' = [after |-> last, seen |-> reader.seen \cup shown]
  /\ UNCHANGED <<log, fresh, tx, held, file, late, opened, lines, lastSet>>

-----------------------------------------------------------------------------
StoreNext ==
  \/ \E w \in Writers :
       \/ \E op \in Ops \ {"append"} : OpenTransaction(w, op, Absent)
       \/ \E k \in Keys \cup {Absent} : OpenTransaction(w, "append", k)
       \/ Load(w) \/ Think(w) \/ WriteLate(w) \/ WriterDies(w)
  \/ Merge \/ AppendOnce \/ Emit \/ SetState \/ WriteEarly \/ Read \/ Migrate
  \/ Commit \/ Abort \/ Follow

StoreSpec == StoreInit /\ [][StoreNext]_storeVars

-----------------------------------------------------------------------------
(* No save, whatever the agent holds, takes back or reorders an event that *)
(* was stored, or stores one again.                                        *)
Session == INSTANCE SessionLog WITH Events <- Event
ImplementsSessionLog == Session!Spec

(* A call repeated under one idempotency key is stored once. *)
OncePerKey ==
  \A i, j \in 1 .. Len(log) : log[i].key = log[j].key /\ log[i].key # Absent => i = j

(* The state is what was set last: neither a stale file nor a stale        *)
(* Session of an agent supersedes it.                                      *)
StateIsLastSet == lastSet # 0 => State(log) = {lastSet}

(* No line of the page's log is stored twice, and none of an older run is  *)
(* left out once the log is marked as migrated.                            *)
LinesStoredOnce ==
  /\ \A i, j \in 1 .. Len(log) :
       log[i].type = "event" /\ log[j].type = "event" /\ log[i].value = log[j].value => i = j
  /\ HasType(log, "migrated") =>
       \A n \in 1 .. Legacy : \E i \in 1 .. Len(log) : log[i].value = OldLine(n)

(* A page that asks for what came after its last sequence misses nothing.  *)
FollowsGapFree ==
  reader.seen = {i \in 1 .. reader.after : log[i].type = "event"}
=============================================================================
