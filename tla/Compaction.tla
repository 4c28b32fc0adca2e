----------------------------- MODULE Compaction ------------------------------
(***************************************************************************)
(* How the history of an agent is made to fit its model                    *)
(* (src/lightworker/context.py, TaskContextCompactor).                     *)
(*                                                                         *)
(* The loop that calls it is LightAgent's: it adds what the user, the      *)
(* model and the tools say, and hands the list over before each request.   *)
(* Whether it goes on with the compacted list or with its own is left      *)
(* open.  A message is its role, its size in tokens and, for the result of *)
(* a tool, the message that made the call.                                 *)
(***************************************************************************)
EXTENDS Naturals, Sequences, Functions, Selections

CONSTANTS
  Limit,       \* tokens of a request
  Spilled,     \* the size from which a result is written to a file
  StateSize,   \* tokens of the preserved task state
  Sizes,       \* of messages
  MaxMessages  \* bound

ASSUME HistoryAssumption ==
  /\ Limit \in Nat /\ Spilled \in Nat /\ StateSize \in Nat
  /\ Sizes \subseteq Nat /\ MaxMessages \in Nat

VARIABLES
  messages,    \* the loop's list
  awaited,     \* results of the last message's calls that are still to come
  given,       \* the list of the last compaction,
  sent,        \* what became of it
  said,        \* messages so far
  input,       \* what the user said last (history)
  asked        \* what the user had said last at the last compaction (history)

historyVars == <<messages, awaited, given, sent, said, input, asked>>

-----------------------------------------------------------------------------
Message(id, role, size, of) == [id |-> id, role |-> role, size |-> size, of |-> of]
System == Message(1, "system", 1, 0)

(* intact: the loop's list was not replaced by a compacted one since. *)
NoInput == [id |-> 0, intact |-> TRUE]

HistoryInit ==
  /\ messages = <<System>> /\ awaited = 0 /\ given = <<>> /\ sent = <<>> /\ said = 1
  /\ input = NoInput /\ asked = NoInput

Tokens(list) == FoldFunction(LAMBDA m, n : m.size + n, 0, list)
Fits(list)   == Tokens(list) <= Limit

(* A long result becomes a reference to a file. *)
Spill(list) ==
  [i \in DOMAIN list |-> IF list[i].role = "tool" /\ list[i].size >= Spilled
                         THEN [list[i] EXCEPT !.size = 1] ELSE list[i]]

Elements(list)     == {list[i] : i \in DOMAIN list}
Instructions(list) == {m \in Elements(list) : m.role = "system"}
Users(list)        == {i \in DOMAIN list : list[i].role = "user"}
Newest(list)       == {i \in Users(list) : \A j \in Users(list) : j <= i}
Input(list)        == {list[i] : i \in Newest(list)}

(* The instructions, the task's state and the latest input stay. *)
Mandatory(list, state) ==
  Selected(list, Instructions(list)) \o <<state>> \o Selected(list, Input(list))

Rest(list) == Selected(list, Elements(list) \ (Instructions(list) \cup Input(list)))

(* (faulty) Any message may be the first that is kept. *)
StartsAnywhere(rest) == DOMAIN rest
(* Where a group starts: a result belongs to the group before it. *)
Starts(rest) == {i \in DOMAIN rest : i = 1 \/ rest[i].role # "tool"}

(* The oldest groups go until the others fit; the last one never goes. *)
From(rest, s) == SubSeq(rest, s, Len(rest))
Kept(rest, mandatory) ==
  LET enough == {s \in Starts(rest) : \/ Fits(mandatory \o From(rest, s))
                                      \/ \A t \in Starts(rest) : t <= s}
  IN IF rest = <<>> THEN <<>> ELSE From(rest, CHOOSE s \in enough : \A t \in enough : s <= t)

Compacted(list, state) == Mandatory(list, state) \o Kept(Rest(list), Mandatory(list, state))

-----------------------------------------------------------------------------
(* LightAgent's loop *)

Say(message) == messages' = Append(messages, message) /\ said' = said + 1 /\ said < MaxMessages

(* The input of the user, and the turns of an earlier conversation. *)
Hear ==
  /\ awaited = 0
  /\ \E size \in Sizes : Say(Message(said + 1, "user", size, 0))
  /\ input' = [id |-> said + 1, intact |-> TRUE]
  /\ UNCHANGED <<awaited, given, sent, asked>>

(* The model answers, or calls up to two tools. *)
Reply ==
  /\ awaited = 0
  /\ \E size \in Sizes : Say(Message(said + 1, "assistant", size, 0))
  /\ awaited' \in 0 .. 2
  /\ UNCHANGED <<given, sent, input, asked>>

Caller == CHOOSE m \in Elements(messages) :
            /\ m.role = "assistant"
            /\ \A n \in Elements(messages) : n.role = "assistant" => n.id <= m.id

ToolReturns ==
  /\ awaited > 0 /\ awaited' = awaited - 1
  /\ \E size \in Sizes : Say(Message(said + 1, "tool", size, Caller.id))
  /\ UNCHANGED <<given, sent, input, asked>>

(* compact_to_budget, before a request. *)
Compact ==
  LET list   == Spill(messages)
      state  == Message(said + 1, "user", StateSize, 0)
      result == Compacted(list, state)
  IN /\ awaited = 0 /\ messages # <<System>> /\ given # list /\ said < MaxMessages
     /\ given' = list
     /\ IF Fits(list) THEN sent' = list /\ said' = said
        ELSE sent' = (IF Fits(result) THEN result ELSE <<>>) /\ said' = said + 1
     /\ messages' \in {messages, sent'} \ {<<>>}
     /\ input' = [input EXCEPT !.intact = @ /\ messages' \in {messages, list}]
     /\ asked' = input
     /\ UNCHANGED awaited

HistoryNext == Hear \/ Reply \/ ToolReturns \/ Compact

HistorySpec == HistoryInit /\ [][HistoryNext]_historyVars

-----------------------------------------------------------------------------
Ordered(i, j, list) == \E a, b \in DOMAIN list : a < b /\ list[a] = i /\ list[b] = j
CallOf(m)           == IF m.role = "tool" THEN m.of ELSE m.id

Has(list, id) == \E i \in DOMAIN list : list[i].id = id

(* A request fits, has the instructions and what the user said last, and   *)
(* holds a call exactly with its results and right before them; what is    *)
(* left out of the rest is older than what is kept (context.py).  What the *)
(* user said last is sure to stay only while the loop works on the list it *)
(* was said in: a compacted list puts older input behind it.               *)
RequestKeepsTheTask ==
  sent # <<>> =>
    /\ Fits(sent)
    /\ \A i \in DOMAIN given : given[i].role = "system" => given[i] \in Elements(sent)
    /\ asked.id # 0 /\ asked.intact => Has(sent, asked.id)
    /\ \A i \in DOMAIN sent : sent[i].role = "tool" =>
         /\ i > 1 /\ CallOf(sent[i - 1]) = sent[i].of
         /\ \E j \in 1 .. i - 1 : sent[j].id = sent[i].of
    /\ \A i, j \in DOMAIN Rest(given) :
         LET r == Rest(given) IN
         i < j /\ r[i] \in Elements(sent) => Ordered(r[i], r[j], sent)

(* "自动压缩保留系统指令、最新用户输入" (docs/lightworker_next_runtime.      *)
(* zh-CN.md:73): what the user said last stays, in each compaction.        *)
LatestInputStays == sent # <<>> /\ asked.id # 0 => Has(sent, asked.id)
=============================================================================
