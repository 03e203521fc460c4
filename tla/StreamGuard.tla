---------------------------- MODULE StreamGuard ----------------------------
(***************************************************************************)
(* The zero-native guard.  The reader of a session gives every SDK message *)
(* to zero_native_violation(), which scans content blocks and follows the  *)
(* raw stream events: an input delta carries no tool name, so it is trusted*)
(* by the name its index was started with.  The session clears the indexes *)
(* when a turn claims its inbox and when the turn ends.  What the guard    *)
(* lets through is projected, and the runtime looks at the names again.    *)
(***************************************************************************)
EXTENDS Naturals, Sequences

CONSTANTS
  Tools,        \* the exact names of the Hermes MCP tools
  Natives,      \* names that stay outside the allowlist when projected
  Indexes,      \* stream indexes below _STREAM_TOOL_INDEX_LIMIT
  NoIndex,      \* any other index
  ScanLimit,    \* _MAX_ARGUMENT_ITEMS: the blocks the guard looks at
  MaxEvents,    \* bound: stream events in a turn
  MaxTurns      \* bound: turns

ASSUME GuardAssumption ==
  NoIndex \notin Indexes /\ ScanLimit \in Nat /\ MaxTurns \in Nat

VARIABLES
  indexes,      \* _stream_tool_indexes: index -> was a Hermes tool started
  turn,         \* the number of turns that claimed the inbox
  claimed,      \* is a turn active
  log,          \* history: the stream events of this turn, with verdicts
  message       \* history: the last message with blocks, and its fate

guardVars == <<indexes, turn, claimed, log, message>>

(* The raw stream events: what the event is, the type of the block or of   *)
(* the delta it carries, and the tool name in it.                          *)
Carried == {"none", "text", "server", "tool_use", "other"}
StreamEvents ==
  {e \in [type : {"start", "delta", "stop"}, block : Carried,
          delta : Carried \cup {"input_json"},
          name : Tools \cup Natives \cup {"none"},
          index : Indexes \cup {NoIndex}] :
     /\ e.block # "none" => e.type = "start"
     /\ e.delta # "none" => e.type = "delta"
     /\ (e.name = "none") = ("tool_use" \notin {e.block, e.delta})}

NoMessage == [blocks |-> <<>>, fate |-> "none"]

GuardInit ==
  /\ indexes = [i \in Indexes |-> FALSE]
  /\ turn = 0 /\ claimed = FALSE /\ log = <<>>
  /\ message = NoMessage

(* The branches of _stream_tool_violation(), in its order: a block of a    *)
(* tool type returns at once, then a delta of one, then the event's type.  *)
ServerUse(e) ==
  e.block = "server" \/ (e.block # "tool_use" /\ e.delta = "server")
NamedUse(e) ==
  e.block = "tool_use" \/ (e.block # "server" /\ e.delta = "tool_use")
InputDelta(e) ==
  e.block \notin {"server", "tool_use"} /\ e.delta = "input_json"
Plain(e) == ~ServerUse(e) /\ ~NamedUse(e) /\ ~InputDelta(e)
Stops(e) == Plain(e) /\ e.type = "stop" /\ e.index \in Indexes

StreamViolation(e) ==
  \/ ServerUse(e)
  \/ NamedUse(e) /\ e.name \notin Tools
  \/ InputDelta(e) /\ (e.index = NoIndex \/ ~indexes[e.index])
  \/ Plain(e) /\ e.type = "start" /\ e.block = "other"

(* Mutant: the end of a block leaves its index behind. *)
IndexesKept(e) ==
  IF NamedUse(e) /\ e.name \in Tools /\ e.index \in Indexes
  THEN [indexes EXCEPT ![e.index] = TRUE]
  ELSE indexes

IndexesAfter(e) ==
  CASE NamedUse(e) /\ e.name \in Tools /\ e.index \in Indexes ->
         [indexes EXCEPT ![e.index] = TRUE]
    [] Stops(e) -> [indexes EXCEPT ![e.index] = FALSE]
    [] OTHER -> indexes

(* run_turn() claims the inbox and clears the indexes; its finally clause  *)
(* clears them again.                                                      *)
Claim ==
  /\ ~claimed /\ turn < MaxTurns
  /\ claimed' = TRUE /\ turn' = turn + 1
  /\ indexes' = [i \in Indexes |-> FALSE]
  /\ log' = <<>>
  /\ UNCHANGED message

Finish ==
  /\ claimed /\ claimed' = FALSE
  /\ indexes' = [i \in Indexes |-> FALSE]
  /\ log' = <<>>
  /\ UNCHANGED <<turn, message>>

(* The reader looks at a stream event; it does so between turns too.       *)
ReadStream ==
  /\ Len(log) < MaxEvents
  /\ \E e \in StreamEvents :
       /\ log' = Append(log, [event |-> e, violation |-> StreamViolation(e)])
       /\ indexes' = IndexesAfter(e)
  /\ message' = NoMessage
  /\ UNCHANGED <<turn, claimed>>

(* zero_native_violation() for a message that is not a stream event: task  *)
(* messages, nested messages and deferred tools by their own fields, then  *)
(* the first blocks of the content.                                        *)
Flags == {"none", "task", "nested", "deferred"}
Blocks == [kind : {"text", "server"}, name : {"none"}, nested : {FALSE}]
          \cup [kind : {"tool_use"}, name : Tools \cup Natives,
                nested : BOOLEAN]
(* Mutant: only a nested tool use is looked for. *)
NestedBlockOnly(b) == b.kind = "server" \/ b.nested

NativeBlock(b) ==
  b.kind = "server"
    \/ (b.kind = "tool_use" /\ (b.name \notin Tools \/ b.nested))

Scanned(blocks) == {i \in DOMAIN blocks : i <= ScanLimit}
MessageViolation(flag, blocks) ==
  flag # "none" \/ \E i \in Scanned(blocks) : NativeBlock(blocks[i])

(* Mutant: the runtime trusts the guard. *)
UnlistedNever(blocks) == FALSE

(* runtime.py looks at every projected tool request, wherever its block    *)
(* stands, and refuses the turn for a name outside the allowlist.          *)
Unlisted(blocks) ==
  \E i \in DOMAIN blocks :
    blocks[i].kind = "tool_use" /\ blocks[i].name \notin Tools

(* The verdict depends on the message alone, so one is read before the     *)
(* stream events of a turn (a bound).                                      *)
ReadMessage ==
  /\ claimed /\ log = <<>>
  /\ \E flag \in Flags, n \in 0 .. ScanLimit + 1 :
     \E blocks \in [1 .. n -> Blocks] :
       message' =
         [blocks |-> blocks,
          fate |-> IF MessageViolation(flag, blocks) THEN "violation" ELSE
                   IF Unlisted(blocks) THEN "unlisted" ELSE
                   "public"]
  /\ UNCHANGED <<indexes, turn, claimed, log>>

GuardNext == Claim \/ Finish \/ ReadStream \/ ReadMessage

-----------------------------------------------------------------------------
GuardTypeOK ==
  /\ indexes \in [Indexes -> BOOLEAN]
  /\ turn \in 0 .. MaxTurns /\ claimed \in BOOLEAN
  /\ log \in Seq([event : StreamEvents, violation : BOOLEAN])
  /\ message.fate \in {"none", "violation", "unlisted", "public"}

(* Is a Hermes tool open at index i just before the k-th event of the turn:*)
(* an accepted start or named delta, and no stop of that index since.      *)
ToolOpen(i, k) ==
  \E j \in 1 .. k - 1 :
    /\ i \in Indexes /\ NamedUse(log[j].event) /\ ~log[j].violation
    /\ log[j].event.index = i
    /\ \A m \in j + 1 .. k - 1 :
         ~(Stops(log[m].event) /\ log[m].event.index = i)

(* An input delta passes the guard exactly when an allowed tool was named  *)
(* at its index in this turn and not stopped since, whatever other blocks  *)
(* were started, stopped or refused in between and in earlier turns.       *)
DeltasProved ==
  \A k \in DOMAIN log :
    InputDelta(log[k].event) =>
      (log[k].violation <=> ~ToolOpen(log[k].event.index, k))

(* A message with a tool request outside the allowlist never becomes       *)
(* public, although the guard scans only its first blocks: the names that  *)
(* are past the limit are caught when they were projected.  A native block *)
(* within the limit is caught by the guard itself, before any projection.  *)
NoUnlistedToolIsPublic ==
  /\ message.fate = "public" =>
       \A i \in DOMAIN message.blocks :
         message.blocks[i].kind = "tool_use" =>
           message.blocks[i].name \in Tools
  /\ message.fate \in {"public", "unlisted"} =>
       \A i \in Scanned(message.blocks) :
         message.blocks[i].kind = "text"
           \/ (message.blocks[i].name \in Tools
                 /\ message.blocks[i].kind # "server")

(* What the SDK is let to show: no delta of a block that was not started   *)
(* under its name, no tool that is not on the list (content_events.py).    *)
StreamIsGuarded == DeltasProved /\ NoUnlistedToolIsPublic
=============================================================================
