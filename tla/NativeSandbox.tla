--------------------------- MODULE NativeSandbox ---------------------------
(* parity/native_sandbox.py, the host whose tools work on one temporary     *)
(* workspace, and parity/v4_local_mechanism_executor.py, which drives it    *)
(* without a provider: one call that the host denies and, on the recovery   *)
(* path, the same call again.                                               *)
(*                                                                          *)
(* execute_tool() awaits nothing: a call is one step.  The workspace maps   *)
(* the names in it to what they hold; contents are "seeded", "wanted" (what *)
(* the caller asked for), "large" and "cut" (a write the disk broke off).   *)
EXTENDS Integers, Sequences, FiniteSets

CONSTANTS MaxFiles,     \* MAX_SANDBOX_FILES
          MaxCalls      \* bound: calls of a host that anybody drives

ASSUME SandboxAssumption ==
  MaxFiles \in Nat \ {0} /\ MaxCalls \in Nat \ {0}

VARIABLES host,         \* the NativeSandboxHost
          files,        \* the workspace
          local         \* the executor: its row, path, results and verdict

sandboxVars == <<host, files, local>>

(* What a path names once it is resolved: "dotted" is another spelling of   *)
(* the fixture, "outside" leaves the workspace.                             *)
Spellings ==
  {"seed", "dotted", "out", "extra", "script", "nested", "outside"}
Target == [p \in Spellings |-> IF p = "dotted" THEN "seed" ELSE p]
AtRoot == {"seed", "out", "extra", "script"}
Writable == {"seed", "out", "extra", "nested"}   \* by their extensions
Protected == {"seed"}

(* The commands of the simulated CLI, with their exit codes.                *)
OpenclawExit ==
  [skills |-> 0, memory |-> 1, browser_status |-> 1, browser |-> 0,
   cron |-> 0, directory |-> 1, agents |-> 0, message |-> 2,
   message_dry_run |-> 0, gateway |-> 1, unknown |-> 2]

ReadCalls == {[tool |-> "read", path |-> p] : p \in Spellings}
WriteCalls ==
  [tool : {"write"}, path : Spellings, content : {"wanted", "large"}]
ExecCalls ==
  {[tool |-> "exec", command |-> c] :
     c \in DOMAIN OpenclawExit \cup {"cat", "ls", "pwd", "shell"}}
CronCalls == {[tool |-> "cron", action |-> a] : a \in {"list", "create"}}
Calls == ReadCalls \cup WriteCalls \cup ExecCalls \cup CronCalls
           \cup {[tool |-> "other"]}

(* A workspace with its fixture. *)
Seeded == [n \in {"seed"} |-> "seeded"]

NewHost(denyFirst) ==
  [deny |-> denyFirst, denied |-> FALSE, recovered |-> FALSE,
   successes |-> 0, trace |-> <<>>]

Trace(h, kind, req) ==
  [h EXCEPT !.trace = Append(@, [type |-> kind, tool |-> req.tool])]

Readable(ws, p) ==
  /\ Target[p] # "outside"
  /\ Target[p] \in DOMAIN ws
  /\ ws[Target[p]] # "large"

(* _write() in the order of its checks; Full counts the directory.       *)
Full(ws) == Cardinality(DOMAIN ws) >= MaxFiles
(* Mutant: the protection goes by the spelling of the path. *)
MayWriteSpelled(ws, req) ==
  LET name == Target[req.path]
  IN  /\ req.content # "large" /\ name # "outside"
      /\ req.path \notin Protected
      /\ name \in Writable /\ name \in AtRoot
      /\ ~Full(ws) \/ name \in DOMAIN ws
MayWrite(ws, req) ==
  LET name == Target[req.path]
  IN  /\ req.content # "large"
      /\ name # "outside"
      /\ name \notin Protected
      /\ name \in Writable
      /\ name \in AtRoot
      /\ ~Full(ws) \/ name \in DOMAIN ws

(* Whether the operation behind a call raises nothing; disk says whether    *)
(* the operating system does its part.                                      *)
UsesDisk(req) ==
  \/ req.tool \in {"read", "write"}
  \/ req.tool = "exec" /\ req.command \in {"cat", "ls"}
Accepted(ws, req) ==
  CASE req.tool = "read"  -> Readable(ws, req.path)
    [] req.tool = "write" -> MayWrite(ws, req)
    [] req.tool = "exec"  -> /\ req.command # "shell"
                              /\ req.command = "cat" => Readable(ws, "seed")
    [] req.tool = "cron"  -> TRUE
    [] OTHER               -> FALSE

(* A write leaves what was asked for, or, when the disk fails, a file that  *)
(* was opened and is not complete.                                          *)
Written(ws, req, disk) ==
  IF req.tool = "write" /\ MayWrite(ws, req)
  THEN [n \in DOMAIN ws \cup {Target[req.path]} |->
          IF n # Target[req.path] THEN ws[n]
          ELSE IF disk THEN req.content ELSE "cut"]
  ELSE ws

(* What the caller gets: the denial, the rejection, or an answer.           *)
Succeeds(ws, req, disk) == Accepted(ws, req) /\ (UsesDisk(req) => disk)
Reply(ws, req, disk) ==
  IF ~Succeeds(ws, req, disk) THEN "rejected"
  ELSE CASE req.tool = "read" -> ws[Target[req.path]]
         [] req.tool = "write" -> "written"
         [] req.tool = "cron" -> IF req.action = "list" THEN "no_jobs"
                                                          ELSE "created"
         [] req.tool = "exec" ->
              IF /\ req.command \in DOMAIN OpenclawExit
                 /\ OpenclawExit[req.command] # 0
              THEN "exit_n" ELSE "exit_0"

(* execute_tool(): the host, the workspace and the reply after a call.      *)
ExecuteTool(h, ws, req, disk) ==
  LET asked == Trace(h, "call", req)
  IN  IF h.deny
      THEN [host |-> [Trace(asked, "error", req) EXCEPT
                        !.deny = FALSE, !.denied = TRUE],
            files |-> ws, reply |-> "denied"]
      ELSE [host |-> IF Succeeds(ws, req, disk)
                     THEN [Trace(asked, "done", req) EXCEPT
                             !.successes = @ + 1, !.recovered = @ \/ h.denied]
                     ELSE Trace(asked, "error", req),
            files |-> Written(ws, req, disk),
            reply |-> Reply(ws, req, disk)]

-----------------------------------------------------------------------------
(* The executor.  Its handlers make one of these calls; a row that reads a  *)
(* fixture seeds it first.  The host is its own, with no protected paths;   *)
(* the calls are sealed, so the fixture is never a target of a write.       *)
LocalRows ==
  [host_tool |-> [tool |-> "cron", action |-> "list"],
   memory |-> [tool |-> "write", path |-> "out", content |-> "wanted"],
   docs |-> [tool |-> "read", path |-> "seed"],
   skills |-> [tool |-> "exec", command |-> "skills"],
   surface |-> [tool |-> "exec", command |-> "message_dry_run"],
   browser |-> [tool |-> "exec", command |-> "browser"]]
Paths == {"denial", "recovery"}
NoLocal == [row |-> "none", path |-> "none", replies |-> <<>>,
            verdict |-> "none"]

(* What a handler expects the second call to have answered.                 *)
Expected ==
  [host_tool |-> "no_jobs", memory |-> "written", docs |-> "seeded",
   skills |-> "exit_0", surface |-> "exit_0", browser |-> "exit_0"]

(* Mutant: the call is repeated until it is answered. *)
CallsUntilAnswered(path, replies) ==
  IF path = "denial" THEN 1
  ELSE IF replies = <<>> THEN 1
  ELSE IF replies[Len(replies)] \in {"denied", "rejected"}
       THEN Len(replies) + 1 ELSE Len(replies)
(* The number of calls _host_operation() makes.                             *)
CallsOf(path, replies) == IF path = "denial" THEN 1 ELSE 2

(* The checks of _host_operation() and of the handler, after the last call. *)
Verified(h, ws, l) ==
  LET n == Len(l.replies)
  IN  /\ h.denied
      /\ l.replies[1] \in {"denied", "rejected"}
      /\ Len(h.trace) = 2 * n
      /\ l.path = "denial" =>
           h.successes = 0 /\ (l.row = "memory" => "out" \notin DOMAIN ws)
      /\ l.path = "recovery" =>
           /\ h.recovered /\ h.successes = 1
           /\ l.replies[n] \notin {"denied", "rejected"}
           /\ l.replies[n] = Expected[l.row]
           /\ l.row = "memory" => "out" \in DOMAIN ws /\ ws["out"] = "wanted"

(* execute_v4_local_mechanism(): admission against the frozen inputs, a     *)
(* fresh workspace, and the fixture, which may fail to be written.          *)
Admit(row, path, frozen, disk) ==
  /\ local = NoLocal /\ host.trace = <<>>
  /\ host' = NewHost(TRUE)
  /\ IF frozen /\ (row = "docs" => disk)
     THEN /\ local' = [NoLocal EXCEPT !.row = row, !.path = path]
          /\ files' = IF row = "docs" THEN Seeded ELSE <<>>
     ELSE /\ local' = [NoLocal EXCEPT !.row = row, !.path = path,
                                      !.verdict = "refused"]
          /\ files' = <<>>

LocalCall(disk) ==
  /\ local.row # "none" /\ local.verdict = "none"
  /\ Len(local.replies) < CallsOf(local.path, local.replies)
  /\ LET done == ExecuteTool(host, files, LocalRows[local.row], disk)
     IN  /\ host' = done.host /\ files' = done.files
         /\ local' = [local EXCEPT !.replies = Append(@, done.reply)]

Judge ==
  /\ local.row # "none" /\ local.verdict = "none"
  /\ Len(local.replies) >= CallsOf(local.path, local.replies)
  /\ local' = [local EXCEPT !.verdict =
                 IF Verified(host, files, local) THEN "PASS" ELSE "refused"]
  /\ UNCHANGED <<host, files>>

(* A host that anybody drives: the caller of a native scenario.             *)
AnyCall(req, disk) ==
  /\ local = NoLocal /\ Len(host.trace) < 2 * MaxCalls
  /\ LET done == ExecuteTool(host, files, req, disk)
     IN  host' = done.host /\ files' = done.files
  /\ UNCHANGED local

SandboxInit ==
  /\ host \in {NewHost(TRUE), NewHost(FALSE)}
  /\ files \in {Seeded, [n \in {"seed"} |-> "large"]}
  /\ local = NoLocal

SandboxNext ==
  \/ \E req \in Calls, disk \in BOOLEAN : AnyCall(req, disk)
  \/ \E row \in DOMAIN LocalRows, path \in Paths,
        frozen, disk \in BOOLEAN : Admit(row, path, frozen, disk)
  \/ \E disk \in BOOLEAN : LocalCall(disk)
  \/ Judge

SandboxTypeOK ==
  /\ host.successes \in 0 .. MaxCalls
  /\ DOMAIN files \subseteq AtRoot
  /\ local.verdict \in {"none", "refused", "PASS"}

(* Whoever calls it and however it spells the path, the sandbox's file      *)
(* tools leave the fixture alone, stay at the root of the workspace and     *)
(* within the number of files, and a denied call changes nothing            *)
(* (native_sandbox.py:376-409, 449-463).                                    *)
WorkspaceIsFenced ==
  [][local' = NoLocal =>
       /\ files'["seed"] = files["seed"]
       /\ DOMAIN files' \subseteq AtRoot \ {"script"}
       /\ Cardinality(DOMAIN files') <= MaxFiles
       /\ host'.denied # host.denied => files' = files]_sandboxVars

(* A PASS of the local executor is one denial without an effect and, on the *)
(* recovery path, exactly one more call, which did the whole operation: no  *)
(* write the disk broke off and no third attempt passes                     *)
(* (v4_local_mechanism_executor.py:117-225).                                *)
LocalPassIsExact ==
  local.verdict = "PASS" =>
    /\ local.replies[1] = "denied"
    /\ Len(local.replies) = IF local.path = "denial" THEN 1 ELSE 2
    /\ host.successes = Len(local.replies) - 1
    /\ "cut" \notin {files[n] : n \in DOMAIN files}
    /\ local.path = "denial" => "out" \notin DOMAIN files
    /\ "seed" \in DOMAIN files => files["seed"] = "seeded"
=============================================================================
