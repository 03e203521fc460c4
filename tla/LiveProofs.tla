----------------------------- MODULE LiveProofs -----------------------------
(***************************************************************************)
(* Proofs about the parts beside the live session, for any of their        *)
(* constants: the sandbox with its local executor; the probe of the host's *)
(* database; the live cases and what they report of their turns; and the   *)
(* local trials against a host that loses and repeats what it is asked.    *)
(***************************************************************************)
EXTENDS LiveSuites, LocalTrials, HostProbe, SequenceTheorems,
        FiniteSetTheorems, WellFoundedInduction, TLAPS

-----------------------------------------------------------------------------
(* The sandbox.                                                            *)
SandboxSpec == SandboxInit /\ [][SandboxNext]_sandboxVars

ToolNames == {"read", "write", "exec", "cron", "other"}
Marks == {"call", "error", "done"}
ToolReplySet ==
  {"denied", "rejected", "seeded", "written", "no_jobs", "created",
   "exit_0", "exit_n"}
Hosts == [deny : BOOLEAN, denied : BOOLEAN, recovered : BOOLEAN,
          successes : Nat, trace : Seq([type : Marks, tool : ToolNames])]

(* A workspace that anybody may work on. *)
Fenced(ws) ==
  /\ "seed" \in DOMAIN ws /\ DOMAIN ws \subseteq AtRoot \ {"script"}
  /\ IsFiniteSet(DOMAIN ws) /\ Cardinality(DOMAIN ws) <= MaxFiles

(* The executor before its verdict: what its calls have done so far.       *)
Executions ==
  [row : DOMAIN LocalRows, path : Paths, replies : Seq(ToolReplySet),
   verdict : {"none", "refused", "PASS"}]
Progressing(n) ==
  /\ n <= 2 /\ (local.path = "denial" => n <= 1)
  /\ \A f \in DOMAIN files :
       \/ f = "seed" /\ files[f] = "seeded"
       \/ f = "out" /\ local.row = "memory" /\ n = 2
  /\ n = 0 => host.deny
  /\ n > 0 => ~host.deny /\ local.replies[1] = "denied"
  /\ n < 2 => host.successes = 0
Progress == Progressing(Len(local.replies))

SandboxInv ==
  /\ host \in Hosts
  /\ local = NoLocal => Fenced(files)
  /\ local # NoLocal => local \in Executions
  /\ local # NoLocal /\ local.verdict = "none" => Progress
  /\ LocalPassIsExact

(* One call: a denial changes no file, anything else denies nothing.       *)
LEMMA ExecuteToolIs ==
  ASSUME NEW h \in Hosts, NEW ws, NEW req, req.tool \in ToolNames, NEW disk
  PROVE  LET d == ExecuteTool(h, ws, req, disk) IN
         /\ d.host \in Hosts /\ ~d.host.deny
         /\ h.deny => /\ d.files = ws /\ d.reply = "denied"
                      /\ d.host.successes = h.successes
         /\ ~h.deny => /\ d.files = Written(ws, req, disk)
                       /\ d.reply = Reply(ws, req, disk)
                       /\ d.host.denied = h.denied
<1>1. \A g \in Hosts, kind \in Marks :
        /\ Trace(g, kind, req) \in Hosts
        /\ Trace(g, kind, req).deny = g.deny
        /\ Trace(g, kind, req).denied = g.denied
        /\ Trace(g, kind, req).successes = g.successes
  <2> SUFFICES ASSUME NEW g \in Hosts, NEW kind \in Marks
               PROVE  /\ Trace(g, kind, req) \in Hosts
                      /\ Trace(g, kind, req).deny = g.deny
                      /\ Trace(g, kind, req).denied = g.denied
                      /\ Trace(g, kind, req).successes = g.successes
    OBVIOUS
  <2>1. Append(g.trace, [type |-> kind, tool |-> req.tool])
          \in Seq([type : Marks, tool : ToolNames])
    BY AppendProperties DEF Hosts
  <2> QED
    BY <2>1 DEF Trace, Hosts
<1> DEFINE asked == Trace(h, "call", req)
<1>2. /\ asked \in Hosts /\ asked.deny = h.deny
      /\ asked.denied = h.denied /\ asked.successes = h.successes
  BY <1>1 DEF Marks
<1> HIDE DEF asked
<1>3. CASE h.deny
  <2> DEFINE t == Trace(asked, "error", req)
  <2>1. t \in Hosts /\ t.successes = h.successes
    BY <1>1, <1>2 DEF Marks
  <2>2. ExecuteTool(h, ws, req, disk) =
          [host |-> [t EXCEPT !.deny = FALSE, !.denied = TRUE],
           files |-> ws, reply |-> "denied"]
    BY <1>3 DEF ExecuteTool, asked
  <2> DEFINE g == [t EXCEPT !.deny = FALSE, !.denied = TRUE]
  <2> HIDE DEF t
  <2>3. g \in Hosts /\ ~g.deny /\ g.successes = t.successes
    BY <2>1 DEF Hosts
  <2>4. ExecuteTool(h, ws, req, disk) =
          [host |-> g, files |-> ws, reply |-> "denied"]
    BY <2>2
  <2> HIDE DEF g
  <2> QED
    BY <1>3, <2>1, <2>3, <2>4
<1>4. CASE ~h.deny
  <2> DEFINE t == Trace(asked, "done", req)
             u == Trace(asked, "error", req)
             g == IF Succeeds(ws, req, disk)
                  THEN [t EXCEPT !.successes = @ + 1,
                                 !.recovered = @ \/ h.denied]
                  ELSE u
  <2>1. /\ t \in Hosts /\ ~t.deny /\ t.denied = h.denied
        /\ u \in Hosts /\ ~u.deny /\ u.denied = h.denied
    BY <1>1, <1>2, <1>4 DEF Marks
  <2>2. ExecuteTool(h, ws, req, disk) =
          [host |-> g, files |-> Written(ws, req, disk),
           reply |-> Reply(ws, req, disk)]
    BY <1>4 DEF ExecuteTool, asked
  <2> HIDE DEF t, u
  <2>3. g \in Hosts /\ ~g.deny /\ g.denied = h.denied
    <3>1. h.denied \in BOOLEAN
      BY DEF Hosts
    <3>2. CASE Succeeds(ws, req, disk)
      <4>1. g = [t EXCEPT !.successes = t.successes + 1,
                          !.recovered = t.recovered \/ h.denied]
        BY <3>2
      <4>2. t.successes + 1 \in Nat /\ (t.recovered \/ h.denied) \in BOOLEAN
        BY <2>1, <3>1 DEF Hosts
      <4> HIDE DEF g
      <4> QED
        BY <2>1, <4>1, <4>2 DEF Hosts
    <3>3. CASE ~Succeeds(ws, req, disk)
      BY <2>1, <3>3
    <3> QED
      BY <3>2, <3>3
  <2> HIDE DEF g
  <2> QED
    BY <1>4, <2>2, <2>3
<1> QED
  BY <1>3, <1>4

(* A write stays within the fence, and leaves the fixture alone.           *)
LEMMA WrittenIsFenced ==
  ASSUME NEW ws, Fenced(ws), NEW req \in Calls, NEW disk
  PROVE  /\ Fenced(Written(ws, req, disk))
         /\ Written(ws, req, disk)["seed"] = ws["seed"]
<1> DEFINE name == Target[req.path]
           next == Written(ws, req, disk)
<1>1. CASE ~(req.tool = "write" /\ MayWrite(ws, req))
  BY <1>1 DEF Written
<1>2. CASE req.tool = "write" /\ MayWrite(ws, req)
  <2>1. /\ name \in AtRoot /\ name \in Writable /\ name # "seed"
        /\ ~Full(ws) \/ name \in DOMAIN ws
    BY <1>2 DEF MayWrite, Protected
  <2>2. next = [n \in DOMAIN ws \cup {name} |->
                  IF n # name THEN ws[n]
                  ELSE IF disk THEN req.content ELSE "cut"]
    BY <1>2 DEF Written
  <2> HIDE DEF next, name
  <2>3. DOMAIN next = DOMAIN ws \cup {name} /\ next["seed"] = ws["seed"]
    BY <2>1, <2>2 DEF Fenced
  <2>4. name \in AtRoot \ {"script"}
    BY <2>1 DEF AtRoot, Writable
  <2>5. /\ IsFiniteSet(DOMAIN ws \cup {name})
        /\ Cardinality(DOMAIN ws \cup {name}) <= MaxFiles
    <3>1. /\ IsFiniteSet(DOMAIN ws) /\ Cardinality(DOMAIN ws) \in Nat
          /\ Cardinality(DOMAIN ws) <= MaxFiles
      BY FS_CardinalityType DEF Fenced
    <3>2. /\ IsFiniteSet(DOMAIN ws \cup {name})
          /\ Cardinality(DOMAIN ws \cup {name}) =
               IF name \in DOMAIN ws THEN Cardinality(DOMAIN ws)
                                     ELSE Cardinality(DOMAIN ws) + 1
      BY <3>1, FS_AddElement
    <3> QED
      BY <2>1, <3>1, <3>2, SandboxAssumption DEF Full
  <2>6. Fenced(next)
    BY <2>3, <2>4, <2>5 DEF Fenced
  <2> QED
    BY <2>3, <2>6 DEF next
<1> QED
  BY <1>1, <1>2

(* A call of anybody keeps the workspace fenced. *)
LEMMA AnyCallFences ==
  ASSUME SandboxInv, NEW req \in Calls, NEW disk \in BOOLEAN,
         AnyCall(req, disk)
  PROVE  /\ SandboxInv' /\ files'["seed"] = files["seed"]
         /\ host'.denied # host.denied => files' = files
<1>1. req.tool \in ToolNames
  BY DEF Calls, ReadCalls, WriteCalls, ExecCalls, CronCalls, ToolNames
<1>2. /\ host' = ExecuteTool(host, files, req, disk).host
      /\ files' = ExecuteTool(host, files, req, disk).files
      /\ local = NoLocal /\ local' = local
      /\ host \in Hosts /\ Fenced(files)
  BY DEF AnyCall, SandboxInv
<1>3. /\ host' \in Hosts
      /\ host.deny => files' = files
      /\ ~host.deny => /\ files' = Written(files, req, disk)
                       /\ host'.denied = host.denied
  BY <1>1, <1>2, ExecuteToolIs
<1>4. Fenced(files') /\ files'["seed"] = files["seed"]
  BY <1>2, <1>3, WrittenIsFenced
<1>5. local'.verdict # "PASS"
  BY <1>2 DEF NoLocal
<1> QED
  BY <1>2, <1>3, <1>4, <1>5 DEF SandboxInv, LocalPassIsExact

(* The executor starts in a workspace of its own. *)
LEMMA AdmitKeeps ==
  ASSUME SandboxInv, NEW row \in DOMAIN LocalRows, NEW path \in Paths,
         NEW frozen, NEW disk, Admit(row, path, frozen, disk)
  PROVE  SandboxInv' /\ local' # NoLocal
<1>1. /\ host' = NewHost(TRUE)
      /\ local' \in {[NoLocal EXCEPT !.row = row, !.path = path],
                     [NoLocal EXCEPT !.row = row, !.path = path,
                                     !.verdict = "refused"]}
      /\ files' \in {Seeded, <<>>}
  BY DEF Admit
<1>2. host' \in Hosts /\ host'.deny /\ host'.successes = 0
  BY <1>1, EmptySeq DEF NewHost, Hosts
<1>3. /\ local' \in Executions /\ local'.replies = <<>>
      /\ local'.verdict # "PASS" /\ local'.row = row
  BY <1>1, EmptySeq DEF NoLocal, Executions
<1>4. \A f \in DOMAIN files' : f = "seed" /\ files'[f] = "seeded"
  BY <1>1 DEF Seeded
<1>5. local' # NoLocal
  <2>1. row # "none"
    BY DEF LocalRows
  <2> QED
    BY <1>3, <2>1 DEF NoLocal
<1>6. Progress'
  BY <1>2, <1>3, <1>4 DEF Progress, Progressing
<1> QED
  BY <1>2, <1>3, <1>5, <1>6 DEF SandboxInv, LocalPassIsExact

(* The calls of the executor: the first is denied, and only the memory row *)
(* writes, with the second.                                                *)
LEMMA LocalCallKeeps ==
  ASSUME SandboxInv, NEW disk \in BOOLEAN, LocalCall(disk)
  PROVE  SandboxInv' /\ local' # NoLocal
<1> DEFINE req == LocalRows[local.row]
           n == Len(local.replies)
           done == ExecuteTool(host, files, req, disk)
<1>1. /\ local # NoLocal /\ local \in Executions /\ local.verdict = "none"
      /\ Progress /\ host \in Hosts
  BY DEF LocalCall, SandboxInv, NoLocal
<1>2. /\ n < IF local.path = "denial" THEN 1 ELSE 2
      /\ host' = done.host /\ files' = done.files
      /\ local' = [local EXCEPT !.replies = Append(@, done.reply)]
  BY DEF LocalCall, CallsOf
<1>3. local.row \in {"host_tool", "memory", "docs", "skills", "surface",
                    "browser"}
  BY <1>1 DEF Executions, LocalRows
<1>4. /\ req.tool \in ToolNames
      /\ req.tool = "write" => local.row = "memory" /\ req.path = "out"
      /\ req.tool = "read" => req.path = "seed"
      /\ req.tool \in {"read", "write", "cron", "exec"}
  BY <1>3 DEF LocalRows, ToolNames
<1> HIDE DEF req
<1>5. /\ done.host \in Hosts /\ ~done.host.deny
      /\ host.deny => /\ done.files = files /\ done.reply = "denied"
                      /\ done.host.successes = host.successes
      /\ ~host.deny => /\ done.files = Written(files, req, disk)
                       /\ done.reply = Reply(files, req, disk)
  BY <1>1, <1>4, ExecuteToolIs
<1> HIDE DEF done
<1>6. n \in Nat /\ n < 2 /\ local.replies \in Seq(ToolReplySet)
  BY <1>1, <1>2 DEF Executions
<1>7. \A f \in DOMAIN files : f = "seed" /\ files[f] = "seeded"
  <2>1. Progressing(n)
    BY <1>1 DEF Progress
  <2> HIDE DEF n
  <2>2. n # 2
    BY <1>6
  <2> QED
    BY <2>1, <2>2 DEF Progressing
<1>8. done.reply \in ToolReplySet
  <2>1. CASE host.deny
    BY <1>5, <2>1 DEF ToolReplySet
  <2>2. CASE ~host.deny
    <3>1. req.tool = "read" /\ Succeeds(files, req, disk) =>
            files[Target[req.path]] = "seeded"
      BY <1>7 DEF Succeeds, Accepted, Readable
    <3>2. Reply(files, req, disk) \in ToolReplySet
      <4>1. CASE ~Succeeds(files, req, disk)
        BY <4>1 DEF Reply, ToolReplySet
      <4>2. CASE Succeeds(files, req, disk) /\ req.tool = "read"
        BY <3>1, <4>2 DEF Reply, ToolReplySet
      <4>3. CASE Succeeds(files, req, disk) /\ req.tool = "write"
        BY <4>3 DEF Reply, ToolReplySet
      <4>4. CASE Succeeds(files, req, disk) /\ req.tool = "cron"
        BY <4>4 DEF Reply, ToolReplySet
      <4>5. CASE Succeeds(files, req, disk) /\ req.tool = "exec"
        BY <4>5 DEF Reply, ToolReplySet
      <4> QED
        BY <1>4, <4>1, <4>2, <4>3, <4>4, <4>5
    <3> QED
      BY <1>5, <2>2, <3>2
  <2> QED
    BY <2>1, <2>2
<1>9. /\ local' \in Executions /\ local'.row = local.row
      /\ local'.path = local.path /\ local'.verdict = "none"
      /\ local'.replies = Append(local.replies, done.reply)
  <2>1. Append(local.replies, done.reply) \in Seq(ToolReplySet)
    BY <1>6, <1>8, AppendProperties
  <2> QED
    BY <1>1, <1>2, <2>1 DEF Executions
<1>10. /\ Len(local'.replies) = n + 1
       /\ local'.replies[n + 1] = done.reply
       /\ n > 0 => local'.replies[1] = local.replies[1]
  BY <1>6, <1>8, <1>9, AppendProperties
<1>11. local' # NoLocal
  BY <1>1, <1>9 DEF NoLocal, Executions, LocalRows
<1>12. Progress'
  <2>1. CASE n = 0
    <3>1. host.deny /\ host.successes = 0
      BY <1>1, <2>1 DEF Progress, Progressing
    <3> QED
      BY <1>2, <1>5, <1>7, <1>9, <1>10, <2>1, <3>1 DEF Progress, Progressing
  <2>2. CASE n = 1
    <3>1. ~host.deny /\ local.replies[1] = "denied" /\ local.path # "denial"
      BY <1>1, <1>2, <2>2 DEF Progress, Progressing
    <3>2. files' = Written(files, req, disk)
      BY <1>2, <1>5, <3>1
    <3>3. \A f \in DOMAIN files' :
            \/ f = "seed" /\ files'[f] = "seeded"
            \/ f = "out" /\ local.row = "memory"
      <4>1. CASE req.tool = "write" /\ MayWrite(files, req)
        <5>1. Target[req.path] = "out" /\ local.row = "memory"
          BY <1>4, <4>1 DEF Target, Spellings
        <5> QED
          BY <1>7, <3>2, <4>1, <5>1 DEF Written
      <4>2. CASE ~(req.tool = "write" /\ MayWrite(files, req))
        BY <1>7, <3>2, <4>2 DEF Written
      <4> QED
        BY <4>1, <4>2
    <3> QED
      BY <1>2, <1>5, <1>9, <1>10, <2>2, <3>1, <3>3 DEF Progress, Progressing
  <2>3. n = 0 \/ n = 1
    <3> HIDE DEF n
    <3> QED
      BY <1>6
  <2> QED
    BY <2>1, <2>2, <2>3
<1> QED
  BY <1>2, <1>5, <1>9, <1>11, <1>12 DEF SandboxInv, LocalPassIsExact

(* A verdict of PASS is one of the two executions it names. *)
LEMMA JudgeKeeps == SandboxInv /\ Judge => SandboxInv' /\ local' # NoLocal
<1> SUFFICES ASSUME SandboxInv, Judge PROVE SandboxInv' /\ local' # NoLocal
  OBVIOUS
<1> DEFINE n == Len(local.replies)
           verdict == IF Verified(host, files, local) THEN "PASS"
                                                      ELSE "refused"
<1>1. /\ local # NoLocal /\ local \in Executions /\ local.verdict = "none"
      /\ Progress /\ host \in Hosts
  BY DEF Judge, SandboxInv, NoLocal
<1>2. /\ n >= IF local.path = "denial" THEN 1 ELSE 2
      /\ local' = [local EXCEPT !.verdict = verdict]
      /\ host' = host /\ files' = files
  BY DEF Judge, CallsOf
<1>3. n \in Nat /\ local.path \in {"denial", "recovery"}
  BY <1>1 DEF Executions, Paths
<1>4. /\ local' \in Executions /\ local'.row = local.row
      /\ local'.path = local.path /\ local'.verdict = verdict
      /\ local'.replies = local.replies
  BY <1>1, <1>2 DEF Executions
<1>5. local' # NoLocal
  BY <1>1, <1>4 DEF NoLocal, Executions, LocalRows
<1>6. ASSUME Verified(host, files, local)
      PROVE  LocalPassIsExact'
  <2>1. CASE local.path = "denial"
    <3>1. n = 1 /\ host.successes = 0 /\ local.replies[1] = "denied"
      <4>1. n >= 1 /\ n \in Nat /\ Progressing(n)
        BY <1>1, <1>2, <1>3, <2>1 DEF Progress
      <4> HIDE DEF n
      <4> QED
        BY <2>1, <4>1 DEF Progressing
    <3>2. \A f \in DOMAIN files : f = "seed" /\ files[f] = "seeded"
      BY <1>1, <3>1 DEF Progress, Progressing
    <3> QED
      BY <1>2, <1>4, <2>1, <3>1, <3>2 DEF LocalPassIsExact
  <2>2. CASE local.path = "recovery"
    <3>1. n = 2 /\ local.replies[1] = "denied"
      <4>1. n >= 2 /\ n \in Nat /\ Progressing(n)
        BY <1>1, <1>2, <1>3, <2>2 DEF Progress
      <4> HIDE DEF n
      <4> QED
        BY <4>1 DEF Progressing
    <3>2. host.successes = 1
      BY <1>6, <2>2 DEF Verified
    <3>3. local.row = "memory" => files["out"] = "wanted"
      BY <1>6, <2>2 DEF Verified
    <3>4. \A f \in DOMAIN files :
            \/ f = "seed" /\ files[f] = "seeded"
            \/ f = "out" /\ files[f] = "wanted"
      BY <1>1, <3>3 DEF Progress, Progressing
    <3>5. "cut" \notin {files[f] : f \in DOMAIN files}
      BY <3>4
    <3>6. Len(local'.replies) = 2 /\ host'.successes = 2 - 1
      BY <1>2, <1>4, <3>1, <3>2
    <3>7. "seed" \in DOMAIN files => files["seed"] = "seeded"
      BY <3>4
    <3> QED
      BY <1>2, <1>4, <2>2, <3>1, <3>5, <3>6, <3>7 DEF LocalPassIsExact
  <2> QED
    BY <1>3, <2>1, <2>2
<1>7. LocalPassIsExact'
  BY <1>4, <1>6 DEF LocalPassIsExact
<1> QED
  BY <1>1, <1>2, <1>4, <1>5, <1>7 DEF SandboxInv

(* The sandbox starts with nothing done. *)
LEMMA SandboxInvInit == SandboxInit => SandboxInv
<1> SUFFICES ASSUME SandboxInit PROVE SandboxInv
  OBVIOUS
<1>1. host \in Hosts
  <2>1. \A d \in BOOLEAN : NewHost(d) \in Hosts
    BY EmptySeq DEF NewHost, Hosts
  <2> QED
    BY <2>1 DEF SandboxInit
<1>2. DOMAIN files = {"seed"}
  BY DEF SandboxInit, Seeded
<1>3. IsFiniteSet({"seed"}) /\ Cardinality({"seed"}) = 1
  BY FS_Singleton
<1>4. Fenced(files)
  BY <1>2, <1>3, SandboxAssumption DEF Fenced, AtRoot
<1>5. local = NoLocal /\ local.verdict = "none"
  BY DEF SandboxInit, NoLocal
<1> QED
  BY <1>1, <1>4, <1>5 DEF SandboxInv, LocalPassIsExact

(* Each call of a tool keeps what is known of the sandbox. *)
LEMMA SandboxInvStep == SandboxInv /\ [SandboxNext]_sandboxVars => SandboxInv'
<1> SUFFICES ASSUME SandboxInv, [SandboxNext]_sandboxVars PROVE SandboxInv'
  OBVIOUS
<1>1. CASE UNCHANGED sandboxVars
  BY <1>1 DEF sandboxVars, SandboxInv, Progress, Progressing,
     LocalPassIsExact
<1>2. CASE SandboxNext
  BY <1>2, AnyCallFences, AdmitKeeps, LocalCallKeeps, JudgeKeeps
     DEF SandboxNext
<1> QED
  BY <1>1, <1>2

(* A PASS of the local executor is one denial without an effect and, on    *)
(* the recovery path, exactly one more call that did the whole operation,  *)
(* whatever the disk does (v4_local_mechanism_executor.py:117-225).        *)
THEOREM LocalPassExact == SandboxSpec => []LocalPassIsExact
<1>1. SandboxInv => LocalPassIsExact
  BY DEF SandboxInv
<1> QED
  BY <1>1, SandboxInvInit, SandboxInvStep, PTL DEF SandboxSpec

(* The sandbox's file tools leave the fixture alone, stay at the root of   *)
(* the workspace and within the number of files, and a denied call changes *)
(* nothing, for any limit and any sequence of calls                        *)
(* (native_sandbox.py:376-409, 449-463).                                   *)
THEOREM WorkspaceFenced == SandboxSpec => WorkspaceIsFenced
<1> DEFINE A == local' = NoLocal =>
                  /\ files'["seed"] = files["seed"]
                  /\ DOMAIN files' \subseteq AtRoot \ {"script"}
                  /\ Cardinality(DOMAIN files') <= MaxFiles
                  /\ host'.denied # host.denied => files' = files
<1>1. SandboxInv /\ [SandboxNext]_sandboxVars => [A]_sandboxVars
  <2> SUFFICES ASSUME SandboxInv, SandboxNext, local' = NoLocal
               PROVE  A
    OBVIOUS
  <2>1. PICK req \in Calls, disk \in BOOLEAN : AnyCall(req, disk)
    BY AdmitKeeps, LocalCallKeeps, JudgeKeeps DEF SandboxNext
  <2>2. /\ SandboxInv' /\ files'["seed"] = files["seed"]
        /\ host'.denied # host.denied => files' = files
    BY <2>1, AnyCallFences
  <2> QED
    BY <2>2 DEF SandboxInv, Fenced
<1> QED
  BY <1>1, SandboxInvInit, SandboxInvStep, PTL
     DEF SandboxSpec, WorkspaceIsFenced

(* Every call is traced twice and succeeds at most once; the executor makes *)
(* two calls in a workspace that holds the fixture and one more file.       *)
CallsCounted ==
  /\ local = NoLocal =>
       \E k \in 0..MaxCalls :
         Len(host.trace) = 2 * k /\ host.successes <= k
  /\ local # NoLocal =>
       host.successes <= 1 /\ DOMAIN files \subseteq {"seed", "out"}

(* What a call adds to the counters of its host.                           *)
LEMMA ExecuteToolCounts ==
  ASSUME NEW h \in Hosts, NEW ws, NEW req, req.tool \in ToolNames, NEW disk
  PROVE  LET d == ExecuteTool(h, ws, req, disk) IN
         /\ d.host.successes \in {h.successes, h.successes + 1}
         /\ Len(d.host.trace) = Len(h.trace) + 2
<1>1. \A g \in Hosts, kind \in Marks :
        /\ Trace(g, kind, req) \in Hosts
        /\ Trace(g, kind, req).successes = g.successes
        /\ Len(Trace(g, kind, req).trace) = Len(g.trace) + 1
  <2> SUFFICES ASSUME NEW g \in Hosts, NEW kind \in Marks
               PROVE  /\ Trace(g, kind, req) \in Hosts
                      /\ Trace(g, kind, req).successes = g.successes
                      /\ Len(Trace(g, kind, req).trace) = Len(g.trace) + 1
    OBVIOUS
  <2> DEFINE t == Append(g.trace, [type |-> kind, tool |-> req.tool])
  <2>1. /\ t \in Seq([type : Marks, tool : ToolNames])
        /\ Len(t) = Len(g.trace) + 1
    BY AppendProperties DEF Hosts
  <2> HIDE DEF t
  <2>2. Trace(g, kind, req) = [g EXCEPT !.trace = t]
    BY DEF Trace, t
  <2> QED
    BY <2>1, <2>2 DEF Hosts
<1> DEFINE asked == Trace(h, "call", req)
           err == Trace(asked, "error", req)
           fine == Trace(asked, "done", req)
<1>2. /\ asked \in Hosts /\ err \in Hosts /\ fine \in Hosts
      /\ err.successes = h.successes /\ fine.successes = h.successes
      /\ Len(err.trace) = (Len(h.trace) + 1) + 1
      /\ Len(fine.trace) = (Len(h.trace) + 1) + 1
  BY <1>1 DEF Marks
<1>3. Len(h.trace) \in Nat /\ h.successes \in Nat
  BY LenProperties DEF Hosts
<1>4. ExecuteTool(h, ws, req, disk).host =
        IF h.deny THEN [err EXCEPT !.deny = FALSE, !.denied = TRUE]
        ELSE IF Succeeds(ws, req, disk)
             THEN [fine EXCEPT !.successes = @ + 1,
                               !.recovered = @ \/ h.denied]
             ELSE err
  BY DEF ExecuteTool
<1> HIDE DEF asked, err, fine
<1>5. CASE h.deny
  <2> DEFINE g == [err EXCEPT !.deny = FALSE, !.denied = TRUE]
  <2>1. g.successes = err.successes /\ g.trace = err.trace
    BY <1>2 DEF Hosts
  <2> HIDE DEF g
  <2>2. ExecuteTool(h, ws, req, disk).host = g
    BY <1>4, <1>5 DEF g
  <2> QED
    BY <1>2, <1>3, <2>1, <2>2
<1>6. CASE ~h.deny /\ Succeeds(ws, req, disk)
  <2> DEFINE g == [fine EXCEPT !.successes = @ + 1,
                               !.recovered = @ \/ h.denied]
  <2>1. g.successes = fine.successes + 1 /\ g.trace = fine.trace
    BY <1>2 DEF Hosts
  <2> HIDE DEF g
  <2>2. ExecuteTool(h, ws, req, disk).host = g
    BY <1>4, <1>6 DEF g
  <2> QED
    BY <1>2, <1>3, <2>1, <2>2
<1>7. CASE ~h.deny /\ ~Succeeds(ws, req, disk)
  <2>1. ExecuteTool(h, ws, req, disk).host = err
    BY <1>4, <1>7
  <2> QED
    BY <1>2, <1>3, <2>1
<1> QED
  BY <1>5, <1>6, <1>7

(* No call has been counted at the start. *)
LEMMA CallsCountedInit == SandboxInit => CallsCounted
<1> SUFFICES ASSUME SandboxInit PROVE CallsCounted
  OBVIOUS
<1>1. Len(host.trace) = 2 * 0 /\ host.successes = 0 /\ local = NoLocal
  BY DEF SandboxInit, NewHost
<1> QED
  BY <1>1, SandboxAssumption DEF CallsCounted

(* Every call counts itself once. *)
LEMMA CallsCountedStep ==
  SandboxInv /\ CallsCounted /\ [SandboxNext]_sandboxVars => CallsCounted'
<1> SUFFICES ASSUME SandboxInv, CallsCounted, [SandboxNext]_sandboxVars
             PROVE  CallsCounted'
  OBVIOUS
<1>1. CASE UNCHANGED sandboxVars
  BY <1>1 DEF sandboxVars, CallsCounted
<1>2. ASSUME NEW req \in Calls, NEW disk \in BOOLEAN, AnyCall(req, disk)
      PROVE  CallsCounted'
  <2>1. req.tool \in ToolNames
    BY DEF Calls, ReadCalls, WriteCalls, ExecCalls, CronCalls, ToolNames
  <2>2. /\ host' = ExecuteTool(host, files, req, disk).host
        /\ local = NoLocal /\ local' = local /\ host \in Hosts
        /\ Len(host.trace) < 2 * MaxCalls
    BY <1>2 DEF AnyCall, SandboxInv
  <2>3. PICK k \in 0..MaxCalls :
          Len(host.trace) = 2 * k /\ host.successes <= k
    BY <2>2 DEF CallsCounted
  <2>4. /\ host'.successes \in {host.successes, host.successes + 1}
        /\ Len(host'.trace) = Len(host.trace) + 2
    BY <2>1, <2>2, ExecuteToolCounts
  <2>0. host.successes \in Nat
    BY <2>2 DEF Hosts
  <2>5. /\ k + 1 \in 0..MaxCalls /\ Len(host'.trace) = 2 * (k + 1)
        /\ host'.successes <= k + 1
    BY <2>0, <2>2, <2>3, <2>4, SandboxAssumption
  <2> QED
    BY <2>2, <2>5 DEF CallsCounted
<1>3. ASSUME NEW row \in DOMAIN LocalRows, NEW path \in Paths,
             NEW frozen, NEW disk, Admit(row, path, frozen, disk)
      PROVE  CallsCounted'
  <2>1. local' # NoLocal
    BY <1>3, AdmitKeeps
  <2>2. host'.successes = 0 /\ files' \in {Seeded, <<>>}
    BY <1>3 DEF Admit, NewHost
  <2> QED
    BY <2>1, <2>2 DEF CallsCounted, Seeded
<1>4. ASSUME NEW disk \in BOOLEAN, LocalCall(disk)
      PROVE  CallsCounted'
  <2> DEFINE req == LocalRows[local.row]
             n == Len(local.replies)
  <2>1. /\ local # NoLocal /\ local \in Executions /\ host \in Hosts
        /\ Progressing(n) /\ n \in Nat
    BY <1>4, LenProperties DEF LocalCall, SandboxInv, NoLocal, Executions,
       Progress
  <2>2. /\ n < IF local.path = "denial" THEN 1 ELSE 2
        /\ host' = ExecuteTool(host, files, req, disk).host
        /\ local'.verdict = local.verdict /\ local.verdict = "none"
    BY <1>4, <2>1 DEF LocalCall, CallsOf, Executions
  <2>3. req.tool \in ToolNames
    <3>1. local.row \in {"host_tool", "memory", "docs", "skills", "surface",
                        "browser"}
      BY <2>1 DEF Executions, LocalRows
    <3> QED
      BY <3>1 DEF LocalRows, ToolNames
  <2> HIDE DEF req, n
  <2>4. host.successes = 0
    <3>1. n < 2
      BY <2>1, <2>2
    <3> QED
      BY <2>1, <3>1 DEF Progressing
  <2>5. host'.successes <= 1
    BY <2>1, <2>2, <2>3, <2>4, ExecuteToolCounts
  <2>6. SandboxInv' /\ local' # NoLocal
    BY <1>4, LocalCallKeeps
  <2>7. DOMAIN files' \subseteq {"seed", "out"}
    BY <2>2, <2>6 DEF SandboxInv, Progress, Progressing
  <2> QED
    BY <2>5, <2>6, <2>7 DEF CallsCounted
<1>5. CASE Judge
  <2>1. local # NoLocal /\ local' # NoLocal
    BY <1>5, JudgeKeeps DEF Judge, NoLocal
  <2> QED
    BY <1>5, <2>1 DEF Judge, CallsCounted
<1> QED
  BY <1>1, <1>2, <1>3, <1>4, <1>5 DEF SandboxNext

(* Whoever drives it, the host counts no more successes than it takes      *)
(* calls, and no file is anywhere but at the root of the workspace         *)
(* (native_sandbox.py, v4_local_mechanism_executor.py).                    *)
THEOREM SandboxTypeCorrect == SandboxSpec => []SandboxTypeOK
<1>1. SandboxInv /\ CallsCounted => SandboxTypeOK
  <2> SUFFICES ASSUME SandboxInv, CallsCounted PROVE SandboxTypeOK
    OBVIOUS
  <2>1. host.successes \in Nat
    BY DEF SandboxInv, Hosts
  <2>2. CASE local = NoLocal
    <3>1. host.successes <= MaxCalls
      BY <2>1, <2>2, SandboxAssumption DEF CallsCounted
    <3>2. DOMAIN files \subseteq AtRoot /\ local.verdict = "none"
      BY <2>2 DEF SandboxInv, Fenced, NoLocal
    <3> QED
      BY <2>1, <3>1, <3>2, SandboxAssumption DEF SandboxTypeOK
  <2>3. CASE local # NoLocal
    <3>1. host.successes <= MaxCalls
      BY <2>1, <2>3, SandboxAssumption DEF CallsCounted
    <3>2. local.verdict \in {"none", "refused", "PASS"}
      BY <2>3 DEF SandboxInv, Executions
    <3>3. DOMAIN files \subseteq AtRoot
      BY <2>3 DEF CallsCounted, AtRoot
    <3> QED
      BY <2>1, <3>1, <3>2, <3>3, SandboxAssumption DEF SandboxTypeOK
  <2> QED
    BY <2>2, <2>3
<1>2. SandboxSpec => [](SandboxInv /\ CallsCounted)
  BY SandboxInvInit, SandboxInvStep, CallsCountedInit, CallsCountedStep, PTL
     DEF SandboxSpec
<1> QED
  BY <1>1, <1>2, PTL

-----------------------------------------------------------------------------
(* The probe.                                                              *)
(* The least of some natural numbers is one of them. *)
LEMMA MinIsIn ==
  ASSUME NEW S \in SUBSET Nat, S # {}
  PROVE  Min(S) \in S
<1> DEFINE R == OpToRel(<, Nat)
<1>0. \A x, y \in Nat : y < x => <<y, x>> \in R
  BY DEF OpToRel
<1>1. PICK x \in S : \A y \in S : ~(<<y, x>> \in R)
  BY NatLessThanWellFounded, WFMin
<1> HIDE DEF R
<1>2. ASSUME NEW y \in S
      PROVE  x <= y
  <2>1. x \in Nat /\ y \in Nat
    OBVIOUS
  <2>2. ~(y < x)
    BY Zenon, <1>0, <1>1, <2>1
  <2> QED
    BY <2>1, <2>2
<1> QED
  BY <1>2 DEF Min

(* How often a delegation is in a list of messages; at most once if no two *)
(* positions hold it.                                                      *)
LEMMA CountIs ==
  ASSUME NEW S, NEW m \in Seq(S), NEW d
  PROVE  /\ IsFiniteSet({i \in DOMAIN m : m[i] = d})
         /\ CountOf(d, m) \in Nat
         /\ CountOf(d, m) > 0 <=> \E i \in DOMAIN m : m[i] = d
         /\ (\A i, j \in DOMAIN m : m[i] = d /\ m[j] = d => i = j) =>
              CountOf(d, m) <= 1
<1> DEFINE T == {i \in DOMAIN m : m[i] = d}
<1>1. DOMAIN m = 1..Len(m) /\ Len(m) \in Nat
  BY LenProperties
<1>2. IsFiniteSet(1..Len(m))
  BY <1>1, FS_Interval
<1>3. IsFiniteSet(T)
  BY <1>1, <1>2, FS_Subset
<1>4. CountOf(d, m) = Cardinality(T) /\ Cardinality(T) \in Nat
  BY <1>3, FS_CardinalityType DEF CountOf
<1>5. Cardinality(T) = 0 <=> T = {}
  BY <1>3, FS_EmptySet
<1>6. ASSUME \A i, j \in DOMAIN m : m[i] = d /\ m[j] = d => i = j
      PROVE  Cardinality(T) <= 1
  <2>1. CASE T = {}
    BY <1>4, <1>5, <2>1
  <2>2. CASE T # {}
    <3>1. PICK i \in T : TRUE
      BY <2>2
    <3>2. T = {i}
      BY <1>6, <3>1
    <3>3. Cardinality(T) = 1
      BY <3>2, FS_Singleton
    <3> QED
      BY <3>3
  <2> QED
    BY <2>1, <2>2
<1> QED
  BY <1>3, <1>4, <1>5, <1>6

(* A probe that is not refused refuses no message and no row; one that is  *)
(* refused for a row is refused for one of them.                           *)
LEMMA ProbeErrorIs ==
  ASSUME NEW rows, DOMAIN rows \in SUBSET Nat, NEW m
  PROVE  /\ ProbeError(rows, m) = "none" =>
              /\ ~Unbound(rows, m)
              /\ \A d \in DOMAIN rows :
                   RowError(rows[d], CountOf(d, m) > 0) = "none"
         /\ ProbeError(rows, m) # "none" =>
              \/ Unbound(rows, m)
              \/ \E d \in DOMAIN rows :
                   ProbeError(rows, m) = RowError(rows[d], CountOf(d, m) > 0)
<1> DEFINE E(d) == RowError(rows[d], CountOf(d, m) > 0)
           bad == {d \in DOMAIN rows : E(d) # "none"}
<1>1. ProbeError(rows, m) = IF Unbound(rows, m) THEN "unbound"
                            ELSE IF bad = {} THEN "none" ELSE E(Min(bad))
  BY DEF ProbeError
<1>2. bad # {} => Min(bad) \in bad
  BY MinIsIn
<1> QED
  BY <1>1, <1>2

-----------------------------------------------------------------------------
(* The host's tables and the wait. *)
ProbeSpec == ProbeInit /\ [][ProbeNext]_probeVars

RowStates ==
  [state : {"absent", "live", "ended"},
   delivery : {"none", "pending", "delivered", "dropped", "unknown"}]
RowSets == UNION {[S -> RowStates] : S \in SUBSET Delegations}
Settlements ==
  [pc : {"rows", "messages", "returned", "failed"}, expected : Int,
   rows : RowSets, read : Seq(Delegations \cup {0}), late : BOOLEAN,
   fault : BOOLEAN]
SettleTyped ==
  /\ rowOf \in [Delegations -> RowStates]
  /\ deliveries \in Seq(Delegations \cup {0})
  /\ settle \in Settlements

(* What an honest host has written. *)
Honest ==
  ~settle.fault =>
    /\ \A d \in Delegations :
         rowOf[d].delivery \in {"none", "pending", "delivered"}
    /\ \A i \in DOMAIN deliveries :
         deliveries[i] \in Delegations /\ rowOf[deliveries[i]] # Absent
    /\ \A i, j \in DOMAIN deliveries :
         deliveries[i] = deliveries[j] => i = j
    /\ settle.expected >= 0 => Cardinality(Present) <= settle.expected

(* A row only advances: it ends, and it is delivered, once. *)
Advanced(r, q) ==
  /\ q # Absent /\ (r.state = "ended" => q.state = "ended")
  /\ r.delivery # "pending" => q.delivery = r.delivery

(* The rows of a probe, when its messages are read. *)
RowsRead ==
  settle.pc = "messages" =>
    /\ settle.expected # AnyCount =>
         Cardinality(DOMAIN settle.rows) = settle.expected
    /\ \A d \in DOMAIN settle.rows :
         /\ settle.rows[d].state \in {"live", "ended"}
         /\ settle.rows[d].delivery \in
              {"pending", "delivered", "dropped"}
         /\ Advanced(settle.rows[d], rowOf[d])

RowsWritten ==
  \A d \in Delegations : rowOf[d] # Absent =>
    rowOf[d].state \in {"live", "ended"} /\ rowOf[d].delivery # "none"

SettleInv ==
  /\ SettleTyped /\ Honest /\ RowsWritten /\ RowsRead
  /\ ReturnIsSettled /\ ProbeIsPatient

(* Delegations are positive numbers, finitely many, and so are those with  *)
(* a row.                                                                  *)
LEMMA DelegationsAre ==
  /\ Delegations \in SUBSET Nat
  /\ IsFiniteSet(Delegations) /\ 0 \notin Delegations
  /\ Present \in SUBSET Delegations
  /\ IsFiniteSet(Present) /\ Cardinality(Present) \in Nat
<1>1. IsFiniteSet(Delegations)
  BY ProbeAssumption, FS_Interval DEF Delegations
<1>2. Present \in SUBSET Delegations
  BY DEF Present
<1>3. IsFiniteSet(Present)
  BY <1>1, <1>2, FS_Subset
<1> QED
  BY <1>1, <1>2, <1>3, ProbeAssumption, FS_CardinalityType DEF Delegations

(* The row of a delegation that has none. *)
LEMMA AbsentIs ==
  Absent \in RowStates /\ Absent.state = "absent" /\ Absent.delivery = "none"
  BY DEF Absent, RowStates

(* No rows are rows. *)
LEMMA NoRows == <<>> \in RowSets /\ DOMAIN <<>> = {}
<1>1. <<>> \in [{} -> RowStates]
  OBVIOUS
<1> QED
  BY <1>1 DEF RowSets

(* The host writes. *)
LEMMA DispatchKeeps ==
  ASSUME SettleInv, NEW d \in Delegations, Dispatch(d)
  PROVE  SettleInv'
<1>1. /\ settle \in Settlements /\ rowOf \in [Delegations -> RowStates]
      /\ UNCHANGED <<deliveries, pages>> /\ rowOf[d] = Absent /\ Settling
  BY DEF SettleInv, SettleTyped, Dispatch
<1> DEFINE new == [state |-> "live", delivery |-> "pending"]
           f == settle.fault \/ Cardinality(Present) >= settle.expected
<1>2. /\ rowOf' = [rowOf EXCEPT ![d] = new] /\ new \in RowStates
      /\ new # Absent /\ f \in BOOLEAN
  BY <1>1 DEF Dispatch, RowStates, Settlements, Absent
<1>3. settle' = [settle EXCEPT !.fault = f]
  BY <1>1 DEF Dispatch, Settlements
<1> HIDE DEF f
<1>4. /\ settle' \in Settlements /\ settle'.fault = f
      /\ settle'.pc = settle.pc /\ settle'.expected = settle.expected
      /\ settle'.rows = settle.rows /\ settle'.late = settle.late
      /\ settle'.pc \in {"rows", "messages"}
  BY <1>1, <1>2, <1>3 DEF Settlements, Settling
<1>5. /\ rowOf' \in [Delegations -> RowStates] /\ rowOf'[d] = new
      /\ \A e \in Delegations \ {d} : rowOf'[e] = rowOf[e]
  BY <1>1, <1>2
<1>6. SettleTyped'
  BY <1>1, <1>4, <1>5 DEF SettleInv, SettleTyped
<1>7. Honest'
  <2> SUFFICES ASSUME ~f PROVE Honest'
    BY <1>4 DEF Honest
  <2>1. ~settle.fault /\ Cardinality(Present) < settle.expected
    BY <1>1, DelegationsAre DEF f, Settlements
  <2>2. Present' = Present \cup {d}
    BY <1>1, <1>2, <1>5 DEF Present
  <2>3. Cardinality(Present') <= settle.expected
    <3>1. Cardinality(Present \cup {d}) <= Cardinality(Present) + 1
      <4>1. Cardinality(Present \cup {d}) =
              IF d \in Present THEN Cardinality(Present)
              ELSE Cardinality(Present) + 1
        BY Zenon, DelegationsAre, FS_AddElement
      <4> HIDE DEF Present
      <4> QED
        BY <4>1, DelegationsAre
    <3>2. /\ Cardinality(Present \cup {d}) \in Nat
          /\ settle.expected \in Int
      BY <1>1, DelegationsAre, FS_AddElement, FS_CardinalityType
         DEF Settlements
    <3> QED
      BY <2>1, <2>2, <3>1, <3>2, DelegationsAre
  <2>4. \A e \in Delegations :
          rowOf'[e].delivery \in {"none", "pending", "delivered"}
    BY <1>5, <2>1 DEF SettleInv, Honest
  <2>5. \A i \in DOMAIN deliveries :
          deliveries[i] \in Delegations /\ rowOf'[deliveries[i]] # Absent
    BY <1>2, <1>5, <2>1 DEF SettleInv, Honest
  <2> QED
    BY <1>1, <1>4, <2>1, <2>3, <2>4, <2>5 DEF SettleInv, Honest
<1>8. RowsWritten'
  BY <1>5 DEF SettleInv, RowsWritten
<1>9. RowsRead'
  <2>1. DOMAIN settle.rows \subseteq Delegations
    BY <1>1 DEF Settlements, RowSets
  <2>2. \A e \in DOMAIN settle.rows : settle.pc = "messages" =>
          e \in Delegations /\ e # d
    BY <1>1, <2>1 DEF SettleInv, RowsRead, Advanced
  <2> QED
    BY <1>4, <1>5, <2>2 DEF SettleInv, RowsRead
<1> QED
  BY <1>4, <1>6, <1>7, <1>8, <1>9
     DEF SettleInv, ReturnIsSettled, ProbeIsPatient

(* A row that advances stays in the table and keeps what was read of it.   *)
LEMMA AdvanceKeeps ==
  ASSUME SettleInv, NEW d \in Delegations, NEW q \in RowStates, Settling,
         rowOf[d] # Absent, q # Absent,
         q.state \in {"live", "ended"}, q.delivery # "none",
         rowOf[d].state = "ended" => q.state = "ended",
         rowOf[d].delivery # "pending" => q.delivery = rowOf[d].delivery,
         rowOf' = [rowOf EXCEPT ![d] = q], UNCHANGED deliveries,
         NEW f \in BOOLEAN, settle' = [settle EXCEPT !.fault = f],
         ~f => ~settle.fault /\ q.delivery \in {"pending", "delivered"}
  PROVE  SettleInv'
<1>1. /\ settle \in Settlements /\ rowOf \in [Delegations -> RowStates]
  BY DEF SettleInv, SettleTyped
<1>2. /\ settle' \in Settlements /\ settle'.fault = f
      /\ settle'.pc = settle.pc /\ settle'.expected = settle.expected
      /\ settle'.rows = settle.rows /\ settle'.late = settle.late
      /\ settle'.pc \in {"rows", "messages"}
  BY <1>1 DEF Settlements, Settling
<1>3. /\ rowOf' \in [Delegations -> RowStates] /\ rowOf'[d] = q
      /\ \A e \in Delegations \ {d} : rowOf'[e] = rowOf[e]
  BY <1>1
<1>4. SettleTyped'
  BY <1>2, <1>3 DEF SettleInv, SettleTyped
<1>5. Honest'
  <2> SUFFICES ASSUME ~f PROVE Honest'
    BY <1>2 DEF Honest
  <2>1. Present' = Present
    BY <1>3 DEF Present
  <2>2. \A e \in Delegations :
          rowOf'[e].delivery \in {"none", "pending", "delivered"}
    BY <1>3 DEF SettleInv, Honest
  <2>3. \A i \in DOMAIN deliveries :
          deliveries[i] \in Delegations /\ rowOf'[deliveries[i]] # Absent
    BY <1>3 DEF SettleInv, Honest
  <2> QED
    BY <1>2, <2>1, <2>2, <2>3 DEF SettleInv, Honest
<1>6. RowsWritten'
  BY <1>3 DEF SettleInv, RowsWritten
<1>7. RowsRead'
  <2>1. DOMAIN settle.rows \subseteq Delegations
    BY <1>1 DEF Settlements, RowSets
  <2>2. ASSUME settle.pc = "messages", NEW e \in DOMAIN settle.rows
        PROVE  Advanced(settle.rows[e], rowOf'[e])
    <3>1. e \in Delegations /\ Advanced(settle.rows[e], rowOf[e])
      BY <2>1, <2>2 DEF SettleInv, RowsRead
    <3> QED
      BY <1>3, <3>1 DEF Advanced
  <2> QED
    BY <1>2, <2>2 DEF SettleInv, RowsRead
<1> QED
  BY <1>2, <1>4, <1>5, <1>6, <1>7
     DEF SettleInv, ReturnIsSettled, ProbeIsPatient

(* A delegation comes to its end. *)
LEMMA EndKeeps ==
  ASSUME SettleInv, NEW d \in Delegations, EndDelegation(d)
  PROVE  SettleInv'
<1>1. /\ settle \in Settlements /\ rowOf \in [Delegations -> RowStates]
      /\ UNCHANGED <<deliveries, settle>> /\ Settling
      /\ rowOf[d].state = "live" /\ rowOf[d] # Absent
  BY AbsentIs DEF SettleInv, SettleTyped, EndDelegation
<1> DEFINE q == [rowOf[d] EXCEPT !.state = "ended"]
<1>2. /\ q \in RowStates /\ q.state = "ended"
      /\ q.delivery = rowOf[d].delivery
  BY <1>1 DEF RowStates
<1>3. q # Absent /\ q.delivery # "none"
  BY <1>1, <1>2, AbsentIs DEF SettleInv, RowsWritten
<1>4. /\ rowOf' = [rowOf EXCEPT ![d] = q] /\ settle.fault \in BOOLEAN
      /\ settle' = [settle EXCEPT !.fault = settle.fault]
  BY <1>1 DEF EndDelegation, Settlements
<1>5. ~settle.fault => q.delivery \in {"pending", "delivered"}
  BY <1>1, <1>2, <1>3 DEF SettleInv, Honest
<1> HIDE DEF q
<1> QED
  BY <1>1, <1>2, <1>3, <1>4, <1>5, AdvanceKeeps

(* The host marks a delegation delivered, dropped or unknown. *)
LEMMA MarkKeeps ==
  ASSUME SettleInv, NEW d \in Delegations,
         NEW mark \in {"delivered", "dropped", "unknown"},
         MarkDelivery(d, mark)
  PROVE  SettleInv'
<1>1. /\ settle \in Settlements /\ rowOf \in [Delegations -> RowStates]
      /\ UNCHANGED deliveries /\ Settling
      /\ rowOf[d].delivery = "pending" /\ rowOf[d] # Absent
  BY AbsentIs DEF SettleInv, SettleTyped, MarkDelivery
<1> DEFINE q == [rowOf[d] EXCEPT !.delivery = mark]
           f == settle.fault \/ mark # "delivered"
<1>2. /\ q \in RowStates /\ q.state = rowOf[d].state
      /\ q.delivery = mark
  BY <1>1 DEF RowStates
<1>3. q # Absent /\ q.delivery # "none" /\ q.state \in {"live", "ended"}
  BY <1>1, <1>2, AbsentIs DEF SettleInv, RowsWritten
<1>4. /\ rowOf' = [rowOf EXCEPT ![d] = q] /\ f \in BOOLEAN
      /\ settle' = [settle EXCEPT !.fault = f]
  BY <1>1 DEF MarkDelivery, Settlements
<1>5. ~f => ~settle.fault /\ q.delivery \in {"pending", "delivered"}
  BY <1>2
<1> HIDE DEF q, f
<1> QED
  BY <1>1, <1>2, <1>3, <1>4, <1>5, AdvanceKeeps

(* The host writes the message of a delegation, or one of no delegation. *)
LEMMA DeliverKeeps ==
  ASSUME SettleInv, NEW d \in Delegations \cup {0}, Deliver(d)
  PROVE  SettleInv'
<1> DEFINE f == settle.fault \/ d = 0 \/ CountOf(d, deliveries) > 0
           n == Len(deliveries)
<1>1. /\ settle \in Settlements /\ deliveries \in Seq(Delegations \cup {0})
      /\ UNCHANGED rowOf /\ Settling
      /\ deliveries' = Append(deliveries, d)
      /\ d # 0 => rowOf[d] # Absent
  BY DEF SettleInv, SettleTyped, Deliver
<1>2. /\ deliveries' \in Seq(Delegations \cup {0}) /\ n \in Nat
      /\ DOMAIN deliveries = 1..n /\ DOMAIN deliveries' = 1..(n + 1)
      /\ deliveries'[n + 1] = d
      /\ \A i \in 1..n : deliveries'[i] = deliveries[i]
  BY <1>1, AppendProperties, LenProperties
<1>3. /\ settle' = [settle EXCEPT !.fault = f] /\ f \in BOOLEAN
  BY <1>1 DEF Deliver, Settlements
<1> HIDE DEF f
<1>4. /\ settle' \in Settlements /\ settle'.fault = f
      /\ settle'.pc = settle.pc /\ settle'.expected = settle.expected
      /\ settle'.rows = settle.rows /\ settle'.late = settle.late
      /\ settle'.pc \in {"rows", "messages"}
  BY <1>1, <1>3 DEF Settlements, Settling
<1>5. SettleTyped'
  BY <1>1, <1>2, <1>4 DEF SettleInv, SettleTyped
<1>6. Honest'
  <2> SUFFICES ASSUME ~f PROVE Honest'
    BY <1>4 DEF Honest
  <2>1. ~settle.fault /\ d # 0 /\ d \in Delegations
        /\ ~\E i \in DOMAIN deliveries : deliveries[i] = d
    BY <1>1, CountIs DEF f
  <2>2. \A i \in 1..(n + 1) : i \in 1..n \/ i = n + 1
    BY <1>2
  <2>3. \A i \in 1..n : deliveries[i] \in Delegations
                        /\ rowOf[deliveries[i]] # Absent
                        /\ deliveries[i] # d
    BY <1>2, <2>1 DEF SettleInv, Honest
  <2>4. \A i, j \in 1..n : deliveries[i] = deliveries[j] => i = j
    BY <1>2, <2>1 DEF SettleInv, Honest
  <2>5. \A i \in 1..(n + 1) : deliveries'[i] \in Delegations
                              /\ rowOf[deliveries'[i]] # Absent
    BY <1>1, <1>2, <2>1, <2>2, <2>3
  <2>6. \A i, j \in 1..(n + 1) : deliveries'[i] = deliveries'[j] => i = j
    BY <1>2, <2>2, <2>3, <2>4
  <2>7. Present' = Present
    BY <1>1 DEF Present
  <2> QED
    BY <1>1, <1>2, <1>4, <2>1, <2>5, <2>6, <2>7 DEF SettleInv, Honest
<1>7. RowsWritten' /\ RowsRead'
  BY <1>1, <1>4 DEF SettleInv, RowsWritten, RowsRead
<1> QED
  BY <1>4, <1>5, <1>6, <1>7
     DEF SettleInv, ReturnIsSettled, ProbeIsPatient

(* The observation of the rows: one state for all of them. *)
LEMMA DeliveryStateIs ==
  ASSUME NEW S \in SUBSET Delegations, NEW rows \in [S -> RowStates]
  PROVE  /\ \A s \in {"pending", "delivered"} :
              DeliveryState(rows) = s =>
                \A d \in S : rows[d].delivery = s
         /\ \A d \in S : S = {d} => DeliveryState(rows) = rows[d].delivery
<1> DEFINE all == {rows[d].delivery : d \in DOMAIN rows}
<1>1. DOMAIN rows = S
  OBVIOUS
<1>2. IsFiniteSet(all)
  <2> DEFINE words == {"none", "pending", "delivered", "dropped", "unknown"}
  <2>1. all \in SUBSET words
    BY DEF RowStates
  <2>2. words = {"none"} \cup {"pending"} \cup {"delivered"}
                  \cup {"dropped"} \cup {"unknown"}
    OBVIOUS
  <2>3. IsFiniteSet(words)
    <3>1. \A T, x : IsFiniteSet(T) => IsFiniteSet(T \cup {x})
      BY FS_AddElement
    <3> HIDE DEF all, words
    <3> QED
      BY <2>2, <3>1, FS_Singleton
  <2> QED
    BY <2>1, <2>3, FS_Subset
<1>3. DeliveryState(rows) =
        IF all = {} THEN "none"
        ELSE IF Cardinality(all) = 1 THEN CHOOSE s \in all : TRUE
        ELSE "mixed"
  BY DEF DeliveryState
<1>4. ASSUME NEW s \in {"pending", "delivered"}, DeliveryState(rows) = s,
             NEW d \in S
      PROVE  rows[d].delivery = s
  <2>1. Cardinality(all) = 1 /\ s = CHOOSE t \in all : TRUE
    BY <1>3, <1>4
  <2>2. PICK x : all = {x}
    BY <1>2, <2>1, FS_Singleton
  <2>3. s = x
    BY <2>1, <2>2
  <2>4. rows[d].delivery \in all
    BY <1>1
  <2> QED
    BY <2>2, <2>3, <2>4
<1>5. ASSUME NEW d \in S, S = {d}
      PROVE  DeliveryState(rows) = rows[d].delivery
  <2>1. all = {rows[d].delivery}
    BY <1>1, <1>5
  <2>2. Cardinality(all) = 1 /\ all # {}
    BY <2>1, FS_Singleton
  <2>3. (CHOOSE t \in all : TRUE) = rows[d].delivery
    BY <2>1
  <2> QED
    BY <1>3, <2>2, <2>3
<1> QED
  BY <1>4, <1>5

(* The probe reads the rows, and waits on, returns or gives up. *)
LEMMA ReadRowsKeeps == SettleInv /\ ReadRows => SettleInv'
<1> SUFFICES ASSUME SettleInv, ReadRows PROVE SettleInv'
  OBVIOUS
<1>1. /\ settle \in Settlements /\ rowOf \in [Delegations -> RowStates]
      /\ UNCHANGED <<rowOf, deliveries, pages>> /\ settle.pc = "rows"
  BY DEF SettleInv, SettleTyped, ReadRows
<1> DEFINE error ==
             IF settle.expected \notin {AnyCount, Cardinality(Present)}
             THEN "count" ELSE
             IF \E d \in Present : rowOf[d].delivery = "unknown"
             THEN "unknown" ELSE
             "none"
           read == [d \in Present |-> rowOf[d]]
<1>2. settle' = IF error = "none"
                THEN [settle EXCEPT !.pc = "messages", !.rows = read]
                ELSE [settle EXCEPT !.pc = AfterError(error)]
  BY DEF ReadRows
<1>3. /\ Present \in SUBSET Delegations
      /\ \A d \in Present : rowOf[d] # Absent
  BY DelegationsAre DEF Present
<1>4. CASE error = "none"
  <2>1. read \in [Present -> RowStates]
    BY <1>1, <1>3
  <2>2. read \in RowSets
    BY <1>3, <2>1 DEF RowSets
  <2>3. /\ settle.expected \in {AnyCount, Cardinality(Present)}
        /\ \A d \in Present : rowOf[d].delivery # "unknown"
    BY <1>4
  <2>4. settle' = [settle EXCEPT !.pc = "messages", !.rows = read]
    BY <1>2, <1>4
  <2> HIDE DEF read, error
  <2>5. /\ settle' \in Settlements /\ settle'.pc = "messages"
        /\ settle'.rows = read /\ settle'.expected = settle.expected
        /\ settle'.late = settle.late /\ settle'.fault = settle.fault
    BY <1>1, <2>2, <2>4 DEF Settlements
  <2>6. SettleTyped' /\ Honest' /\ RowsWritten'
    BY <1>1, <2>5 DEF SettleInv, SettleTyped, Honest, Present, RowsWritten
  <2>7. DOMAIN read = Present /\ \A d \in Present : read[d] = rowOf[d]
    BY DEF read
  <2>8. \A d \in Present :
          /\ rowOf[d].state \in {"live", "ended"}
          /\ rowOf[d].delivery \in {"pending", "delivered", "dropped"}
    BY <1>1, <1>3, <2>3 DEF SettleInv, RowsWritten, RowStates
  <2>9. RowsRead'
    <3>1. settle.expected # AnyCount =>
            Cardinality(Present) = settle.expected
      BY <2>3
    <3> QED
      BY <1>1, <1>3, <2>5, <2>7, <2>8, <3>1 DEF RowsRead, Advanced
  <2> QED
    BY <2>5, <2>6, <2>9 DEF SettleInv, ReturnIsSettled, ProbeIsPatient
<1>5. CASE error # "none"
  <2> DEFINE next == AfterError(error)
  <2>1. /\ error \in {"count", "unknown"} /\ next \in {"rows", "failed"}
        /\ next = "failed" => error = "unknown" \/ settle.late
    BY <1>5 DEF AfterError, Transient
  <2>2. error = "unknown" => settle.fault
    BY <1>3 DEF SettleInv, Honest
  <2>3. settle' = [settle EXCEPT !.pc = next]
    BY <1>2, <1>5
  <2> HIDE DEF next, error
  <2>4. /\ settle' \in Settlements /\ settle'.pc = next
        /\ settle'.rows = settle.rows /\ settle'.expected = settle.expected
        /\ settle'.late = settle.late /\ settle'.fault = settle.fault
    BY <1>1, <2>1, <2>3 DEF Settlements
  <2>5. SettleTyped' /\ Honest' /\ RowsWritten'
    BY <1>1, <2>4 DEF SettleInv, SettleTyped, Honest, Present, RowsWritten
  <2> QED
    BY <2>1, <2>2, <2>4, <2>5
       DEF SettleInv, RowsRead, ReturnIsSettled, ProbeIsPatient
<1> QED
  BY <1>4, <1>5

(* What an honest host lets a probe find, for the counts of the runner:    *)
(* nothing final before every delegation has ended and is delivered.       *)
LEMMA HonestProbe ==
  ASSUME SettleInv, settle.pc = "messages", settle.expected \in 0..1,
         ~settle.late, ~settle.fault
  PROVE  LET error == ProbeError(settle.rows, deliveries) IN
         /\ error # "none" => AfterError(error) = "rows"
         /\ error = "none" =>
              AfterProbe(settle.rows, deliveries) \in {"rows", "returned"}
<1> DEFINE rows == settle.rows
           S == DOMAIN rows
           error == ProbeError(rows, deliveries)
<1>1. /\ settle \in Settlements /\ rowOf \in [Delegations -> RowStates]
      /\ deliveries \in Seq(Delegations \cup {0})
      /\ rows \in [S -> RowStates] /\ S \in SUBSET Delegations
  BY DEF SettleInv, SettleTyped, Settlements, RowSets
<1>2. /\ Cardinality(S) = settle.expected
      /\ \A d \in S : /\ rows[d].state \in {"live", "ended"}
                      /\ rows[d].delivery \in
                           {"pending", "delivered", "dropped"}
                      /\ Advanced(rows[d], rowOf[d])
  BY DEF SettleInv, RowsRead, AnyCount
<1>3. /\ \A d \in Delegations :
           rowOf[d].delivery \in {"none", "pending", "delivered"}
      /\ \A i \in DOMAIN deliveries :
           deliveries[i] \in Delegations /\ rowOf[deliveries[i]] # Absent
      /\ \A i, j \in DOMAIN deliveries :
           deliveries[i] = deliveries[j] => i = j
      /\ Cardinality(Present) <= settle.expected
  BY DEF SettleInv, Honest
<1>4. S = Present
  <2>1. S \in SUBSET Present
    BY <1>1, <1>2 DEF Present, Advanced
  <2>2. Cardinality(S) <= Cardinality(Present) /\ Cardinality(S) \in Nat
    BY <2>1, DelegationsAre, FS_Subset, FS_CardinalityType
  <2>3. Cardinality(S) = Cardinality(Present)
    BY <1>2, <1>3, <2>2, DelegationsAre
  <2> QED
    BY <2>1, <2>3, DelegationsAre, FS_Subset
<1>5. \A i \in DOMAIN deliveries : deliveries[i] \in S
  BY <1>3, <1>4 DEF Present
<1>6. ~Unbound(rows, deliveries)
  <2>1. \A d \in S : CountOf(d, deliveries) <= 1
                     /\ CountOf(d, deliveries) \in Nat
    <3> TAKE d \in S
    <3>1. \A i, j \in DOMAIN deliveries :
            deliveries[i] = d /\ deliveries[j] = d => i = j
      BY <1>3
    <3> QED
      BY Zenon, <1>1, <3>1, CountIs
  <2> QED
    BY <1>5, <2>1 DEF Unbound
<1>7. \A d \in S : rows[d].delivery # "dropped"
  BY <1>1, <1>2, <1>3 DEF Advanced
<1>8. ASSUME error # "none"
      PROVE  AfterError(error) = "rows"
  <2>1. PICK d \in S : error = RowError(rows[d], CountOf(d, deliveries) > 0)
    BY <1>1, <1>6, <1>8, ProbeErrorIs, DelegationsAre
  <2>2. error \in {"lacks", "early"}
    BY <1>7, <1>8, <2>1 DEF RowError
  <2> QED
    BY <2>2 DEF AfterError, Transient
<1>9. ASSUME error = "none"
      PROVE  AfterProbe(rows, deliveries) \in {"rows", "returned"}
  <2>1. CASE settle.expected = 0
    BY <2>1 DEF AfterProbe
  <2>2. CASE settle.expected = 1
    <3>1. PICK d : S = {d}
      BY <1>1, <1>2, <2>2, DelegationsAre, FS_Subset, FS_Singleton
    <3>2. DeliveryState(rows) = rows[d].delivery
      BY <1>1, <3>1, DeliveryStateIs
    <3>3. CASE rows[d].delivery = "pending"
      BY <3>2, <3>3 DEF AfterProbe
    <3>4. CASE rows[d].delivery = "delivered"
      <4>1. RowError(rows[d], CountOf(d, deliveries) > 0) = "none"
        BY <1>1, <1>9, <3>1, ProbeErrorIs, DelegationsAre
      <4>2. CountOf(d, deliveries) > 0
        BY <3>4, <4>1 DEF RowError
      <4>3. PICK i \in DOMAIN deliveries : deliveries[i] = d
        BY <1>1, <4>2, CountIs
      <4>4. DOMAIN deliveries = {i}
        BY <1>3, <1>5, <3>1, <4>3
      <4>5. Len(deliveries) = 1
        <5>1. DOMAIN deliveries = 1..Len(deliveries)
              /\ Len(deliveries) \in Nat
          BY <1>1, LenProperties
        <5>2. i = 1
          BY <4>4, <5>1
        <5>3. ~(Len(deliveries) >= 2)
          BY <4>4, <5>1, <5>2
        <5>4. Len(deliveries) # 0
          BY <4>4, <5>1
        <5> QED
          BY <5>1, <5>3, <5>4
      <4> QED
        BY <2>2, <3>2, <3>4, <4>5 DEF AfterProbe
    <3> QED
      BY <1>2, <1>7, <3>1, <3>3, <3>4
  <2> QED
    BY <2>1, <2>2
<1> QED
  BY <1>8, <1>9

(* What a probe that is not refused has found. *)
LEMMA ReturnFound ==
  ASSUME SettleInv, settle.pc = "messages", settle.expected > 0,
         ProbeError(settle.rows, deliveries) = "none",
         DeliveryState(settle.rows) = "delivered"
  PROVE  /\ Cardinality(DOMAIN settle.rows) = settle.expected
         /\ \A d \in DOMAIN settle.rows :
              /\ rowOf[d] = [state |-> "ended", delivery |-> "delivered"]
              /\ CountOf(d, deliveries) = 1
<1> DEFINE rows == settle.rows
           S == DOMAIN rows
<1>1. /\ settle \in Settlements /\ rowOf \in [Delegations -> RowStates]
      /\ deliveries \in Seq(Delegations \cup {0})
      /\ rows \in [S -> RowStates] /\ S \in SUBSET Delegations
  BY DEF SettleInv, SettleTyped, Settlements, RowSets
<1>2. /\ Cardinality(S) = settle.expected
      /\ \A d \in S : /\ rows[d].state \in {"live", "ended"}
                      /\ Advanced(rows[d], rowOf[d])
  BY DEF SettleInv, RowsRead, AnyCount
<1>3. /\ ~Unbound(rows, deliveries)
      /\ \A d \in S : RowError(rows[d], CountOf(d, deliveries) > 0) = "none"
  BY <1>1, ProbeErrorIs, DelegationsAre
<1>4. \A d \in S : rows[d].delivery = "delivered"
  BY <1>1, DeliveryStateIs
<1>5. ASSUME NEW d \in S
      PROVE  /\ rowOf[d] = [state |-> "ended", delivery |-> "delivered"]
             /\ CountOf(d, deliveries) = 1
  <2>1. /\ CountOf(d, deliveries) \in Nat /\ CountOf(d, deliveries) <= 1
    <3>1. CountOf(d, deliveries) \in Nat
      BY Zenon, <1>1, CountIs
    <3>2. ~(CountOf(d, deliveries) > 1)
      BY <1>3 DEF Unbound
    <3> QED
      BY <3>1, <3>2
  <2>2. CountOf(d, deliveries) > 0
    BY <1>3, <1>4 DEF RowError
  <2>3. rows[d].state = "ended"
    BY <1>2, <1>3, <2>2 DEF RowError
  <2>4. /\ rowOf[d].state = "ended" /\ rowOf[d].delivery = "delivered"
        /\ rowOf[d] \in RowStates
    BY <1>1, <1>2, <1>4, <2>3 DEF Advanced
  <2> QED
    BY <2>1, <2>2, <2>4 DEF RowStates
<1> QED
  BY <1>2, <1>5

(* The probe reads the messages of the rows it settled on. *)
LEMMA ReadMessagesKeeps == SettleInv /\ ReadMessages => SettleInv'
<1> SUFFICES ASSUME SettleInv, ReadMessages PROVE SettleInv'
  OBVIOUS
<1> DEFINE error == ProbeError(settle.rows, deliveries)
           next == IF error # "none" THEN AfterError(error)
                   ELSE AfterProbe(settle.rows, deliveries)
<1>1. /\ settle \in Settlements /\ rowOf \in [Delegations -> RowStates]
      /\ deliveries \in Seq(Delegations \cup {0})
      /\ UNCHANGED <<rowOf, deliveries, pages>> /\ settle.pc = "messages"
  BY DEF SettleInv, SettleTyped, ReadMessages
<1>2. settle' = IF next = "returned"
                THEN [settle EXCEPT !.pc = next, !.read = deliveries]
                ELSE [settle EXCEPT !.pc = next, !.rows = <<>>]
  BY DEF ReadMessages
<1>3. next \in {"rows", "failed", "returned"}
  BY DEF AfterError, AfterProbe
<1>4. next = "failed" /\ settle.expected \in 0..1 =>
        settle.late \/ settle.fault
  BY <1>1, HonestProbe
<1>5. next = "returned" /\ settle.expected > 0 =>
        error = "none" /\ DeliveryState(settle.rows) = "delivered"
  BY <1>1 DEF AfterError, AfterProbe, Settlements
<1> HIDE DEF next, error
<1>6. CASE next = "returned"
  <2>1. settle' = [settle EXCEPT !.pc = next, !.read = deliveries]
    BY <1>2, <1>6
  <2>2. /\ settle' \in Settlements /\ settle'.pc = "returned"
        /\ settle'.rows = settle.rows /\ settle'.expected = settle.expected
        /\ settle'.late = settle.late /\ settle'.fault = settle.fault
        /\ settle'.read = deliveries
    BY <1>1, <1>6, <2>1 DEF Settlements
  <2>3. SettleTyped' /\ Honest' /\ RowsWritten'
    BY <1>1, <2>2 DEF SettleInv, SettleTyped, Honest, Present, RowsWritten
  <2>4. ReturnIsSettled'
    BY <1>1, <1>5, <1>6, <2>2, ReturnFound DEF ReturnIsSettled, error
  <2> QED
    BY <2>2, <2>3, <2>4 DEF SettleInv, RowsRead, ProbeIsPatient
<1>7. CASE next # "returned"
  <2>1. settle' = [settle EXCEPT !.pc = next, !.rows = <<>>]
    BY <1>2, <1>7
  <2>2. /\ settle' \in Settlements /\ settle'.pc = next
        /\ settle'.expected = settle.expected
        /\ settle'.late = settle.late /\ settle'.fault = settle.fault
    BY <1>1, <1>3, <2>1, NoRows DEF Settlements
  <2>3. SettleTyped' /\ Honest' /\ RowsWritten'
    BY <1>1, <2>2 DEF SettleInv, SettleTyped, Honest, Present, RowsWritten
  <2> QED
    BY <1>3, <1>4, <1>7, <2>2, <2>3
       DEF SettleInv, RowsRead, ReturnIsSettled, ProbeIsPatient
<1> QED
  BY <1>6, <1>7

(* The deadline, and a database that cannot be read. *)
LEMMA MarksKeep ==
  SettleInv /\ (ReadBreaks \/ SettlementDeadline) => SettleInv'
<1> SUFFICES ASSUME SettleInv, ReadBreaks \/ SettlementDeadline
             PROVE  SettleInv'
  OBVIOUS
<1>1. /\ settle \in Settlements /\ UNCHANGED <<rowOf, deliveries, pages>>
      /\ settle.pc \in {"rows", "messages"}
  BY DEF SettleInv, SettleTyped, ReadBreaks, SettlementDeadline, Settling
<1>2. CASE ReadBreaks
  <2>1. /\ settle' \in Settlements /\ settle'.pc = "failed" /\ settle'.fault
    BY <1>1, <1>2 DEF ReadBreaks, Settlements
  <2> QED
    BY <1>1, <2>1 DEF SettleInv, SettleTyped, Honest, RowsWritten, RowsRead,
       ReturnIsSettled, ProbeIsPatient
<1>3. CASE SettlementDeadline
  <2>1. /\ settle' \in Settlements /\ settle'.pc = settle.pc
        /\ settle'.rows = settle.rows /\ settle'.expected = settle.expected
        /\ settle'.fault = settle.fault
    BY <1>1, <1>3 DEF SettlementDeadline, Settlements
  <2> QED
    BY <1>1, <2>1 DEF SettleInv, SettleTyped, Honest, Present, RowsWritten,
       RowsRead, ReturnIsSettled, ProbeIsPatient
<1> QED
  BY <1>2, <1>3

-----------------------------------------------------------------------------
(* The transcript. *)
Calling(log, c) ==
  {i \in DOMAIN log : \E k \in DOMAIN log[i].calls : log[i].calls[k] = c}
Answering(log, c) == {i \in DOMAIN log : log[i].call = c}
Prompts(log) == {i \in DOMAIN log : log[i].role = "user"}
Finals(log) == {i \in DOMAIN log : log[i].role = "assistant" /\ log[i].final
                                   /\ log[i].calls = <<>>}
At1(n) == IF n = 0 THEN {} ELSE {n}

PageSets ==
  [log : Seq(TranscriptRows), state : {"reading", "PASS", "failed"},
   calls : [CallIds -> Nat], results : [CallIds -> Nat], users : Nat,
   terminals : Nat, receipts : Nat]
(* Each call and each result stands where its row says. *)
PagesRead ==
  LET log == pages.log IN
  /\ \A c \in CallIds : /\ Calling(log, c) = At1(pages.calls[c])
                        /\ Answering(log, c) = At1(pages.results[c])
  /\ pages.users = Cardinality(Prompts(log))
  /\ pages.terminals = Cardinality(Finals(log))
PagesInv ==
  /\ pages \in PageSets
  /\ pages.state # "failed" => PagesRead
  /\ pages.state = "PASS" =>
       /\ Paired /\ pages.receipts = pages.users
       /\ pages.receipts = pages.terminals

(* What a row of the transcript can hold. *)
LEMMA RowIs ==
  ASSUME NEW row \in TranscriptRows
  PROVE  /\ row.calls \in {<<>>, <<"a">>, <<"a", "b">>, <<"b", "b">>}
         /\ row.call \in CallIds \cup {"none"}
         /\ row.role \in {"user", "assistant", "other", "tool"}
         /\ row.role = "tool" <=> row.call # "none"
         /\ {row.calls[i] : i \in DOMAIN row.calls} \in SUBSET CallIds
         /\ row.final \in BOOLEAN
<1>1. /\ row.calls \in {<<>>, <<"a">>, <<"a", "b">>, <<"b", "b">>}
      /\ row.call \in CallIds \cup {"none"}
      /\ row.role \in {"user", "assistant", "other", "tool"}
      /\ row.role = "tool" <=> row.call # "none"
      /\ row.final \in BOOLEAN
  <2> DEFINE plain == [role |-> "user", calls |-> <<>>, final |-> FALSE,
                       call |-> "none"]
             last == [role |-> "assistant", calls |-> <<>>, final |-> TRUE,
                      call |-> "none"]
             odd == [role |-> "other", calls |-> <<>>, final |-> FALSE,
                     call |-> "none"]
  <2>1. CASE row \in {plain, last, odd}
    <3>1. CASE row = plain
      BY <3>1
    <3>2. CASE row = last
      BY <3>2
    <3>3. CASE row = odd
      BY <3>3
    <3> QED
      BY <2>1, <3>1, <3>2, <3>3
  <2>2. ASSUME NEW c \in {<<>>, <<"a">>, <<"a", "b">>, <<"b", "b">>},
               row = [role |-> "assistant", calls |-> c, final |-> FALSE,
                      call |-> "none"]
        PROVE  /\ row.calls \in {<<>>, <<"a">>, <<"a", "b">>, <<"b", "b">>}
               /\ row.call \in CallIds \cup {"none"}
               /\ row.role \in {"user", "assistant", "other", "tool"}
               /\ row.role = "tool" <=> row.call # "none"
               /\ row.final \in BOOLEAN
    BY <2>2
  <2>3. ASSUME NEW c \in CallIds,
               row = [role |-> "tool", calls |-> <<>>, final |-> FALSE,
                      call |-> c]
        PROVE  /\ row.calls \in {<<>>, <<"a">>, <<"a", "b">>, <<"b", "b">>}
               /\ row.call \in CallIds \cup {"none"}
               /\ row.role \in {"user", "assistant", "other", "tool"}
               /\ row.role = "tool" <=> row.call # "none"
               /\ row.final \in BOOLEAN
    BY <2>3 DEF CallIds
  <2> QED
    BY <2>1, <2>2, <2>3 DEF TranscriptRows
<1>2. \A s \in {<<>>, <<"a">>, <<"a", "b">>, <<"b", "b">>} :
        \A i \in DOMAIN s : s[i] \in CallIds
  BY DEF CallIds
<1> QED
  BY <1>1, <1>2

(* How the indices that satisfy something grow with the log. *)
LEMMA GrowsBy ==
  ASSUME NEW log \in Seq(TranscriptRows), NEW row \in TranscriptRows
  PROVE  LET g == Append(log, row)
             n == Len(log) + 1
         IN  /\ DOMAIN log = 1..(n - 1) /\ DOMAIN g = 1..n /\ n \in Nat
             /\ g[n] = row /\ \A i \in 1..(n - 1) : g[i] = log[i]
             /\ g \in Seq(TranscriptRows)
  BY AppendProperties, LenProperties

(* What one more row adds to the positions that call, answer, ask or end. *)
LEMMA SetsGrow ==
  ASSUME NEW log \in Seq(TranscriptRows), NEW row \in TranscriptRows
  PROVE  LET g == Append(log, row)
             n == Len(log) + 1
             calls == {row.calls[i] : i \in DOMAIN row.calls}
         IN  /\ \A c \in CallIds :
                  /\ Calling(g, c) = Calling(log, c) \cup
                       (IF c \in calls THEN {n} ELSE {})
                  /\ Answering(g, c) = Answering(log, c) \cup
                       (IF row.role = "tool" /\ row.call = c THEN {n} ELSE {})
             /\ Prompts(g) = Prompts(log) \cup
                  (IF row.role = "user" THEN {n} ELSE {})
             /\ Finals(g) = Finals(log) \cup
                  (IF row.role = "assistant" /\ row.final
                      /\ row.calls = <<>> THEN {n} ELSE {})
<1> DEFINE g == Append(log, row)
           n == Len(log) + 1
           calls == {row.calls[i] : i \in DOMAIN row.calls}
<1>1. /\ DOMAIN log = 1..(n - 1) /\ DOMAIN g = 1..n /\ n \in Nat
      /\ g[n] = row /\ \A i \in 1..(n - 1) : g[i] = log[i]
  BY GrowsBy
<1> HIDE DEF g
<1>2. /\ DOMAIN g = DOMAIN log \cup {n} /\ n \notin DOMAIN log
      /\ \A i \in DOMAIN log : g[i] = log[i]
  BY <1>1
<1> HIDE DEF n
<1>3. \A c \in CallIds : c \in calls <=>
        \E k \in DOMAIN row.calls : row.calls[k] = c
  OBVIOUS
<1> HIDE DEF calls
<1>4. ASSUME NEW c \in CallIds
      PROVE  Calling(g, c) = Calling(log, c) \cup
               (IF c \in calls THEN {n} ELSE {})
  BY <1>1, <1>2, <1>3 DEF Calling
<1>5. ASSUME NEW c \in CallIds
      PROVE  Answering(g, c) = Answering(log, c) \cup
               (IF row.role = "tool" /\ row.call = c THEN {n} ELSE {})
  <2>1. row.call = c => row.role = "tool"
    BY RowIs DEF CallIds
  <2> QED
    BY <1>1, <1>2, <2>1 DEF Answering
<1>6. Prompts(g) = Prompts(log) \cup (IF row.role = "user" THEN {n} ELSE {})
  BY <1>1, <1>2 DEF Prompts
<1>7. Finals(g) = Finals(log) \cup
        (IF row.role = "assistant" /\ row.final /\ row.calls = <<>>
         THEN {n} ELSE {})
  BY <1>1, <1>2 DEF Finals
<1> QED
  BY <1>4, <1>5, <1>6, <1>7 DEF g, n, calls

(* One more index is one more. *)
LEMMA CountsGrow ==
  ASSUME NEW log \in Seq(TranscriptRows), NEW T \in SUBSET (DOMAIN log),
         NEW U, NEW b \in BOOLEAN,
         U = T \cup (IF b THEN {Len(log) + 1} ELSE {})
  PROVE  Cardinality(U) = IF b THEN Cardinality(T) + 1 ELSE Cardinality(T)
<1>1. /\ DOMAIN log = 1..Len(log) /\ Len(log) \in Nat
  BY LenProperties
<1>2. IsFiniteSet(T) /\ Len(log) + 1 \notin T
  <2>1. IsFiniteSet(1..Len(log))
    BY <1>1, FS_Interval
  <2>2. T \in SUBSET (1..Len(log))
    BY <1>1
  <2> QED
    BY <1>1, <2>1, <2>2, FS_Subset
<1>3. CASE b
  BY <1>2, <1>3, FS_AddElement
<1>4. CASE ~b
  BY <1>4
<1> QED
  BY <1>3, <1>4

(* A transcript that could not be read says so. *)
LEMMA FailedPages == NoPages \in PageSets /\ NoPages.state = "failed"
<1>1. NewPages \in PageSets
  BY DEF NewPages, PageSets
<1> QED
  BY <1>1 DEF NoPages, PageSets

(* One more row of the transcript is read. *)
LEMMA ReadPageKeeps ==
  ASSUME PagesInv, NEW row \in TranscriptRows, ReadPage(row)
  PROVE  PagesInv'
<1> DEFINE log == pages.log
           n == Len(log) + 1
           calls == {row.calls[i] : i \in DOMAIN row.calls}
           bad == \/ row.role = "other"
                  \/ Cardinality(calls) # Len(row.calls)
                  \/ \E c \in calls : pages.calls[c] # 0
                  \/ row.role = "tool" /\ pages.results[row.call] # 0
           user == row.role = "user"
           final == /\ row.role = "assistant" /\ row.final
                    /\ row.calls = <<>>
           p == [c \in CallIds |-> IF c \in calls THEN n ELSE pages.calls[c]]
           q == [c \in CallIds |-> IF row.role = "tool" /\ row.call = c
                                   THEN n ELSE pages.results[c]]
           u == IF user THEN pages.users + 1 ELSE pages.users
           t == IF final THEN pages.terminals + 1 ELSE pages.terminals
<1>1. /\ pages \in PageSets /\ pages.state = "reading" /\ PagesRead
      /\ log \in Seq(TranscriptRows) /\ n \in Nat /\ n # 0
      /\ pages' = Page(row)
  BY LenProperties DEF PagesInv, ReadPage, PageSets
<1>2. CASE bad
  <2>1. pages' = NoPages
    BY <1>1, <1>2 DEF Page
  <2> QED
    BY <2>1, FailedPages DEF PagesInv
<1>3. CASE ~bad
  <2>1. pages' = [pages EXCEPT !.log = Append(log, row), !.calls = p,
                               !.results = q, !.users = u, !.terminals = t]
    BY <1>1, <1>3 DEF Page, PageSets
  <2>2. /\ p \in [CallIds -> Nat] /\ q \in [CallIds -> Nat]
        /\ u \in Nat /\ t \in Nat /\ Append(log, row) \in Seq(TranscriptRows)
    BY <1>1, GrowsBy DEF PageSets
  <2>3. /\ \A c \in CallIds :
             /\ p[c] = IF c \in calls THEN n ELSE pages.calls[c]
             /\ q[c] = IF row.role = "tool" /\ row.call = c
                       THEN n ELSE pages.results[c]
             /\ c \in calls => pages.calls[c] = 0
             /\ row.role = "tool" /\ row.call = c => pages.results[c] = 0
    BY <1>3
  <2>4. user \in BOOLEAN /\ final \in BOOLEAN
    BY RowIs
  <2>5. LET g == Append(log, row) IN
        /\ \A c \in CallIds :
             /\ Calling(g, c) = Calling(log, c) \cup
                  (IF c \in calls THEN {n} ELSE {})
             /\ Answering(g, c) = Answering(log, c) \cup
                  (IF row.role = "tool" /\ row.call = c THEN {n} ELSE {})
        /\ Prompts(g) = Prompts(log) \cup (IF user THEN {n} ELSE {})
        /\ Finals(g) = Finals(log) \cup (IF final THEN {n} ELSE {})
    BY <1>1, SetsGrow
  <2> DEFINE g == Append(log, row)
  <2> HIDE DEF g, p, q, u, t, user, final, calls
  <2>6. /\ pages' \in PageSets /\ pages'.state = "reading"
        /\ pages'.log = g /\ pages'.calls = p /\ pages'.results = q
        /\ pages'.users = u /\ pages'.terminals = t
    BY <1>1, <2>1, <2>2 DEF PageSets, g
  <2>7. /\ Cardinality(Prompts(g)) = u /\ Cardinality(Finals(g)) = t
    <3>1. Prompts(log) \in SUBSET (DOMAIN log)
          /\ Finals(log) \in SUBSET (DOMAIN log)
      BY DEF Prompts, Finals
    <3>2. /\ pages.users = Cardinality(Prompts(log))
          /\ pages.terminals = Cardinality(Finals(log))
      BY <1>1 DEF PagesRead
    <3>3. Cardinality(Prompts(g)) =
            IF user THEN Cardinality(Prompts(log)) + 1
            ELSE Cardinality(Prompts(log))
      BY <1>1, <2>4, <2>5, <3>1, CountsGrow DEF g
    <3>4. Cardinality(Finals(g)) =
            IF final THEN Cardinality(Finals(log)) + 1
            ELSE Cardinality(Finals(log))
      BY <1>1, <2>4, <2>5, <3>1, CountsGrow DEF g
    <3> QED
      BY <3>2, <3>3, <3>4 DEF u, t
  <2>8. ASSUME NEW c \in CallIds
        PROVE  /\ Calling(g, c) = At1(p[c]) /\ Answering(g, c) = At1(q[c])
    <3>1. /\ Calling(log, c) = At1(pages.calls[c])
          /\ Answering(log, c) = At1(pages.results[c])
      BY <1>1 DEF PagesRead
    <3> QED
      BY <1>1, <2>3, <2>5, <3>1 DEF At1, g
  <2> QED
    BY <2>6, <2>7, <2>8 DEF PagesInv, PagesRead
<1> QED
  BY <1>2, <1>3

(* The usage totals are read and compared with the receipts. *)
LEMMA ReadUsageKeeps ==
  ASSUME PagesInv, NEW turns \in 1..2, NEW receipts \in 1..2,
         NEW apiCalls \in 1..2, NEW exact \in BOOLEAN,
         ReadUsage(turns, receipts, apiCalls, exact)
  PROVE  PagesInv'
<1> DEFINE n == Len(pages.log)
           whole == /\ n > 0 /\ pages.terminals = turns
                    /\ pages.users = turns
                    /\ pages.log[n].role = "assistant"
                    /\ pages.log[n].calls = <<>>
           used == receipts = turns /\ apiCalls = turns /\ exact
<1>1. pages \in PageSets /\ pages.state = "reading" /\ PagesRead
  BY DEF PagesInv, ReadUsage
<1>2. CASE ~(whole /\ Paired /\ used)
  <2>1. pages' = NoPages
    BY <1>2 DEF ReadUsage
  <2> QED
    BY <2>1, FailedPages DEF PagesInv
<1>3. CASE whole /\ Paired /\ used
  <2>1. pages' = [pages EXCEPT !.state = "PASS", !.receipts = receipts]
    BY <1>3 DEF ReadUsage
  <2>2. /\ pages' \in PageSets /\ pages'.state = "PASS"
        /\ pages'.log = pages.log /\ pages'.calls = pages.calls
        /\ pages'.results = pages.results /\ pages'.users = pages.users
        /\ pages'.terminals = pages.terminals /\ pages'.receipts = receipts
    <3>1. receipts \in Nat
      OBVIOUS
    <3> QED
      BY <1>1, <2>1, <3>1 DEF PageSets
  <2>3. PagesRead' /\ Paired'
    BY <1>1, <1>3, <2>2 DEF PagesRead, Paired
  <2> QED
    BY <1>3, <2>2, <2>3 DEF PagesInv
<1> QED
  BY <1>2, <1>3

(* The invariant of the pages says that calls and results are paired. *)
LEMMA PairedPages == PagesInv => TranscriptIsPaired
<1> SUFFICES ASSUME PagesInv, pages.state = "PASS"
             PROVE  TranscriptIsPaired
  BY DEF TranscriptIsPaired
<1>1. /\ pages \in PageSets /\ PagesRead /\ Paired
      /\ pages.receipts = pages.users /\ pages.receipts = pages.terminals
  BY DEF PagesInv
<1>2. ASSUME NEW c \in CallIds
      PROVE  /\ Cardinality(Calling(pages.log, c))
                  = Cardinality(Answering(pages.log, c))
             /\ \A i \in Calling(pages.log, c) :
                  \E k \in Answering(pages.log, c) : i < k
  <2> DEFINE i == pages.calls[c]
             k == pages.results[c]
  <2>1. /\ Calling(pages.log, c) = At1(i) /\ Answering(pages.log, c) = At1(k)
        /\ i \in Nat /\ k \in Nat /\ (i = 0) = (k = 0) /\ (i # 0 => k > i)
    BY <1>1 DEF PagesRead, Paired, PageSets
  <2> HIDE DEF i, k
  <2>2. CASE i = 0
    BY <2>1, <2>2 DEF At1
  <2>3. CASE i # 0
    BY <2>1, <2>3, FS_Singleton DEF At1
  <2> QED
    BY <2>2, <2>3
<1> QED
  BY <1>1, <1>2 DEF TranscriptIsPaired, PagesRead, Calling, Answering,
     Prompts, Finals

-----------------------------------------------------------------------------
ProbeInv == SettleInv /\ PagesInv

(* The probe starts before anything is read. *)
LEMMA ProbeInvInit == ProbeInit => ProbeInv
<1> SUFFICES ASSUME ProbeInit PROVE ProbeInv
  OBVIOUS
<1>1. /\ rowOf = [d \in Delegations |-> Absent] /\ deliveries = <<>>
      /\ \A d \in Delegations : rowOf[d] = Absent
  BY DEF ProbeInit, NoDelegations
<1>2. /\ rowOf \in [Delegations -> RowStates]
      /\ deliveries \in Seq(Delegations \cup {0}) /\ DOMAIN deliveries = {}
      /\ Present = {} /\ Cardinality(Present) = 0
  <2>1. rowOf \in [Delegations -> RowStates] /\ Present = {}
    BY <1>1, AbsentIs DEF Present
  <2>2. <<>> \in Seq(Delegations \cup {0})
    OBVIOUS
  <2> QED
    BY <1>1, <2>1, <2>2, NoRows, FS_EmptySet
<1>3. \/ \E n \in Int : settle = NewSettlement(n)
      \/ settle = [NewSettlement(0) EXCEPT !.pc = "returned"]
  BY ProbeAssumption DEF ProbeInit, NoSettlement, AnyCount
<1>4. /\ settle \in Settlements
      /\ settle.pc \in {"rows", "returned"}
      /\ settle.pc = "returned" => settle.expected = 0
  <2>1. <<>> \in Seq(Delegations \cup {0})
    OBVIOUS
  <2>2. \A n \in Int : /\ NewSettlement(n) \in Settlements
                       /\ NewSettlement(n).pc = "rows"
                       /\ NewSettlement(n).expected = n
    BY <2>1, NoRows DEF NewSettlement, Settlements
  <2>3. CASE settle = [NewSettlement(0) EXCEPT !.pc = "returned"]
    <3> DEFINE z == NewSettlement(0)
    <3>1. z \in Settlements /\ z.expected = 0
      BY <2>2
    <3> HIDE DEF z
    <3> QED
      BY <2>3, <3>1 DEF Settlements, z
  <2> QED
    BY <1>3, <2>2, <2>3
<1>5. SettleInv
  BY <1>1, <1>2, <1>4, AbsentIs
     DEF SettleInv, SettleTyped, Honest, RowsWritten, RowsRead,
         ReturnIsSettled, ProbeIsPatient, Settlements
<1>6. PagesInv
  <2>1. CASE pages = NoPages
    BY <2>1, FailedPages DEF PagesInv
  <2>2. CASE pages = NewPages
    <3>1. /\ pages \in PageSets /\ pages.state = "reading"
          /\ pages.log = <<>> /\ pages.users = 0 /\ pages.terminals = 0
          /\ \A c \in CallIds : pages.calls[c] = 0 /\ pages.results[c] = 0
      BY <2>2 DEF NewPages, PageSets
    <3>2. /\ \A c \in CallIds : Calling(<<>>, c) = {}
                                /\ Answering(<<>>, c) = {}
          /\ Prompts(<<>>) = {} /\ Finals(<<>>) = {}
      BY NoRows DEF Calling, Answering, Prompts, Finals
    <3> QED
      BY <3>1, <3>2, FS_EmptySet DEF PagesInv, PagesRead, At1
  <2> QED
    BY <2>1, <2>2 DEF ProbeInit
<1> QED
  BY <1>5, <1>6 DEF ProbeInv

(* What the other half of the probe does leaves this half alone. *)
LEMMA ProbeStutters ==
  /\ SettleInv /\ UNCHANGED settleVars => SettleInv'
  /\ PagesInv /\ UNCHANGED pages => PagesInv'
<1>1. SettleInv /\ UNCHANGED settleVars => SettleInv'
  BY DEF settleVars, SettleInv, SettleTyped, Honest, Present, RowsWritten,
     RowsRead, ReturnIsSettled, ProbeIsPatient
<1>2. PagesInv /\ UNCHANGED pages => PagesInv'
  BY DEF PagesInv, PagesRead, Paired
<1> QED
  BY <1>1, <1>2

(* Each step of the probe or of the host keeps the invariant. *)
LEMMA ProbeInvStep == ProbeInv /\ [ProbeNext]_probeVars => ProbeInv'
<1> SUFFICES ASSUME ProbeInv, [ProbeNext]_probeVars PROVE ProbeInv'
  OBVIOUS
<1>1. SettleInv /\ PagesInv
  BY DEF ProbeInv
<1>2. CASE UNCHANGED probeVars
  BY <1>1, <1>2, ProbeStutters DEF probeVars, ProbeInv
<1>3. CASE ReadRows \/ ReadMessages \/ ReadBreaks \/ SettlementDeadline
  <2>1. UNCHANGED pages
    BY <1>3 DEF ReadRows, ReadMessages, ReadBreaks, SettlementDeadline
  <2> QED
    BY <1>1, <1>3, <2>1, ReadRowsKeeps, ReadMessagesKeeps, MarksKeep,
       ProbeStutters DEF ProbeInv
<1>4. ASSUME NEW d \in Delegations,
             \/ Dispatch(d) \/ EndDelegation(d)
             \/ \E mark \in {"delivered", "dropped", "unknown"} :
                  MarkDelivery(d, mark)
      PROVE  ProbeInv'
  <2>1. UNCHANGED pages
    BY <1>4 DEF Dispatch, EndDelegation, MarkDelivery
  <2> QED
    BY <1>1, <1>4, <2>1, DispatchKeeps, EndKeeps, MarkKeeps, ProbeStutters
       DEF ProbeInv
<1>5. ASSUME NEW d \in Delegations \cup {0}, Deliver(d)
      PROVE  ProbeInv'
  BY <1>1, <1>5, DeliverKeeps, ProbeStutters DEF ProbeInv, Deliver
<1>6. ASSUME NEW row \in TranscriptRows, ReadPage(row)
      PROVE  ProbeInv'
  BY <1>1, <1>6, ReadPageKeeps, ProbeStutters DEF ProbeInv, ReadPage
<1>7. ASSUME NEW turns \in 1..2, NEW receipts \in 1..2,
             NEW apiCalls \in 1..2, NEW exact \in BOOLEAN,
             ReadUsage(turns, receipts, apiCalls, exact)
      PROVE  ProbeInv'
  BY <1>1, <1>7, ReadUsageKeeps, ProbeStutters DEF ProbeInv, ReadUsage
<1> QED
  BY <1>2, <1>3, <1>4, <1>5, <1>6, <1>7 DEF ProbeNext

(* The invariant of the probe. *)
LEMMA ProbeInvHolds == ProbeSpec => []ProbeInv
  BY ProbeInvInit, ProbeInvStep, PTL DEF ProbeSpec

(* The invariant says what the properties of the probe say. *)
LEMMA ProbeInvGives ==
  ProbeInv => ReturnIsSettled /\ ProbeIsPatient /\ TranscriptIsPaired
  BY PairedPages DEF ProbeInv, SettleInv

(* The wait for the delegations and the reading of the transcript keep     *)
(* their types, whatever the host writes between two of their reads        *)
(* (v4_host_probe.py).                                                     *)
THEOREM ProbeTypeCorrect == ProbeSpec => []ProbeTypeOK
<1>1. ProbeInv => ProbeTypeOK
  BY DEF ProbeInv, SettleInv, SettleTyped, PagesInv, PageSets, Settlements,
     RowSets, ProbeTypeOK
<1> QED
  BY <1>1, ProbeInvHolds, PTL

-----------------------------------------------------------------------------
(* A live case.                                                            *)
SuitesSpec == SuitesInit /\ [][SuitesNext]_case

Codes == {"none", "other", "auth", "image_invalid", "state_invalid"}
TurnSet ==
  [terminal : {"completed", "failed", "cancelled", "invalid"}, code : Codes,
   billing : {"none", "subscription_included", "unsafe"},
   fallback : BOOLEAN, text : BOOLEAN, state : Nat, clean : BOOLEAN,
   reached : BOOLEAN]
Reasons == {"none", "gate", "auth", "unbilled", "unsafe", "behavior",
            "fallback", "recovery", "passed", "failed", "unavailable",
            "raised", "timeout", "focused", "delegate"}
BundleSet ==
  [cls : {"none", "COMPLETE", "VERIFIED_FAILURE", "ENVIRONMENT_BLOCKED"},
   reason : Reasons, count : Nat]
Cases ==
  [row : LiveRows \cup {"none", "focused", "delegation"},
   step : {"start", "turn", "close", "broken", "done"}, budget : Nat,
   group : {0, 1, 2}, turns : Seq(TurnSet), here : Nat, closed : Nat,
   open : SUBSET {"a", "b"}, hosts : [{1, 2} -> Hosts], called : BOOLEAN,
   broke : {"no", "raised", "timeout"}, cut : BOOLEAN, spent : Nat,
   bundle : BundleSet]

(* The turns of a row one after another: all are meant for the provider    *)
(* but the first one of two rows.                                          *)
MeetsAt(row, k) ==
  IF row = "image" /\ k = 1 THEN "image_invalid"
  ELSE IF row = "memory" /\ k = 1 THEN "state_invalid" ELSE "answer"
GroupsOf(row) == IF row = "restart" THEN 2 ELSE 1
LengthOf(row) ==
  CASE row \in {"instruction", "native", "restart"} -> 1
    [] row \in {"source_docs", "image"} -> 2
    [] row = "memory" -> 3
    [] row = "threads" -> 4
TotalOf(row) == IF row = "restart" THEN 2 ELSE LengthOf(row)
AskedOf(row, n) ==
  IF row \in {"image", "memory"} /\ n > 0 THEN n - 1 ELSE n

(* The script of a row, group by group. *)
LEMMA ScriptIs ==
  ASSUME NEW row \in LiveRows
  PROVE  /\ Len(Script[row]) = GroupsOf(row)
         /\ MinimumTurns[row] = AskedOf(row, TotalOf(row))
         /\ \A g \in 1..GroupsOf(row) :
              /\ Script[row][g].runtimes \in
                   IF g = 2 THEN {<<"b">>}
                   ELSE IF row = "threads" THEN {<<"a", "b">>} ELSE {<<"a">>}
              /\ Len(Script[row][g].turns) = LengthOf(row)
              /\ \A k \in 1..LengthOf(row) :
                   Script[row][g].turns[k].meets = MeetsAt(row, g + k - 1)
<1> USE DEF Script, LiveRows, GroupsOf, MinimumTurns, AskedOf, TotalOf,
        LengthOf, MeetsAt, One, Ask, Refuse
<1>0. row \in {"source_docs", "image", "memory", "threads", "restart",
               "instruction", "native"}
  OBVIOUS
<1>1. CASE row = "source_docs"
  BY <1>1
<1>2. CASE row = "image"
  BY <1>2
<1>3. CASE row = "memory"
  BY <1>3
<1>4. CASE row = "threads"
  BY <1>4
<1>5. CASE row = "restart"
  BY <1>5
<1>6. CASE row = "instruction"
  BY <1>6
<1>7. CASE row = "native"
  BY <1>7
<1> QED
  BY <1>0, <1>1, <1>2, <1>3, <1>4, <1>5, <1>6, <1>7

(* How long a row is, and how often it asks before each of its groups. *)
LEMMA LengthIs ==
  ASSUME NEW row \in LiveRows
  PROVE  /\ LengthOf(row) \in 1..4 /\ GroupsOf(row) \in {1, 2}
         /\ TotalOf(row) = GroupsOf(row) - 1 + LengthOf(row)
         /\ MinimumTurns[row] \in Nat
         /\ \A g \in 1..GroupsOf(row) :
              /\ AskedOf(row, g - 1) \in Nat
              /\ AskedOf(row, g - 1) <= MinimumTurns[row]
<1>1. row \in {"source_docs", "image", "memory", "threads", "restart",
               "instruction", "native"}
  BY DEF LiveRows, Script
<1> QED
  BY <1>1 DEF LengthOf, GroupsOf, TotalOf, MinimumTurns, AskedOf, LiveRows,
              Script

(* What a turn of a script may look like: only the provider completes one, *)
(* a login that is refused stops it before the provider, and so does what  *)
(* the runtime refuses by itself.                                          *)
Meant(row, k, t) ==
  /\ t \in TurnSet
  /\ t.code = "auth" => t.billing = "none" /\ ~t.fallback /\ ~t.reached
  /\ t.terminal = "completed" => t.reached
  /\ MeetsAt(row, k) # "answer" => t.billing = "none" /\ ~t.reached

Asked(ts) == {i \in 1..Len(ts) : ts[i].reached}
OpenOf(row, g) ==
  IF g = 2 THEN {"b"} ELSE IF row = "threads" THEN {"a", "b"} ELSE {"a"}

(* A case between its checks and its bundle.                               *)
RunningCase(c) ==
  /\ c.row \in LiveRows /\ c.group \in 1..GroupsOf(c.row)
  /\ c.here <= LengthOf(c.row) /\ Len(c.turns) = c.group - 1 + c.here
  /\ \A i \in 1..Len(c.turns) : Meant(c.row, i, c.turns[i])
  /\ MinimumTurns[c.row] <= c.budget /\ c.spent <= MinimumTurns[c.row]
  /\ c.broke = "no" => c.spent = Cardinality(Asked(c.turns))
  /\ c.bundle = NoCase.bundle
AtTurn(c) ==
  /\ c.broke = "no" /\ c.closed = 0 /\ c.open = OpenOf(c.row, c.group)
  /\ c.spent <= AskedOf(c.row, Len(c.turns))
AtClose(c) ==
  /\ c.broke = "no" => c.here = LengthOf(c.row)
  /\ LET order == Script[c.row][c.group].runtimes
     IN  /\ c.closed <= Len(order)
         /\ c.open = {order[i] : i \in c.closed + 1 .. Len(order)}

CaseInv ==
  /\ case \in Cases
  /\ case.step = "start" => case = NoCase
  /\ case.step \in {"turn", "close", "broken"} => RunningCase(case)
  /\ case.step = "turn" => AtTurn(case)
  /\ case.step = "close" => AtClose(case)
  /\ case.step = "broken" => case.broke # "no" /\ case.open \subseteq {"b"}
  /\ CaseHolds

(* A history that went through the bridge is the history. *)
LEMMA BridgedIs ==
  ASSUME NEW h, NEW req
  PROVE  Bridged(h, req) = h
<1>1. ~(BridgePasses \subseteq SandboxTakes)
  BY DEF BridgePasses, SandboxTakes
<1> QED
  BY <1>1 DEF Bridged

(* A turn drawn for a group answers to that group's place in the script. *)
LEMMA TurnIsMeant ==
  ASSUME NEW row, NEW k, NEW s, s.meets = MeetsAt(row, k),
         NEW t \in TurnsOf(s)
  PROVE  Meant(row, k, t)
<1>1. s.meets \in {"answer", "image_invalid", "state_invalid"}
  BY DEF MeetsAt
<1>2. \A c \in Codes : Refused(c) \in TurnSet
  BY DEF Refused, Turn, TurnSet, Codes
<1>3. ASSUME t \in ProviderAnswers
      PROVE  t \in TurnSet /\ t.code # "auth" /\ t.reached
  <2>0. ASSUME NEW w \in {"completed", "failed", "cancelled", "invalid"},
               NEW c \in {"none", "other"}, NEW f \in BOOLEAN,
               NEW b \in {"none", "subscription_included", "unsafe"},
               NEW x \in BOOLEAN, NEW z \in 0..2,
               t = Turn(w, c, b, f, x, z, TRUE)
        PROVE  t \in TurnSet /\ t.code # "auth" /\ t.reached
    <3>1. (z = 0) \in BOOLEAN /\ c \in Codes /\ z \in Nat
      BY DEF Codes
    <3>2. t = [terminal |-> w, code |-> c, billing |-> b, fallback |-> f,
               text |-> x, state |-> z, clean |-> (z = 0), reached |-> TRUE]
      BY <2>0 DEF Turn
    <3>3. t \in TurnSet
      BY Zenon, <3>1, <3>2 DEF TurnSet
    <3> QED
      BY <3>2, <3>3
  <2>1. \/ \E z \in 0..2 : t = Good(z)
        \/ \E b \in {"none", "subscription_included", "unsafe"},
              f \in BOOLEAN :
             t = Turn("completed", "none", b, f, FALSE, 1, TRUE)
        \/ \E b \in {"none", "unsafe"} :
             t = Turn("failed", "other", b, FALSE, FALSE, 1, TRUE)
        \/ \E w \in {"cancelled", "invalid"} :
             t = Turn(w, "none", "none", FALSE, FALSE, 0, TRUE)
    BY <1>3 DEF ProviderAnswers
  <2>2. ASSUME NEW z \in 0..2, t = Good(z)
        PROVE  t \in TurnSet /\ t.code # "auth" /\ t.reached
    BY <2>0, <2>2 DEF Good
  <2>3. ASSUME NEW b \in {"none", "subscription_included", "unsafe"},
               NEW f \in BOOLEAN,
               t = Turn("completed", "none", b, f, FALSE, 1, TRUE)
        PROVE  t \in TurnSet /\ t.code # "auth" /\ t.reached
    <3>1. 1 \in 0..2 /\ FALSE \in BOOLEAN
      OBVIOUS
    <3> QED
      BY <2>0, <2>3, <3>1
  <2>4. ASSUME NEW b \in {"none", "unsafe"},
               t = Turn("failed", "other", b, FALSE, FALSE, 1, TRUE)
        PROVE  t \in TurnSet /\ t.code # "auth" /\ t.reached
    <3>1. 1 \in 0..2 /\ FALSE \in BOOLEAN
      OBVIOUS
    <3> QED
      BY <2>0, <2>4, <3>1
  <2>5. ASSUME NEW w \in {"cancelled", "invalid"},
               t = Turn(w, "none", "none", FALSE, FALSE, 0, TRUE)
        PROVE  t \in TurnSet /\ t.code # "auth" /\ t.reached
    <3>1. 0 \in 0..2 /\ FALSE \in BOOLEAN
      OBVIOUS
    <3> QED
      BY <2>0, <2>5, <3>1
  <2> QED
    BY Zenon, <2>1, <2>2, <2>3, <2>4, <2>5
<1>4. ASSUME NEW c \in {"auth", "other", "image_invalid", "state_invalid"},
             t = Refused(c)
      PROVE  Meant(row, k, t)
  BY <1>2, <1>4 DEF Refused, Turn, Meant, Codes
<1>5. CASE s.meets = "answer"
  <2>1. t \in ProviderAnswers \/ t = Refused("auth") \/ t = Refused("other")
    BY <1>5 DEF TurnsOf
  <2>2. CASE t \in ProviderAnswers
    BY <1>3, <1>5, <2>2 DEF Meant
  <2> QED
    BY <1>4, <2>1, <2>2
<1>6. CASE s.meets # "answer"
  <2>1. \/ t = Refused(s.meets) \/ t = Refused("auth")
        \/ t = Refused("other")
    BY <1>6 DEF TurnsOf
  <2> QED
    BY <1>1, <1>4, <1>6, <2>1
<1> QED
  BY <1>5, <1>6

(* One more turn of a case is one more that the provider was asked for, or *)
(* none.                                                                   *)
LEMMA AskedGrows ==
  ASSUME NEW ts \in Seq(TurnSet), NEW t \in TurnSet
  PROVE  /\ IsFiniteSet(Asked(ts)) /\ Cardinality(Asked(ts)) \in Nat
         /\ Cardinality(Asked(Append(ts, t))) =
              Cardinality(Asked(ts)) + (IF t.reached THEN 1 ELSE 0)
<1>1. Len(ts) \in Nat /\ IsFiniteSet(1..Len(ts))
  BY LenProperties, FS_Interval
<1>2. IsFiniteSet(Asked(ts))
  BY <1>1, FS_Subset DEF Asked
<1>3. Asked(Append(ts, t)) =
        IF t.reached THEN Asked(ts) \cup {Len(ts) + 1} ELSE Asked(ts)
  <2>1. /\ Len(Append(ts, t)) = Len(ts) + 1
        /\ Append(ts, t)[Len(ts) + 1] = t
        /\ \A i \in 1..Len(ts) : Append(ts, t)[i] = ts[i]
    BY AppendProperties
  <2>2. 1..Len(ts) + 1 = 1..Len(ts) \cup {Len(ts) + 1}
    BY <1>1
  <2> QED
    BY <2>1, <2>2 DEF Asked
<1>4. Len(ts) + 1 \notin Asked(ts)
  BY <1>1 DEF Asked
<1>5. Cardinality(Asked(ts) \cup {Len(ts) + 1}) = Cardinality(Asked(ts)) + 1
  BY <1>2, <1>4, FS_AddElement
<1>6. Cardinality(Asked(ts)) \in Nat
  BY <1>2, FS_CardinalityType
<1>7. CASE t.reached
  BY <1>2, <1>3, <1>5, <1>6, <1>7
<1>8. CASE ~t.reached
  BY <1>2, <1>3, <1>6, <1>8
<1> QED
  BY <1>7, <1>8

-----------------------------------------------------------------------------
(* The bundle of a case that ran to its end.                               *)
LEMMA ActiveCompletes ==
  ASSUME NEW row \in LiveRows \ {"native"}, NEW ts \in Seq(TurnSet), NEW hs,
         Len(ts) = TotalOf(row),
         \A i \in 1..Len(ts) : Meant(row, i, ts[i]),
         CaseOk(row, ts, hs)
  PROVE  {i \in DOMAIN ts : ts[i].billing # "none"} = Asked(ts)
<1>1. DOMAIN ts = 1..Len(ts) /\ Len(ts) \in Nat
  BY LenProperties
<1>2. ASSUME NEW i \in 1..Len(ts)
      PROVE  LiveOk(ts[i]) \/ MeetsAt(row, i) # "answer"
  <2>0. row \in {"source_docs", "image", "memory", "threads", "restart",
                 "instruction"}
    BY DEF LiveRows, Script
  <2>1. CASE row = "source_docs"
    <3>1. i \in {1, 2}
      BY <1>2, <2>1 DEF TotalOf, LengthOf
    <3> QED
      BY <2>1, <3>1 DEF CaseOk
  <2>2. CASE row = "image"
    <3>1. i \in {1, 2}
      BY <1>2, <2>2 DEF TotalOf, LengthOf
    <3> QED
      BY <2>2, <3>1 DEF CaseOk, MeetsAt
  <2>3. CASE row = "memory"
    <3>1. i \in {1, 2, 3}
      BY <1>2, <2>3 DEF TotalOf, LengthOf
    <3> QED
      BY <2>3, <3>1 DEF CaseOk, MeetsAt
  <2>4. CASE row = "threads"
    BY <1>1, <1>2, <2>4 DEF CaseOk
  <2>5. CASE row = "restart"
    <3>1. i \in {1, 2}
      BY <1>2, <2>5 DEF TotalOf, LengthOf
    <3> QED
      BY <2>5, <3>1 DEF CaseOk
  <2>6. CASE row = "instruction"
    <3>1. i \in {1}
      BY <1>2, <2>6 DEF TotalOf, LengthOf
    <3> QED
      BY <2>6, <3>1 DEF CaseOk
  <2> QED
    BY <2>0, <2>1, <2>2, <2>3, <2>4, <2>5, <2>6
<1>3. \A i \in 1..Len(ts) : ts[i].billing # "none" <=> ts[i].reached
  <2>1. TAKE i \in 1..Len(ts)
  <2>2. Meant(row, i, ts[i])
    OBVIOUS
  <2>3. CASE LiveOk(ts[i])
    BY <2>2, <2>3 DEF Meant, LiveOk
  <2>4. CASE MeetsAt(row, i) # "answer"
    BY <2>2, <2>4 DEF Meant
  <2> QED
    BY <1>2, <2>3, <2>4
<1> QED
  BY <1>1, <1>3 DEF Asked

(* The verdict of an active case on a whole script: what it counts is what *)
(* was asked.                                                              *)
LEMMA ActiveVerdictHolds ==
  ASSUME NEW row \in LiveRows \ {"native"}, NEW ts \in Seq(TurnSet), NEW hs,
         Len(ts) = TotalOf(row),
         \A i \in 1..Len(ts) : Meant(row, i, ts[i])
  PROVE  LET b == ActiveVerdict(row, ts, hs) IN
         /\ b \in BundleSet
         /\ b.cls = "COMPLETE" => b.count = Cardinality(Asked(ts))
         /\ b.reason = "auth" => Cardinality(Asked(ts)) = 0
         /\ Unsafe(ts) => b.cls = "VERIFIED_FAILURE"
<1> DEFINE b == ActiveVerdict(row, ts, hs)
<1>0. DOMAIN ts = 1..Len(ts) /\ Len(ts) \in Nat
  BY LenProperties
<1>1. ProviderTurns(ts) \in Nat
  <2> DEFINE T == {i \in DOMAIN ts : ts[i].billing # "none"}
  <2>1. IsFiniteSet(1..Len(ts))
    BY <1>0, FS_Interval
  <2>2. IsFiniteSet(T)
    BY <1>0, <2>1, FS_Subset
  <2>3. Cardinality(T) \in Nat
    BY <2>2, FS_CardinalityType
  <2> QED
    BY <2>3 DEF ProviderTurns
<1>2. ASSUME AuthRefused(ts, hs)
      PROVE  Asked(ts) = {} /\ ~Unsafe(ts)
  <2>1. \A i \in 1..Len(ts) : ~ts[i].reached /\ ~ts[i].fallback
                              /\ ts[i].billing = "none"
    BY <1>0, <1>2 DEF AuthRefused, Meant
  <2> QED
    BY <1>0, <2>1 DEF Asked, Unsafe
<1>3. CASE AuthRefused(ts, hs)
  <2>1. b = [cls |-> "ENVIRONMENT_BLOCKED", reason |-> "auth", count |-> 0]
    BY <1>3 DEF ActiveVerdict, Blocked, Bundle
  <2>2. Cardinality(Asked(ts)) = 0
    BY <1>2, <1>3, FS_EmptySet
  <2> QED
    BY <1>2, <1>3, <2>1, <2>2 DEF BundleSet, Reasons
<1>4. CASE ~AuthRefused(ts, hs) /\ Unsafe(ts)
  <2>1. b = [cls |-> "VERIFIED_FAILURE", reason |-> "unsafe",
             count |-> ProviderTurns(ts)]
    BY <1>4 DEF ActiveVerdict, Bundle
  <2> QED
    BY <1>1, <2>1 DEF BundleSet, Reasons
<1>5. CASE ~AuthRefused(ts, hs) /\ ~Unsafe(ts) /\ Unbilled(ts)
  <2>1. b = [cls |-> "ENVIRONMENT_BLOCKED", reason |-> "unbilled",
             count |-> 0]
    BY <1>5 DEF ActiveVerdict, Blocked, Bundle
  <2> QED
    BY <1>5, <2>1 DEF BundleSet, Reasons
<1>6. CASE ~AuthRefused(ts, hs) /\ ~Unsafe(ts) /\ ~Unbilled(ts)
  <2>1. CASE CaseOk(row, ts, hs)
    <3>1. b = [cls |-> "COMPLETE", reason |-> "none",
               count |-> ProviderTurns(ts)]
      BY <1>6, <2>1 DEF ActiveVerdict, Bundle
    <3>2. ProviderTurns(ts) = Cardinality(Asked(ts))
      BY <2>1, ActiveCompletes DEF ProviderTurns
    <3> QED
      BY <1>1, <1>6, <3>1, <3>2 DEF BundleSet, Reasons
  <2>2. CASE ~CaseOk(row, ts, hs)
    <3>1. b = [cls |-> "VERIFIED_FAILURE", reason |-> "behavior",
               count |-> ProviderTurns(ts)]
      BY <1>6, <2>2 DEF ActiveVerdict, Bundle
    <3> QED
      BY <1>1, <3>1 DEF BundleSet, Reasons
  <2> QED
    BY <2>1, <2>2
<1> QED
  BY <1>3, <1>4, <1>5, <1>6

(* The verdict of a native case: an unsafe turn is never excused. *)
LEMMA NativeVerdictHolds ==
  ASSUME NEW t \in TurnSet, NEW h, NEW grade \in NativeGrades
  PROVE  LET b == NativeVerdict(t, h, grade) IN
         /\ b \in BundleSet /\ b.reason # "auth"
         /\ b.cls = "COMPLETE" => t.terminal = "completed" /\ b.count = 1
         /\ t.billing = "unsafe" \/ (t.fallback /\ t.billing # "none") =>
              b.cls = "VERIFIED_FAILURE"
<1>1. grade \in Reasons /\ grade # "auth"
  BY DEF NativeGrades, Reasons
<1>2. \A cls \in {"COMPLETE", "VERIFIED_FAILURE", "ENVIRONMENT_BLOCKED"},
         reason \in Reasons :
        /\ Bundle(cls, reason, 1) \in BundleSet
        /\ Bundle(cls, reason, 1).cls = cls
        /\ Bundle(cls, reason, 1).reason = reason
        /\ Bundle(cls, reason, 1).count = 1
  BY DEF Bundle, BundleSet
<1>3. {"none", "unsafe", "unbilled", "fallback", "recovery"} \subseteq Reasons
  BY DEF Reasons
<1> QED
  BY <1>1, <1>2, <1>3 DEF NativeVerdict

(* The verdict of either suite on a case that came to its end. *)
LEMMA VerdictHolds ==
  ASSUME NEW c \in Cases, NEW grade \in NativeGrades,
         RunningCase(c),
         c.broke = "no" => /\ c.group = GroupsOf(c.row)
                           /\ c.here = LengthOf(c.row)
  PROVE  LET b == Verdict(c, grade) IN
         /\ b \in BundleSet
         /\ b.cls = "COMPLETE" => b.count = c.spent
         /\ b.reason = "auth" => c.spent = 0
         /\ /\ c.broke = "no"
            /\ \E i \in DOMAIN c.turns :
                 \/ c.turns[i].billing = "unsafe"
                 \/ /\ c.turns[i].fallback
                    /\ c.row = "native" => c.turns[i].billing # "none"
            => b.cls = "VERIFIED_FAILURE"
<1> DEFINE b == Verdict(c, grade)
<1>1. /\ c.turns \in Seq(TurnSet) /\ c.row \in LiveRows
      /\ c.broke \in {"no", "raised", "timeout"}
      /\ DOMAIN c.turns = 1..Len(c.turns)
  BY LenProperties DEF Cases, RunningCase
<1>2. CASE c.broke # "no"
  <2>1. b \in {[cls |-> "VERIFIED_FAILURE", reason |-> "raised", count |-> 1],
               [cls |-> "VERIFIED_FAILURE", reason |-> "raised", count |-> 0],
               [cls |-> "ENVIRONMENT_BLOCKED", reason |-> "timeout",
                count |-> 0]}
    BY <1>1, <1>2 DEF Verdict, Bundle, Blocked
  <2> HIDE DEF b
  <2>2. b \in BundleSet
    BY <2>1 DEF BundleSet, Reasons
  <2>3. b.cls # "COMPLETE" /\ b.reason # "auth"
    BY <2>1
  <2> QED
    BY <1>2, <2>2, <2>3 DEF b
<1>3. CASE c.broke = "no" /\ c.row = "native"
  <2>1. Len(c.turns) = 1
    BY <1>3 DEF RunningCase, GroupsOf, LengthOf
  <2>2. c.turns[1] \in TurnSet /\ Meant("native", 1, c.turns[1])
    BY <1>1, <1>3, <2>1 DEF RunningCase, Meant
  <2>3. b = NativeVerdict(c.turns[1], c.hosts[1], grade)
    BY <1>3 DEF Verdict
  <2>4. c.turns[1].reached => Asked(c.turns) = {1}
    BY <2>1 DEF Asked
  <2>5. c.turns[1].reached => c.spent = 1
    BY <1>3, <2>4, FS_Singleton DEF RunningCase
  <2>6. /\ b \in BundleSet /\ b.reason # "auth"
        /\ b.cls = "COMPLETE" => c.turns[1].terminal = "completed"
                                 /\ b.count = 1
        /\ \/ c.turns[1].billing = "unsafe"
           \/ c.turns[1].fallback /\ c.turns[1].billing # "none"
           => b.cls = "VERIFIED_FAILURE"
    BY <2>2, <2>3, NativeVerdictHolds
  <2> HIDE DEF b
  <2>7. b.cls = "COMPLETE" => b.count = c.spent
    BY <2>2, <2>5, <2>6 DEF Meant
  <2>8. \A i \in DOMAIN c.turns : i = 1
    BY <1>1, <2>1
  <2>9. ASSUME \E i \in DOMAIN c.turns :
                 \/ c.turns[i].billing = "unsafe"
                 \/ /\ c.turns[i].fallback
                    /\ c.row = "native" => c.turns[i].billing # "none"
        PROVE  b.cls = "VERIFIED_FAILURE"
    BY <1>3, <2>6, <2>8, <2>9
  <2> QED
    BY <2>6, <2>7, <2>9 DEF b
<1>4. CASE c.broke = "no" /\ c.row # "native"
  <2>1. b = ActiveVerdict(c.row, c.turns, c.hosts)
    BY <1>4 DEF Verdict
  <2>2. Len(c.turns) = TotalOf(c.row)
    BY <1>4, LengthIs DEF RunningCase
  <2>3. c.spent = Cardinality(Asked(c.turns))
    BY <1>4 DEF RunningCase
  <2>4. \A i \in 1..Len(c.turns) : Meant(c.row, i, c.turns[i])
    BY DEF RunningCase
  <2>5. /\ b \in BundleSet
        /\ b.cls = "COMPLETE" => b.count = Cardinality(Asked(c.turns))
        /\ b.reason = "auth" => Cardinality(Asked(c.turns)) = 0
        /\ Unsafe(c.turns) => b.cls = "VERIFIED_FAILURE"
    BY <1>1, <1>4, <2>1, <2>2, <2>4, ActiveVerdictHolds
  <2> HIDE DEF b
  <2>6. ASSUME \E i \in DOMAIN c.turns :
                 \/ c.turns[i].billing = "unsafe"
                 \/ /\ c.turns[i].fallback
                    /\ c.row = "native" => c.turns[i].billing # "none"
        PROVE  b.cls = "VERIFIED_FAILURE"
    BY <2>5, <2>6 DEF Unsafe
  <2> QED
    BY <2>3, <2>5, <2>6 DEF b
<1> QED
  BY <1>2, <1>3, <1>4

-----------------------------------------------------------------------------
(* Entering a case, or not.                                                *)
LEMMA NoCaseIs == NoCase \in Cases
<1>1. \A d \in BOOLEAN : NewHost(d) \in Hosts
  BY DEF NewHost, Hosts
<1>2. <<NewHost(FALSE), NewHost(FALSE)>> \in [{1, 2} -> Hosts]
  <2> DEFINE h == NewHost(FALSE)
  <2>1. h \in Hosts
    BY <1>1
  <2> HIDE DEF h
  <2>2. 1..2 = {1, 2}
    OBVIOUS
  <2>3. <<h, h>> \in [1..2 -> Hosts]
    BY <2>1
  <2> QED
    BY <2>2, <2>3 DEF h
<1>3. NoCase.turns = <<>> /\ <<>> \in Seq(TurnSet)
  BY DEF NoCase
<1> QED
  BY <1>2, <1>3 DEF NoCase, Cases, BundleSet, Reasons

(* Before the first case nothing is spent and nothing open. *)
LEMMA CaseInvInit == SuitesInit => CaseInv
<1> SUFFICES ASSUME SuitesInit
             PROVE  CaseInv
  OBVIOUS
<1>1. case \in Cases
  BY NoCaseIs DEF SuitesInit
<1>2. CaseHolds
  BY DEF SuitesInit, NoCase, CaseHolds, TurnsAreCounted, UnsafeIsNotExcused,
         RuntimesReleased
<1>3. case = NoCase /\ case.step = "start"
  BY DEF SuitesInit, NoCase
<1> QED
  BY <1>1, <1>2, <1>3 DEF CaseInv

(* A case that ends without having begun.                                  *)
LEMMA NothingSpent ==
  ASSUME case.step = "start", case = NoCase,
         NEW d \in Cases, d.step = "done", d.spent = 0, d.open = {},
         d.turns = <<>>, d.bundle.count = 0, case' = d
  PROVE  CaseInv'
<1>1. DOMAIN d.turns = {}
  OBVIOUS
<1> QED
  BY <1>1 DEF CaseInv, CaseHolds, TurnsAreCounted, UnsafeIsNotExcused,
              RuntimesReleased, Cases

(* The first turn of a group, the case with it.                            *)
LEMMA OpenGroupIs ==
  ASSUME NEW c \in Cases, NEW g \in 1..GroupsOf(c.row),
         c.row \in LiveRows, c.open = {}, c.broke = "no",
         Len(c.turns) = g - 1,
         \A i \in 1..Len(c.turns) : Meant(c.row, i, c.turns[i]),
         MinimumTurns[c.row] <= c.budget, c.spent <= AskedOf(c.row, g - 1),
         c.spent = Cardinality(Asked(c.turns)), c.bundle = NoCase.bundle
  PROVE  LET d == OpenGroup(c, g) IN
         /\ d \in Cases /\ d.step = "turn" /\ RunningCase(d) /\ AtTurn(d)
         /\ d.bundle = NoCase.bundle /\ d.spent = c.spent
<1> DEFINE order == Script[c.row][g].runtimes
           opened == {order[i] : i \in DOMAIN order}
<1>1. opened = OpenOf(c.row, g)
  <2>1. CASE g = 2
    <3>1. order = <<"b">>
      BY <2>1, ScriptIs
    <3> QED
      BY <2>1, <3>1 DEF OpenOf
  <2>2. CASE g # 2 /\ c.row = "threads"
    <3>1. order = <<"a", "b">>
      BY <2>2, ScriptIs
    <3>2. DOMAIN order = {1, 2} /\ order[1] = "a" /\ order[2] = "b"
      BY <3>1
    <3> QED
      BY <2>2, <3>2 DEF OpenOf
  <2>3. CASE g # 2 /\ c.row # "threads"
    <3>1. order = <<"a">>
      BY <2>3, ScriptIs
    <3> QED
      BY <2>3, <3>1 DEF OpenOf
  <2> QED
    BY <2>1, <2>2, <2>3
<1>2. g \in {1, 2}
  BY DEF GroupsOf
<1>3. OpenOf(c.row, g) \in SUBSET {"a", "b"}
  BY DEF OpenOf
<1> HIDE DEF opened
<1> DEFINE d == [c EXCEPT !.step = "turn", !.group = g, !.here = 0,
                          !.closed = 0, !.open = opened]
<1>4. OpenGroup(c, g) = d
  BY DEF OpenGroup, Cases, opened
<1>5. d \in Cases
  BY <1>1, <1>2, <1>3 DEF Cases
<1>6. /\ d.row = c.row /\ d.group = g /\ d.here = 0 /\ d.turns = c.turns
      /\ d.budget = c.budget /\ d.spent = c.spent /\ d.bundle = c.bundle
      /\ d.broke = c.broke /\ d.closed = 0 /\ d.step = "turn"
      /\ d.open = opened
  BY DEF Cases
<1>7. c.spent \in Nat /\ c.spent <= MinimumTurns[c.row]
  BY LengthIs DEF Cases
<1>8. 0 <= LengthOf(c.row)
  BY LengthIs
<1> HIDE DEF d
<1>9. RunningCase(d)
  BY <1>2, <1>6, <1>7, <1>8 DEF RunningCase
<1>10. AtTurn(d)
  BY <1>1, <1>2, <1>6 DEF AtTurn
<1> QED
  BY <1>4, <1>5, <1>6, <1>9, <1>10

(* A case that is under way has nothing to answer for yet.                 *)
LEMMA UnderWay ==
  ASSUME NEW d \in Cases, d.step \in {"turn", "close", "broken"},
         RunningCase(d), case' = d,
         d.step = "turn" => AtTurn(d), d.step = "close" => AtClose(d),
         d.step = "broken" => d.broke # "no" /\ d.open \subseteq {"b"}
  PROVE  CaseInv'
<1>1. /\ d.spent \in Nat /\ d.budget \in Nat
      /\ MinimumTurns[d.row] \in Nat
  BY LengthIs DEF Cases, RunningCase
<1>2. d.spent <= d.budget
  BY <1>1 DEF RunningCase
<1>3. d.bundle.cls = "none" /\ d.bundle.reason = "none"
  BY DEF RunningCase, NoCase
<1>4. CaseHolds'
  BY <1>2, <1>3 DEF CaseHolds, TurnsAreCounted, UnsafeIsNotExcused,
                    RuntimesReleased
<1> QED
  BY <1>4 DEF CaseInv

(* A live case passes or fails its gates. *)
LEMMA EnterKeeps ==
  ASSUME CaseInv, NEW row \in LiveRows, NEW held, NEW budget \in Nat,
         Enter(row, held, budget)
  PROVE  CaseInv'
<1> DEFINE hosts == [case.hosts EXCEPT ![1] = NewHost(row \in Denying)]
           c == [case EXCEPT !.row = row, !.budget = budget,
                             !.hosts[1] = NewHost(row \in Denying)]
<1>1. case = NoCase /\ case \in Cases /\ case.step = "start"
  BY DEF CaseInv, Enter
<1>2. NewHost(row \in Denying) \in Hosts
  <2>1. \A d \in BOOLEAN : NewHost(d) \in Hosts
    BY DEF NewHost, Hosts
  <2>2. (row \in Denying) \in BOOLEAN
    OBVIOUS
  <2> QED
    BY Zenon, <2>1, <2>2
<1>3. hosts \in [{1, 2} -> Hosts]
  BY <1>1, <1>2 DEF Cases
<1>4. c = [case EXCEPT !.row = row, !.budget = budget, !.hosts = hosts]
  BY <1>1 DEF Cases
<1> HIDE DEF hosts
<1>5. c \in Cases
  BY <1>1, <1>3, <1>4 DEF Cases
<1>6. /\ c.row = row /\ c.budget = budget /\ c.turns = <<>> /\ c.spent = 0
      /\ c.open = {} /\ c.broke = "no" /\ c.bundle = NoCase.bundle
  BY <1>1, <1>4 DEF NoCase, Cases
<1>7. case' = IF held = Gates /\ budget >= MinimumTurns[row]
              THEN OpenGroup(c, 1) ELSE Return(c, Blocked("gate"))
  BY DEF Enter
<1> HIDE DEF c
<1>8. CASE held = Gates /\ budget >= MinimumTurns[row]
  <2>1. 1 \in 1..GroupsOf(row) /\ MinimumTurns[row] <= budget
    BY <1>8, LengthIs
  <2>2. Len(c.turns) = 0 /\ Asked(c.turns) = {}
    BY <1>6 DEF Asked
  <2>3. Cardinality(Asked(c.turns)) = 0 /\ AskedOf(row, 0) = 0
    BY <2>2, FS_EmptySet DEF AskedOf
  <2> DEFINE d == OpenGroup(c, 1)
  <2>4. d \in Cases /\ d.step = "turn" /\ RunningCase(d) /\ AtTurn(d)
    BY <1>5, <1>6, <2>1, <2>2, <2>3, OpenGroupIs
  <2> HIDE DEF d
  <2>5. case' = d
    BY <1>7, <1>8 DEF d
  <2> QED
    BY <2>4, <2>5, UnderWay
<1>9. CASE ~(held = Gates /\ budget >= MinimumTurns[row])
  <2> DEFINE d == Return(c, Blocked("gate"))
  <2>1. d = [c EXCEPT !.step = "done",
                      !.bundle = [cls |-> "ENVIRONMENT_BLOCKED",
                                  reason |-> "gate", count |-> 0]]
    BY DEF Return, Blocked, Bundle
  <2> DEFINE blocked == [cls |-> "ENVIRONMENT_BLOCKED",
                         reason |-> "gate", count |-> 0]
  <2>4. blocked \in BundleSet /\ blocked.count = 0
    BY DEF BundleSet, Reasons
  <2>5. d = [c EXCEPT !.step = "done", !.bundle = blocked]
    BY <2>1
  <2> HIDE DEF blocked
  <2>2. /\ d \in Cases /\ d.step = "done" /\ d.spent = 0 /\ d.open = {}
        /\ d.turns = <<>> /\ d.bundle.count = 0
    BY <1>5, <1>6, <2>4, <2>5 DEF Cases
  <2> HIDE DEF d
  <2>3. case' = d
    BY <1>7, <1>9 DEF d
  <2> QED
    BY <1>1, <2>2, <2>3, NothingSpent
<1> QED
  BY <1>8, <1>9

(* A case that asks no provider returns at once. *)
LEMMA EnterOtherKeeps ==
  ASSUME CaseInv, NEW exit \in {"gate", "zero", "nonzero", "unavailable"},
         EnterFocused(exit) \/ EnterDelegation
  PROVE  CaseInv'
<1>1. case = NoCase /\ case \in Cases /\ case.step = "start"
  BY DEF CaseInv, EnterFocused, EnterDelegation
<1>2. PICK row \in {"focused", "delegation"}, b \in BundleSet :
        /\ b.count = 0
        /\ case' = [case EXCEPT !.row = row, !.step = "done", !.bundle = b]
  <2>1. CASE EnterFocused(exit)
    <3>1. FocusedBundle(exit) \in BundleSet /\ FocusedBundle(exit).count = 0
      BY DEF FocusedBundle, Blocked, Bundle, BundleSet, Reasons
    <3>2. case' = [case EXCEPT !.row = "focused", !.step = "done",
                               !.bundle = FocusedBundle(exit)]
      BY <1>1, <2>1 DEF EnterFocused, Return, Cases
    <3> QED
      BY <3>1, <3>2
  <2>2. CASE EnterDelegation
    <3> DEFINE b == Blocked("delegate")
    <3>1. b \in BundleSet /\ b.count = 0
      BY DEF Blocked, Bundle, BundleSet, Reasons
    <3>2. case' = [case EXCEPT !.row = "delegation", !.step = "done",
                               !.bundle = b]
      BY <1>1, <2>2 DEF EnterDelegation, Return, Cases
    <3> QED
      BY <3>1, <3>2
  <2> QED
    BY <2>1, <2>2
<1> DEFINE d == [case EXCEPT !.row = row, !.step = "done", !.bundle = b]
<1>3. d \in Cases
  BY <1>1 DEF Cases
<1>4. /\ d.step = "done" /\ d.spent = 0 /\ d.open = {} /\ d.turns = <<>>
      /\ d.bundle.count = 0
  BY <1>1, <1>2 DEF NoCase, Cases
<1> HIDE DEF d
<1>5. case' = d
  BY <1>2 DEF d
<1> QED
  BY <1>1, <1>3, <1>4, <1>5, NothingSpent

(* A group has opened the runtimes that its clause closes.                 *)
LEMMA OpenIsOrder ==
  ASSUME NEW row \in LiveRows, NEW g \in 1..GroupsOf(row)
  PROVE  LET order == Script[row][g].runtimes IN
         /\ OpenOf(row, g) = {order[i] : i \in 1..Len(order)}
         /\ Len(order) \in Nat
<1> DEFINE order == Script[row][g].runtimes
<1>1. g \in {1, 2}
  BY DEF GroupsOf
<1>2. CASE g = 2
  <2>1. order = <<"b">>
    BY <1>2, ScriptIs
  <2> QED
    BY <1>2, <2>1 DEF OpenOf
<1>3. CASE g = 1 /\ row = "threads"
  <2>1. order = <<"a", "b">>
    BY <1>3, ScriptIs
  <2>2. 1..Len(order) = {1, 2} /\ order[1] = "a" /\ order[2] = "b"
        /\ Len(order) = 2
    BY <2>1
  <2> HIDE DEF order
  <2>3. OpenOf(row, g) = {"a", "b"}
    BY <1>3 DEF OpenOf
  <2>4. {order[i] : i \in 1..Len(order)} = {"a", "b"}
    BY <2>2
  <2> QED
    BY <2>2, <2>3, <2>4 DEF order
<1>4. CASE g = 1 /\ row # "threads"
  <2>1. order = <<"a">>
    BY <1>4, ScriptIs
  <2> QED
    BY <1>4, <2>1 DEF OpenOf
<1> QED
  BY <1>1, <1>2, <1>3, <1>4

(* One turn more, of the provider or not, stays within what the row needs. *)
LEMMA OneMoreFits ==
  ASSUME NEW row \in LiveRows, NEW g \in 1..GroupsOf(row), NEW here \in Nat,
         here + 1 \in 1..LengthOf(row), NEW n \in Nat, n = g - 1 + here,
         NEW r \in BOOLEAN, r => MeetsAt(row, n + 1) = "answer",
         NEW s \in Nat, s <= AskedOf(row, n)
  PROVE  LET spent == s + (IF r THEN 1 ELSE 0) IN
         /\ spent \in Nat /\ spent <= AskedOf(row, n + 1)
         /\ spent <= MinimumTurns[row]
<1> DEFINE spent == s + (IF r THEN 1 ELSE 0)
<1>1. spent \in Nat
  OBVIOUS
<1>2. AskedOf(row, n) \in Nat /\ AskedOf(row, n + 1) \in Nat
      /\ AskedOf(row, n) <= AskedOf(row, n + 1)
  BY DEF AskedOf
<1>3. r => AskedOf(row, n) + 1 <= AskedOf(row, n + 1)
  BY DEF AskedOf, MeetsAt
<1>4. spent <= AskedOf(row, n + 1)
  BY <1>2, <1>3
<1>5. n + 1 <= TotalOf(row) /\ TotalOf(row) \in Nat
  <2> DEFINE w == GroupsOf(row)
             l == LengthOf(row)
  <2>1. w \in {1, 2} /\ l \in 1..4 /\ TotalOf(row) = w - 1 + l
    BY LengthIs
  <2>2. w \in Int /\ l \in Int /\ g \in Int /\ g <= w /\ here + 1 <= l
    BY <2>1
  <2> HIDE DEF w, l
  <2> QED
    BY <2>1, <2>2
<1>6. AskedOf(row, n + 1) <= AskedOf(row, TotalOf(row))
  BY <1>5 DEF AskedOf
<1>7. AskedOf(row, TotalOf(row)) = MinimumTurns[row]
  BY ScriptIs
<1> QED
  BY <1>1, <1>2, <1>4, <1>6, <1>7, LengthIs

-----------------------------------------------------------------------------
(* The turns of a case.                                                    *)
LEMMA CaseTurnKeeps ==
  ASSUME CaseInv, NEW t, NEW calls \in 0..2, CaseTurn(t, calls)
  PROVE  CaseInv'
<1> DEFINE row == case.row
           n == Len(case.turns)
           turns == Append(case.turns, t)
           hosts == case'.hosts
           spent == case.spent + (IF t.reached THEN 1 ELSE 0)
           called == case'.called
<1>1. /\ case \in Cases /\ case.step = "turn" /\ RunningCase(case)
      /\ AtTurn(case) /\ case.here < Len(GroupOf(case).turns)
      /\ t \in TurnsOf(GroupOf(case).turns[case.here + 1])
  BY DEF CaseInv, CaseTurn
<1>2. /\ row \in LiveRows /\ case.group \in 1..GroupsOf(row)
      /\ case.group \in {1, 2} /\ case.here \in Nat /\ case.spent \in Nat
      /\ case.turns \in Seq(TurnSet) /\ case.hosts \in [{1, 2} -> Hosts]
      /\ n = case.group - 1 + case.here
  BY <1>1, LengthIs DEF Cases, RunningCase
<1>3. /\ case.here < LengthOf(row) /\ case.here + 1 \in 1..LengthOf(row)
      /\ GroupOf(case).turns[case.here + 1].meets = MeetsAt(row, n + 1)
  <2>1. Len(GroupOf(case).turns) = LengthOf(row)
    BY <1>2, ScriptIs DEF GroupOf
  <2>2. case.here < LengthOf(row) /\ case.here + 1 \in 1..LengthOf(row)
    BY <1>1, <1>2, <2>1, LengthIs
  <2>3. Script[row][case.group].turns[case.here + 1].meets =
          MeetsAt(row, case.group + (case.here + 1) - 1)
    BY <1>2, <2>2, ScriptIs
  <2>4. case.group + (case.here + 1) - 1 = n + 1
    BY <1>2
  <2> QED
    BY <2>2, <2>3, <2>4 DEF GroupOf
<1>4. Meant(row, n + 1, t) /\ t \in TurnSet
  BY <1>1, <1>3, TurnIsMeant DEF Meant
<1>5. /\ turns \in Seq(TurnSet) /\ Len(turns) = n + 1
      /\ turns[n + 1] = t /\ \A i \in 1..n : turns[i] = case.turns[i]
  BY <1>2, <1>4, AppendProperties
<1>6. \A i \in 1..Len(turns) : Meant(row, i, turns[i])
  <2>1. \A i \in 1..n : Meant(row, i, case.turns[i])
    BY <1>1 DEF RunningCase
  <2>2. n \in Nat /\ 1..n + 1 = 1..n \cup {n + 1}
    BY <1>2, LenProperties
  <2> QED
    BY <1>4, <1>5, <2>1, <2>2
<1>7. spent \in Nat /\ spent = Cardinality(Asked(turns))
  <2>1. case.spent = Cardinality(Asked(case.turns))
    BY <1>1 DEF RunningCase, AtTurn
  <2> QED
    BY <1>2, <1>4, <2>1, AskedGrows
<1>8. spent <= AskedOf(row, n + 1) /\ spent <= MinimumTurns[row]
  <2>1. case.spent <= AskedOf(row, n) /\ n \in Nat
    BY <1>1, <1>2, LenProperties DEF AtTurn
  <2>2. t.reached \in BOOLEAN
        /\ (t.reached => MeetsAt(row, n + 1) = "answer")
    BY <1>4 DEF Meant, TurnSet
  <2> QED
    BY <1>2, <1>3, <2>1, <2>2, OneMoreFits
<1>9. case' = [case EXCEPT !.here = case.here + 1, !.turns = turns,
                           !.spent = spent, !.called = called,
                           !.hosts = case.hosts]
      /\ called \in BOOLEAN
  <2>1. \A h : /\ (CASE calls = 0 -> h
                     [] calls = 1 -> Bridged(h, Tool(case))
                     [] calls = 2 -> Bridged(Bridged(h, Tool(case)),
                                             Tool(case))) = h
    BY BridgedIs
  <2>2. [case.hosts EXCEPT ![case.group] = case.hosts[case.group]] = case.hosts
    BY <1>2
  <2>3. case' = [case EXCEPT
          !.here = @ + 1, !.turns = Append(@, t),
          !.spent = @ + (IF t.reached THEN 1 ELSE 0),
          !.called = @ \/ (calls > 0 /\ case.group = 1),
          !.hosts = [@ EXCEPT ![case.group] = case.hosts[case.group]]]
    BY <2>1 DEF CaseTurn
  <2>4. called = (case.called \/ (calls > 0 /\ case.group = 1))
    BY <1>1, <2>3 DEF Cases
  <2>5. called \in BOOLEAN
    BY Zenon, <2>4
  <2> QED
    BY <1>1, <2>2, <2>3, <2>5 DEF Cases
<1> DEFINE d == [case EXCEPT !.here = case.here + 1, !.turns = turns,
                             !.spent = spent, !.called = called,
                             !.hosts = case.hosts]
<1> HIDE DEF turns, spent, called, n
<1>10. d \in Cases
  <2>1. case.here + 1 \in Nat /\ called \in BOOLEAN
    BY <1>2, <1>9
  <2> QED
    BY <1>1, <1>2, <1>5, <1>7, <2>1 DEF Cases
<1>11. /\ d.row = row /\ d.group = case.group /\ d.here = case.here + 1
       /\ d.turns = turns /\ d.budget = case.budget /\ d.spent = spent
       /\ d.bundle = case.bundle /\ d.broke = case.broke
       /\ d.closed = case.closed /\ d.open = case.open /\ d.step = "turn"
  BY <1>1 DEF Cases
<1> HIDE DEF d
<1>12. RunningCase(d)
  <2>1. Len(d.turns) = d.group - 1 + d.here
    BY <1>2, <1>5, <1>11 DEF n
  <2>2. d.here <= LengthOf(row)
    BY <1>3, <1>11
  <2> QED
    BY <1>1, <1>2, <1>6, <1>7, <1>8, <1>11, <2>1, <2>2 DEF RunningCase
<1>13. AtTurn(d)
  BY <1>1, <1>5, <1>8, <1>11 DEF AtTurn
<1>14. case' = d
  BY <1>9 DEF d
<1> QED
  BY <1>10, <1>11, <1>12, <1>13, <1>14, UnderWay

(* Every turn of a group is done: its runtime is closed next. *)
LEMMA TurnsDoneKeeps == CaseInv /\ TurnsDone => CaseInv'
<1> SUFFICES ASSUME CaseInv, TurnsDone
             PROVE  CaseInv'
  OBVIOUS
<1> DEFINE order == Script[case.row][case.group].runtimes
           d == [case EXCEPT !.step = "close"]
<1>1. /\ case \in Cases /\ RunningCase(case) /\ AtTurn(case)
      /\ case.here = Len(GroupOf(case).turns) /\ case' = d
  BY DEF CaseInv, TurnsDone
<1>2. /\ case.row \in LiveRows /\ case.group \in 1..GroupsOf(case.row)
      /\ case.group \in {1, 2}
  BY <1>1, LengthIs DEF RunningCase, Cases
<1>3. case.here = LengthOf(case.row)
  BY <1>1, <1>2, ScriptIs DEF GroupOf
<1>4. case.open = {order[i] : i \in 1..Len(order)} /\ Len(order) \in Nat
  BY <1>1, <1>2, OpenIsOrder DEF AtTurn
<1> HIDE DEF order
<1>5. /\ d \in Cases /\ d.step = "close" /\ d.row = case.row
      /\ d.group = case.group /\ d.here = case.here
      /\ d.turns = case.turns /\ d.budget = case.budget
      /\ d.spent = case.spent /\ d.bundle = case.bundle
      /\ d.broke = case.broke /\ d.closed = case.closed
      /\ d.open = case.open
  BY <1>1 DEF Cases
<1> HIDE DEF d
<1>6. RunningCase(d)
  BY <1>1, <1>5 DEF RunningCase
<1>7. AtClose(d)
  <2>1. d.closed = 0 /\ 0 + 1 = 1 /\ 0 <= Len(order)
    BY <1>1, <1>4, <1>5 DEF AtTurn
  <2> QED
    BY <1>3, <1>4, <1>5, <2>1 DEF AtClose, order
<1> QED
  BY <1>1, <1>5, <1>6, <1>7, UnderWay

(* A turn raises or runs out of time, having reached the provider or not. *)
LEMMA CaseBreaksKeeps ==
  ASSUME CaseInv, NEW how \in {"raised", "timeout"}, NEW reached \in BOOLEAN,
         CaseTurnBreaks(how, reached)
  PROVE  CaseInv'
<1> DEFINE row == case.row
           n == Len(case.turns)
           order == Script[case.row][case.group].runtimes
           spent == case.spent + (IF reached THEN 1 ELSE 0)
           cut == (how = "timeout")
           d == [case EXCEPT !.step = "close", !.broke = how, !.cut = cut,
                             !.spent = spent]
<1>1. /\ case \in Cases /\ RunningCase(case) /\ AtTurn(case)
      /\ case.here < Len(GroupOf(case).turns)
      /\ reached => GroupOf(case).turns[case.here + 1].meets = "answer"
      /\ case' = d
  BY DEF CaseInv, CaseTurnBreaks, Cases
<1>2. /\ row \in LiveRows /\ case.group \in 1..GroupsOf(row)
      /\ case.group \in {1, 2} /\ case.here \in Nat /\ case.spent \in Nat
      /\ n = case.group - 1 + case.here /\ n \in Nat
  BY <1>1, LengthIs, LenProperties DEF Cases, RunningCase
<1>3. /\ case.here + 1 \in 1..LengthOf(row)
      /\ reached => MeetsAt(row, n + 1) = "answer"
  <2>1. Len(GroupOf(case).turns) = LengthOf(row)
    BY <1>2, ScriptIs DEF GroupOf
  <2>2. case.here + 1 \in 1..LengthOf(row)
    BY <1>1, <1>2, <2>1, LengthIs
  <2>3. Script[row][case.group].turns[case.here + 1].meets =
          MeetsAt(row, case.group + (case.here + 1) - 1)
    BY <1>2, <2>2, ScriptIs
  <2>4. case.group + (case.here + 1) - 1 = n + 1
    BY <1>2
  <2> QED
    BY <1>1, <2>2, <2>3, <2>4 DEF GroupOf
<1>4. spent \in Nat /\ spent <= MinimumTurns[row]
  BY <1>1, <1>2, <1>3, OneMoreFits, SMTT(60) DEF AtTurn
<1>5. cut \in BOOLEAN
  OBVIOUS
<1>6. case.open = {order[i] : i \in 1..Len(order)} /\ Len(order) \in Nat
  BY <1>1, <1>2, OpenIsOrder DEF AtTurn
<1> HIDE DEF order, spent, cut, n
<1>7. d \in Cases
  BY <1>1, <1>4, <1>5 DEF Cases
<1>8. /\ d.step = "close" /\ d.row = row
      /\ d.group = case.group /\ d.here = case.here
      /\ d.turns = case.turns /\ d.budget = case.budget
      /\ d.spent = spent /\ d.bundle = case.bundle
      /\ d.broke = how /\ d.closed = case.closed /\ d.open = case.open
  BY <1>1 DEF Cases
<1> HIDE DEF d
<1>9. RunningCase(d)
  BY <1>1, <1>4, <1>8 DEF RunningCase
<1>10. AtClose(d)
  <2>1. d.closed = 0 /\ 0 + 1 = 1 /\ 0 <= Len(order)
    BY <1>1, <1>6, <1>8 DEF AtTurn
  <2> QED
    BY <1>6, <1>8, <2>1 DEF AtClose, order
<1> QED
  BY <1>1, <1>7, <1>8, <1>9, <1>10, UnderWay

-----------------------------------------------------------------------------
(* The finally clause.                                                     *)
LEMMA CaseCloseKeeps ==
  ASSUME CaseInv, NEW how \in {"raised", "timeout"},
         CloseRuntime \/ CloseBreaks(how)
  PROVE  CaseInv'
<1> DEFINE order == Script[case.row][case.group].runtimes
           k == case.closed + 1
<1>1. /\ case \in Cases /\ RunningCase(case) /\ AtClose(case)
      /\ case.step = "close" /\ case.closed < Len(order)
  BY DEF CaseInv, CloseRuntime, CloseBreaks, CloseOrder, GroupOf
<1>2. /\ case.row \in LiveRows /\ case.group \in 1..GroupsOf(case.row)
      /\ case.closed \in Nat /\ case.cut \in BOOLEAN
      /\ case.open \in SUBSET {"a", "b"}
  BY <1>1 DEF RunningCase, Cases
<1>3. order \in {<<"a">>, <<"b">>, <<"a", "b">>}
  BY <1>2, ScriptIs
<1>4. /\ Len(order) \in {1, 2} /\ k \in 1..Len(order)
      /\ \A i, j \in 1..Len(order) : order[i] = order[j] => i = j
      /\ \A i \in k + 1..Len(order) : order[i] = "b"
  <2>0. case.closed \in Nat /\ case.closed < Len(order)
    BY <1>1, <1>2
  <2>1. CASE order = <<"a", "b">>
    <3>1. Len(order) = 2 /\ order[1] = "a" /\ order[2] = "b"
      BY <2>1
    <3> HIDE DEF order
    <3>2. 1..Len(order) = {1, 2} /\ case.closed \in {0, 1}
      BY <2>0, <3>1
    <3>3. \A i \in k + 1..Len(order) : i = 2
      BY <3>1, <3>2
    <3> QED
      BY <3>1, <3>2, <3>3
  <2>2. CASE order \in {<<"a">>, <<"b">>}
    <3>1. Len(order) = 1
      BY <2>2
    <3> HIDE DEF order
    <3>2. 1..Len(order) = {1} /\ case.closed = 0 /\ k + 1..Len(order) = {}
      BY <2>0, <3>1
    <3> QED
      BY <3>1, <3>2
  <2> QED
    BY <1>3, <2>1, <2>2
<1>5. case.open = {order[i] : i \in k..Len(order)}
  BY SMTT(30), <1>1 DEF AtClose
<1> DEFINE open == case.open \ {order[k]}
<1>6. open = {order[i] : i \in k + 1..Len(order)}
  <2>1. k..Len(order) = {k} \cup (k + 1..Len(order))
        /\ k \notin k + 1..Len(order)
    BY <1>2, <1>4
  <2> QED
    BY <1>4, <1>5, <2>1, SMTT(20)
<1>7. open \in SUBSET {"a", "b"} /\ open \subseteq {"b"}
  BY <1>2, <1>4, <1>6
<1>8. CASE CloseRuntime
  <2> DEFINE d == [case EXCEPT !.closed = k, !.open = open]
  <2>1. case' = d
    BY <1>1, <1>8 DEF CloseRuntime, CloseOrder, GroupOf, Cases
  <2> HIDE DEF order, open
  <2>6. k \in Nat
    BY <1>2
  <2>2. d \in Cases
    BY <1>1, <1>7, <2>6 DEF Cases
  <2>3. /\ d.step = "close" /\ d.row = case.row
        /\ d.group = case.group /\ d.here = case.here
        /\ d.turns = case.turns /\ d.budget = case.budget
        /\ d.spent = case.spent /\ d.bundle = case.bundle
        /\ d.broke = case.broke /\ d.closed = k /\ d.open = open
    BY <1>1 DEF Cases
  <2> HIDE DEF d
  <2>4. RunningCase(d)
    BY <1>1, <2>3 DEF RunningCase
  <2>5. AtClose(d)
    BY <1>1, <1>4, <1>6, <2>3, SMTT(20) DEF AtClose, order
  <2> QED
    BY <2>1, <2>2, <2>3, <2>4, <2>5, UnderWay
<1>9. CASE CloseBreaks(how)
  <2> DEFINE cut == (case.cut \/ how = "timeout")
             d == [case EXCEPT !.closed = Len(order), !.broke = how,
                               !.cut = cut, !.open = open,
                               !.step = "broken"]
  <2>1. case' = d
    BY <1>1, <1>9 DEF CloseBreaks, CloseOrder, GroupOf, Cases
  <2>2. cut \in BOOLEAN
    BY Zenon
  <2> HIDE DEF open, cut
  <2>3. Len(order) \in Nat
    BY <1>4, SMTT(60)
  <2> HIDE DEF order
  <2>4. d \in Cases
    BY <1>1, <1>7, <2>2, <2>3 DEF Cases
  <2>5. /\ d.step = "broken" /\ d.row = case.row
        /\ d.group = case.group /\ d.here = case.here
        /\ d.turns = case.turns /\ d.budget = case.budget
        /\ d.spent = case.spent /\ d.bundle = case.bundle
        /\ d.broke = how /\ d.open = open
    BY <1>1 DEF Cases
  <2> HIDE DEF d
  <2>6. RunningCase(d)
    BY <1>1, <2>5 DEF RunningCase
  <2> QED
    BY <1>7, <2>1, <2>4, <2>5, <2>6, UnderWay
<1> QED
  BY <1>8, <1>9

(* A group ends: the next one begins, or the case has its verdict. *)
LEMMA EndGroupKeeps ==
  ASSUME CaseInv, NEW grade \in NativeGrades, EndGroup(grade)
  PROVE  CaseInv'
<1> DEFINE row == case.row
           g == case.group + 1
<1>1. /\ case \in Cases /\ RunningCase(case)
      /\ case.step \in {"close", "broken"}
      /\ case.step = "close" =>
           AtClose(case)
           /\ case.closed = Len(Script[case.row][case.group].runtimes)
      /\ case.step = "broken" => case.broke # "no" /\ case.open \subseteq {"b"}
  BY DEF CaseInv, EndGroup, CloseOrder, GroupOf
<1>2. /\ row \in LiveRows /\ case.group \in 1..GroupsOf(row)
      /\ case.group \in {1, 2} /\ case.closed \in Nat
      /\ case.broke \in {"no", "raised", "timeout"}
  BY <1>1, LengthIs DEF RunningCase, Cases
<1>3. case.step = "close" => case.open = {}
  <2>1. case.closed + 1..case.closed = {}
    BY <1>2
  <2> QED
    BY <1>1, <2>1 DEF AtClose
<1>4. case.broke = "no" => case.step = "close" /\ case.here = LengthOf(row)
  BY <1>1 DEF AtClose
<1>5. CASE case.broke = "no" /\ case.group < Len(Script[row])
  <2> DEFINE d == OpenGroup(case, g)
  <2>1. Len(Script[row]) = GroupsOf(row) /\ GroupsOf(row) \in {1, 2}
    BY <1>2, LengthIs, ScriptIs
  <2>2. g \in 1..GroupsOf(row) /\ g = 2 /\ case.group = 1
    BY <1>2, <1>5, <2>1
  <2>3. row = "restart"
    BY <2>2 DEF GroupsOf
  <2>4. LengthOf(row) = 1 /\ Len(case.turns) = 1
    BY <1>1, <1>4, <1>5, <2>2, <2>3 DEF LengthOf, RunningCase
  <2>5. /\ \A i \in 1..Len(case.turns) : Meant(row, i, case.turns[i])
        /\ MinimumTurns[row] <= case.budget
        /\ case.spent = Cardinality(Asked(case.turns))
        /\ case.bundle = NoCase.bundle
    BY <1>1, <1>5 DEF RunningCase
  <2>6. case.spent <= AskedOf(row, 1)
    <3>1. Asked(case.turns) \subseteq {1}
      BY <2>4 DEF Asked
    <3>2. IsFiniteSet({1}) /\ Cardinality({1}) = 1
      BY FS_Singleton
    <3>3. Cardinality(Asked(case.turns)) <= 1
      BY <3>1, <3>2, FS_Subset
    <3> QED
      BY <2>3, <2>5, <3>3 DEF AskedOf
  <2>7. /\ d \in Cases /\ d.step = "turn" /\ RunningCase(d) /\ AtTurn(d)
    <3>1. g - 1 = 1
      BY <2>2
    <3>2. Len(case.turns) = g - 1 /\ case.spent <= AskedOf(row, g - 1)
      BY <2>4, <2>6, <3>1
    <3> HIDE DEF g
    <3> QED
      BY <1>1, <1>2, <1>3, <1>4, <1>5, <2>2, <2>5, <3>2, OpenGroupIs
  <2> HIDE DEF d
  <2>8. case' = d
    BY <1>5 DEF EndGroup, d
  <2> QED
    BY <2>7, <2>8, UnderWay
<1>6. CASE ~(case.broke = "no" /\ case.group < Len(Script[row]))
  <2> DEFINE b == Verdict(case, grade)
             d == [case EXCEPT !.step = "done", !.bundle = b]
  <2>1. case.broke = "no" => case.group = GroupsOf(row)
    BY <1>2, <1>6, LengthIs, ScriptIs
  <2>2. /\ b \in BundleSet
        /\ b.cls = "COMPLETE" => b.count = case.spent
        /\ b.reason = "auth" => case.spent = 0
        /\ /\ case.broke = "no"
           /\ \E i \in DOMAIN case.turns :
                \/ case.turns[i].billing = "unsafe"
                \/ /\ case.turns[i].fallback
                   /\ row = "native" => case.turns[i].billing # "none"
           => b.cls = "VERIFIED_FAILURE"
    BY <1>1, <1>4, <2>1, VerdictHolds
  <2>3. case' = d
    BY <1>1, <1>6 DEF EndGroup, Return
  <2> HIDE DEF b
  <2>4. /\ d \in Cases /\ d.step = "done" /\ d.row = row
        /\ d.turns = case.turns /\ d.budget = case.budget
        /\ d.spent = case.spent /\ d.bundle = b
        /\ d.broke = case.broke /\ d.open = case.open
    BY <1>1, <2>2 DEF Cases
  <2> HIDE DEF d
  <2>5. d.spent <= d.budget
    <3>1. /\ MinimumTurns[row] \in Nat
          /\ case.spent \in Nat /\ case.budget \in Nat
      BY <1>1, <1>2, LengthIs DEF Cases
    <3> QED
      BY <1>1, <2>4, <3>1 DEF RunningCase
  <2>6. TurnsAreCounted'
    BY <2>2, <2>3, <2>4, <2>5 DEF TurnsAreCounted
  <2>7. UnsafeIsNotExcused'
    BY <2>2, <2>3, <2>4 DEF UnsafeIsNotExcused
  <2>8. RuntimesReleased'
    BY <1>1, <1>3, <2>3, <2>4 DEF RuntimesReleased
  <2> QED
    BY <2>3, <2>4, <2>6, <2>7, <2>8 DEF CaseInv, CaseHolds
<1> QED
  BY <1>5, <1>6

-----------------------------------------------------------------------------
(* Each step of a case keeps the invariant. *)
LEMMA CaseInvStep == CaseInv /\ [SuitesNext]_case => CaseInv'
<1> SUFFICES ASSUME CaseInv, [SuitesNext]_case
             PROVE  CaseInv'
  OBVIOUS
<1>1. CASE UNCHANGED case
  BY <1>1 DEF CaseInv, CaseHolds, TurnsAreCounted, UnsafeIsNotExcused,
              RuntimesReleased
<1>2. ASSUME NEW row \in LiveRows, NEW budget \in CaseBudgets, NEW held,
             Enter(row, held, budget)
      PROVE  CaseInv'
  <2>1. budget \in Nat
    BY SuitesAssumption
  <2> QED
    BY <1>2, <2>1, EnterKeeps
<1>3. ASSUME NEW exit \in {"gate", "zero", "nonzero", "unavailable"},
             EnterFocused(exit) \/ EnterDelegation
      PROVE  CaseInv'
  BY <1>3, EnterOtherKeeps
<1>4. ASSUME NEW t, NEW calls \in 0..2, CaseTurn(t, calls)
      PROVE  CaseInv'
  BY <1>4, CaseTurnKeeps
<1>5. CASE TurnsDone
  BY <1>5, TurnsDoneKeeps
<1>6. ASSUME NEW how \in {"raised", "timeout"}, NEW reached \in BOOLEAN,
             CaseTurnBreaks(how, reached)
      PROVE  CaseInv'
  BY <1>6, CaseBreaksKeeps
<1>7. ASSUME NEW how \in {"raised", "timeout"},
             CloseRuntime \/ CloseBreaks(how)
      PROVE  CaseInv'
  BY <1>7, CaseCloseKeeps
<1>8. ASSUME NEW grade \in NativeGrades, EndGroup(grade)
      PROVE  CaseInv'
  BY <1>8, EndGroupKeeps
<1> QED
  BY <1>1, <1>2, <1>3, <1>4, <1>5, <1>6, <1>7, <1>8 DEF SuitesNext

(* Whatever a live case runs into, its invariant holds.                    *)
LEMMA CaseInvHolds == SuitesSpec => []CaseInv
<1> QED
  BY CaseInvInit, CaseInvStep, PTL DEF SuitesSpec

(* However many turns a case is given and whatever each of them becomes:   *)
(* no case asks the provider more often than its budget allows, a COMPLETE *)
(* bundle counts exactly the turns the provider was asked for, a turn      *)
(* billed outside the subscription is never excused by another, and the    *)
(* runtimes it opened are closed (active_suite.py, native_suite.py).       *)
THEOREM CaseHeld == SuitesSpec => []CaseHolds
<1>1. CaseInv => CaseHolds
  BY DEF CaseInv
<1> QED
  BY <1>1, CaseInvHolds, PTL

(* A case is at one of its steps, has only its own runtimes open, and its  *)
(* bundle is of a known class (active_suite.py).                           *)
THEOREM CaseTypeCorrect == SuitesSpec => []SuitesTypeOK
<1>1. CaseInv => SuitesTypeOK
  BY DEF CaseInv, Cases, BundleSet, SuitesTypeOK
<1> QED
  BY <1>1, CaseInvHolds, PTL

-----------------------------------------------------------------------------
(* A local trial.                                                          *)
TrialsSpec == TrialsInit /\ [][TrialsNext]_trialVars

Taken(program) ==
  CASE program = "delivery" ->
         {"sys_path", "environ", "home_override", "plugin_manager", "plugin",
          "database", "client_factory", "parent"}
    [] program = "restart" -> {"first", "successor"}
    [] program = "approval" ->
         {"environ", "sys_path", "plugin", "hooks", "database", "agent",
          "callback"}
    [] program = "path" ->
         {"sys_path", "home_override", "environ", "cwd", "callback",
          "plugin_manager", "plugin"}

(* The last check of the durable row, and the length of the plan.          *)
SettledAt(path) == IF path = "recovery" THEN 20 ELSE 17
LengthOfPlan(program, path) ==
  CASE program = "delivery" ->
         IF path = "denial" THEN 17 ELSE SettledAt(path) + 2
    [] program = "restart" -> IF path = "recovery" THEN 9 ELSE 8
    [] program = "approval" -> 9
    [] program = "path" -> IF path = "recovery" THEN 12 ELSE 11

Names == Parts \cup Special \cup
  {"fixture", "scratch", "converse", "state_dir", "create", "title",
   "close_rpc", "load", "turn", "install", "old_cwd"}

Joins(u, s, t) ==
  /\ u \in Seq(Names) /\ Len(u) = Len(s) + Len(t)
  /\ \A i \in 1..Len(s) : u[i] = s[i]
  /\ \A i \in 1..Len(t) : u[Len(s) + i] = t[i]
  /\ \A i \in 1..Len(u) :
       i \in 1..Len(s) \/ \E j \in 1..Len(t) : i = Len(s) + j

(* The names of two lists joined, position by position. *)
LEMMA Joined ==
  ASSUME NEW s \in Seq(Names), NEW t \in Seq(Names)
  PROVE  Joins(s \o t, s, t)
<1>1. Len(s) \in Nat /\ Len(t) \in Nat
  BY LenProperties
<1>2. s \o t \in Seq(Names) /\ Len(s \o t) = Len(s) + Len(t)
  BY ConcatProperties
<1>3. \A i \in 1..Len(s) + Len(t) :
        (s \o t)[i] = IF i <= Len(s) THEN s[i] ELSE t[i - Len(s)]
  BY ConcatProperties
<1>4. \A i \in 1..Len(s) : (s \o t)[i] = s[i]
  BY <1>1, <1>3
<1>5. ASSUME NEW i \in 1..Len(t)
      PROVE  (s \o t)[Len(s) + i] = t[i]
  <2>1. Len(s) + i \in 1..Len(s) + Len(t) /\ ~(Len(s) + i <= Len(s))
        /\ Len(s) + i - Len(s) = i
    BY <1>1
  <2> QED
    BY <1>3, <2>1
<1>6. ASSUME NEW i \in 1..Len(s) + Len(t), i \notin 1..Len(s)
      PROVE  \E j \in 1..Len(t) : i = Len(s) + j
  <2>1. i - Len(s) \in 1..Len(t) /\ i = Len(s) + (i - Len(s))
    BY <1>1, <1>6
  <2> QED
    BY <2>1
<1> QED
  BY <1>2, <1>4, <1>5, <1>6 DEF Joins

(* The steps of the delivery program, part by part. *)
LEMMA DeliveryParts ==
  /\ DeliverySetup \in Seq(Names) /\ Len(DeliverySetup) = 13
  /\ \A i \in 1..13 :
       DeliverySetup[i] \in Parts => DeliverySetup[i] \in Taken("delivery")
  /\ Denial \in Seq(Names \ Parts) /\ Len(Denial) = 3
  /\ DeliverySteps \in Seq(Names \ Parts) /\ Len(DeliverySteps) = 6
  /\ DeliverySteps[4] = "examine_delivered" /\ DeliverySteps[5] = "late_claim"
  /\ DeliverySteps[6] = "late_complete"
<1> USE DEF DeliverySetup, Denial, DeliverySteps, Names, Parts, Special, Taken
<1>1. Len(DeliverySetup) = 13 /\ Len(Denial) = 3 /\ Len(DeliverySteps) = 6
  OBVIOUS
<1>2. DeliverySetup \in Seq(Names)
  OBVIOUS
<1>3. Denial \in Seq(Names \ Parts)
  OBVIOUS
<1>4. DeliverySteps \in Seq(Names \ Parts)
  OBVIOUS
<1>5. \A i \in 1..13 :
        DeliverySetup[i] \in Parts => DeliverySetup[i] \in Taken("delivery")
  OBVIOUS
<1> QED
  BY <1>1, <1>2, <1>3, <1>4, <1>5

(* The plans, as far as the proof looks at them.                           *)
Planned0(program, path, plan) ==
  /\ plan \in Seq(Names) /\ Len(plan) = LengthOfPlan(program, path)
  /\ Len(plan) >= 1
  /\ \A i \in 1..Len(plan) : plan[i] \in Parts => plan[i] \in Taken(program)

Takes(program, s) ==
  s \in Seq(Names)
  /\ \A i \in 1..Len(s) : s[i] \in Parts => s[i] \in Taken(program)

(* Joined steps take only what the program may take when each of them      *)
(* does.                                                                   *)
LEMMA JoinedTakes ==
  ASSUME NEW program, NEW s, NEW t, Takes(program, s), Takes(program, t)
  PROVE  Takes(program, s \o t)
<1>1. /\ s \in Seq(Names) /\ t \in Seq(Names)
      /\ Len(s) \in Nat /\ Len(t) \in Nat
  BY LenProperties DEF Takes
<1>2. \A i \in 1..Len(s \o t) :
        \/ \E j \in 1..Len(s) : (s \o t)[i] = s[j]
        \/ \E j \in 1..Len(t) : (s \o t)[i] = t[j]
  BY <1>1, Joined DEF Joins
<1> QED
  BY <1>1, <1>2, Joined DEF Takes, Joins

(* Each stretch of the delivery program takes only what it may take. *)
LEMMA DeliveryTakes ==
  /\ Takes("delivery", DeliverySetup) /\ Takes("delivery", Denial)
  /\ Takes("delivery", DeliverySteps) /\ Takes("delivery", <<>>)
  /\ Takes("delivery", <<"examine_denied">>)
<1>1. Takes("delivery", DeliverySetup)
  BY DeliveryParts DEF Takes
<1>0. \A s \in Seq(Names \ Parts) : Takes("delivery", s)
  <2> SUFFICES ASSUME NEW s \in Seq(Names \ Parts)
               PROVE  Takes("delivery", s)
    OBVIOUS
  <2>1. s \in Seq(Names)
    OBVIOUS
  <2>2. \A i \in 1..Len(s) : s[i] \notin Parts
    OBVIOUS
  <2> QED
    BY <2>1, <2>2 DEF Takes
<1>2. Takes("delivery", Denial) /\ Takes("delivery", DeliverySteps)
  BY <1>0, DeliveryParts
<1>4. "examine_denied" \in Names \ Parts
  BY DEF Names, Parts, Special
<1>5. Takes("delivery", <<"examine_denied">>)
  BY <1>4 DEF Takes
<1>6. Takes("delivery", <<>>)
  BY DEF Takes
<1> QED
  BY <1>1, <1>2, <1>5, <1>6

(* The plan of the delivery program on each of its paths. *)
LEMMA DeliveryPlan ==
  ASSUME NEW path \in {"positive", "denial", "recovery"}
  PROVE  LET plan == Plan("delivery", path)
             d == SettledAt(path)
         IN  /\ Planned0("delivery", path, plan)
             /\ plan[d] = IF path = "denial" THEN "examine_denied"
                                             ELSE "examine_delivered"
             /\ \A i \in 1..Len(plan) :
                  i > d => plan[i] \in {"late_claim", "late_complete"}
<1> DEFINE plan == Plan("delivery", path)
<1> USE DEF SettledAt, LengthOfPlan
<1>1. CASE path = "positive"
  <2> DEFINE early == DeliverySetup \o <<>>
  <2>1. plan = early \o DeliverySteps
    BY <1>1 DEF Plan
  <2>2. Takes("delivery", early) /\ Len(early) = 13
    BY DeliveryParts, DeliveryTakes, JoinedTakes
  <2> HIDE DEF early
  <2>3. Takes("delivery", plan) /\ early \in Seq(Names)
        /\ DeliverySteps \in Seq(Names)
    BY <2>1, <2>2, DeliveryTakes, JoinedTakes DEF Takes
  <2>4. Len(plan) = 13 + 6 /\ \A i \in 1..6 : plan[13 + i] = DeliverySteps[i]
    <3>1. Len(DeliverySteps) = 6 /\ 13 \in Nat /\ 6 \in Nat
      BY DeliveryParts
    <3>2. Joins(plan, early, DeliverySteps)
      BY <2>1, <2>3, Joined
    <3> HIDE DEF plan
    <3> QED
      BY <2>2, <3>1, <3>2 DEF Joins
  <2>5. /\ plan[17] = "examine_delivered" /\ plan[18] = "late_claim"
        /\ plan[19] = "late_complete"
    <3>1. plan[13 + 4] = DeliverySteps[4] /\ plan[13 + 5] = DeliverySteps[5]
          /\ plan[13 + 6] = DeliverySteps[6]
      BY <2>4
    <3> QED
      BY <3>1, DeliveryParts
  <2>6. LengthOfPlan("delivery", path) = 19 /\ SettledAt(path) = 17
    BY <1>1
  <2> HIDE DEF plan, SettledAt, LengthOfPlan
  <2>7. Len(plan) = 19
    BY <2>4
  <2>8. Planned0("delivery", path, plan)
    BY <2>3, <2>6, <2>7 DEF Planned0, Takes
  <2>9. \A i \in 1..19 : i > 17 => i = 18 \/ i = 19
    OBVIOUS
  <2> QED
    BY <1>1, <2>5, <2>6, <2>7, <2>8, <2>9 DEF plan
<1>2. CASE path = "denial"
  <2> DEFINE early == DeliverySetup \o Denial
  <2>1. plan = early \o <<"examine_denied">>
    BY <1>2 DEF Plan
  <2>2. Denial \in Seq(Names) /\ DeliverySetup \in Seq(Names)
    BY DeliveryTakes DEF Takes
  <2>3. Takes("delivery", early) /\ Len(early) = 16
    <3>1. /\ Len(Denial) = 3 /\ Len(DeliverySetup) = 13
          /\ 13 \in Nat /\ 3 \in Nat /\ 13 + 3 = 16
      BY DeliveryParts
    <3>2. Joins(early, DeliverySetup, Denial)
      BY <2>2, Joined
    <3> HIDE DEF early
    <3>3. Len(early) = 16
      BY <3>1, <3>2 DEF Joins
    <3> QED
      BY <3>3, DeliveryTakes, JoinedTakes DEF early
  <2> HIDE DEF early
  <2>4. Takes("delivery", plan) /\ early \in Seq(Names)
        /\ <<"examine_denied">> \in Seq(Names)
    BY <2>1, <2>3, DeliveryTakes, JoinedTakes DEF Takes
  <2>5. Len(plan) = 17 /\ plan[16 + 1] = "examine_denied"
    <3>1. /\ Len(<<"examine_denied">>) = 1
          /\ <<"examine_denied">>[1] = "examine_denied"
          /\ 16 \in Nat /\ 1 \in Nat /\ 16 + 1 = 17 /\ 1 \in 1..1
      OBVIOUS
    <3> HIDE DEF plan
    <3>2. Joins(plan, early, <<"examine_denied">>)
      BY <2>1, <2>4, Joined
    <3>3. Len(plan) = 16 + 1 /\ plan[16 + 1] = <<"examine_denied">>[1]
      BY <2>3, <3>1, <3>2 DEF Joins
    <3> QED
      BY <3>1, <3>3
  <2>6. plan[17] = "examine_denied"
    BY <2>5
  <2>7. LengthOfPlan("delivery", path) = 17 /\ SettledAt(path) = 17
    BY <1>2
  <2> HIDE DEF plan, SettledAt, LengthOfPlan
  <2>8. Planned0("delivery", path, plan)
    BY <2>4, <2>5, <2>7 DEF Planned0, Takes
  <2> QED
    BY <1>2, <2>5, <2>6, <2>7, <2>8 DEF plan
<1>3. CASE path = "recovery"
  <2> DEFINE early == DeliverySetup \o Denial
  <2>1. plan = early \o DeliverySteps
    BY <1>3 DEF Plan
  <2>2. Denial \in Seq(Names) /\ DeliverySetup \in Seq(Names)
    BY DeliveryTakes DEF Takes
  <2>3. Takes("delivery", early) /\ Len(early) = 16
    <3>1. /\ Len(Denial) = 3 /\ Len(DeliverySetup) = 13
          /\ 13 \in Nat /\ 3 \in Nat /\ 13 + 3 = 16
      BY DeliveryParts
    <3>2. Joins(early, DeliverySetup, Denial)
      BY <2>2, Joined
    <3> HIDE DEF early
    <3>3. Len(early) = 16
      BY <3>1, <3>2 DEF Joins
    <3> QED
      BY <3>3, DeliveryTakes, JoinedTakes DEF early
  <2> HIDE DEF early
  <2>4. Takes("delivery", plan) /\ early \in Seq(Names)
        /\ DeliverySteps \in Seq(Names)
    BY <2>1, <2>3, DeliveryTakes, JoinedTakes DEF Takes
  <2>5. Len(plan) = 16 + 6 /\ \A i \in 1..6 : plan[16 + i] = DeliverySteps[i]
    <3>1. Len(DeliverySteps) = 6 /\ 16 \in Nat /\ 6 \in Nat
      BY DeliveryParts
    <3>2. Joins(plan, early, DeliverySteps)
      BY <2>1, <2>4, Joined
    <3> HIDE DEF plan
    <3> QED
      BY <2>3, <3>1, <3>2 DEF Joins
  <2>6. /\ plan[20] = "examine_delivered" /\ plan[21] = "late_claim"
        /\ plan[22] = "late_complete"
    <3>1. plan[16 + 4] = DeliverySteps[4] /\ plan[16 + 5] = DeliverySteps[5]
          /\ plan[16 + 6] = DeliverySteps[6]
      BY <2>5
    <3> QED
      BY <3>1, DeliveryParts
  <2>7. LengthOfPlan("delivery", path) = 22 /\ SettledAt(path) = 20
    BY <1>3
  <2> HIDE DEF plan, SettledAt, LengthOfPlan
  <2>8. Len(plan) = 22
    BY <2>5
  <2>9. Planned0("delivery", path, plan)
    BY <2>4, <2>7, <2>8 DEF Planned0, Takes
  <2>10. \A i \in 1..22 : i > 20 => i = 21 \/ i = 22
    OBVIOUS
  <2> QED
    BY <1>3, <2>6, <2>7, <2>8, <2>9, <2>10 DEF plan
<1> QED
  BY <1>1, <1>2, <1>3

(* The plan of the restart program. *)
LEMMA RestartPlan ==
  ASSUME NEW path \in {"denial", "recovery"}
  PROVE  LET plan == Plan("restart", path) IN
         /\ Planned0("restart", path, plan)
         /\ plan[8] = "stale_resume"
         /\ path = "recovery" => plan[9] = "exact_resume"
         /\ \A i \in 1..7 : plan[i] \notin {"stale_resume", "exact_resume"}
<1> DEFINE base == <<"state_dir", "first", "create", "title", "close_rpc",
                     "close_first", "successor", "stale_resume">>
           last == IF path = "recovery" THEN <<"exact_resume">> ELSE <<>>
           plan == Plan("restart", path)
<1>1. plan = base \o last
  BY DEF Plan, RestartSteps
<1>2. /\ Takes("restart", base) /\ Len(base) = 8 /\ base[8] = "stale_resume"
      /\ \A i \in 1..7 : base[i] \notin {"stale_resume", "exact_resume"}
  BY DEF Takes, Taken, Names, Parts, Special
<1>3. "exact_resume" \in Names \ Parts
  BY DEF Names, Parts, Special
<1>4. /\ Takes("restart", last)
      /\ path = "recovery" => Len(last) = 1 /\ last[1] = "exact_resume"
      /\ path # "recovery" => Len(last) = 0
  BY <1>3 DEF Takes
<1> HIDE DEF base, last, plan
<1>5. Takes("restart", plan)
  BY <1>1, <1>2, <1>4, JoinedTakes
<1>6. base \in Seq(Names) /\ last \in Seq(Names)
  BY <1>2, <1>4 DEF Takes
<1>7. /\ Len(plan) = 8 + Len(last) /\ \A i \in 1..8 : plan[i] = base[i]
      /\ \A i \in 1..Len(last) : plan[8 + i] = last[i]
  <2>1. Len(last) \in Nat /\ 8 \in Nat
    BY <1>6, LenProperties
  <2>2. Joins(plan, base, last)
    BY <1>1, <1>6, Joined
  <2> QED
    BY <1>2, <2>1, <2>2 DEF Joins
<1>8. Len(last) = 0 \/ Len(last) = 1
  BY <1>4
<1>9. path = "recovery" => plan[9] = "exact_resume"
  <2>1. HAVE path = "recovery"
  <2>2. Len(last) = 1 /\ last[1] = "exact_resume" /\ 1 \in 1..1 /\ 8 + 1 = 9
    BY <1>4, <2>1
  <2>3. plan[8 + 1] = last[1]
    BY <1>7, <2>2
  <2> QED
    BY <2>2, <2>3
<1>10. Len(plan) = LengthOfPlan("restart", path) /\ Len(plan) >= 1
  <2>1. Len(plan) = IF path = "recovery" THEN 9 ELSE 8
    <3>1. 8 + 1 = 9 /\ 8 + 0 = 8
      OBVIOUS
    <3>2. CASE path = "recovery"
      BY <1>4, <1>7, <3>1, <3>2
    <3>3. CASE path # "recovery"
      BY <1>4, <1>7, <3>1, <3>3
    <3> QED
      BY <3>2, <3>3
  <2> QED
    BY <2>1 DEF LengthOfPlan
<1> QED
  BY <1>2, <1>5, <1>7, <1>8, <1>9, <1>10 DEF Planned0, Takes, plan

(* The plan of the approval program. *)
LEMMA ApprovalPlan ==
  Planned0("approval", "positive", Plan("approval", "positive"))
BY DEF Plan, ApprovalSteps, Planned0, LengthOfPlan, Taken, Names, Parts,
       Special

(* The plan of the path program: one attempt for each planned decision. *)
LEMMA PathPlan ==
  ASSUME NEW path \in {"positive", "denial", "recovery"}
  PROVE  LET plan == Plan("path", path)
             n == Len(plan)
         IN
         /\ Planned0("path", path, plan)
         /\ Len(Planned(path)) = n - 10
         /\ plan[n] = "verdict"
         /\ \A i \in 1..n : plan[i] = "attempt" <=> i \in 10..n - 1
         /\ \A i \in 1..n - 1 : plan[i] # "verdict"
<1> DEFINE base == <<"sys_path", "install", "home_override", "old_cwd",
                     "environ", "cwd", "callback", "plugin_manager", "plugin",
                     "attempt">>
           again == IF path = "recovery" THEN <<"attempt">> ELSE <<>>
           early == base \o again
           plan == Plan("path", path)
           n == IF path = "recovery" THEN 12 ELSE 11
<1>1. plan = early \o <<"verdict">>
  BY DEF Plan, PathSteps
<1>2. /\ Takes("path", base) /\ Len(base) = 10 /\ base[10] = "attempt"
      /\ \A i \in 1..9 : base[i] \notin {"attempt", "verdict"}
  BY DEF Takes, Taken, Names, Parts, Special
<1>3. {"attempt", "verdict"} \subseteq Names \ Parts
  BY DEF Names, Parts, Special
<1>4. /\ Takes("path", again) /\ Len(again) = n - 11
      /\ \A i \in 1..Len(again) : again[i] = "attempt"
  BY <1>3 DEF Takes
<1>5. Takes("path", <<"verdict">>)
  BY <1>3 DEF Takes
<1> HIDE DEF base, again, plan
<1>6. Takes("path", early)
  BY <1>2, <1>4, JoinedTakes
<1>7. base \in Seq(Names) /\ again \in Seq(Names)
      /\ <<"verdict">> \in Seq(Names)
  BY <1>2, <1>4, <1>5 DEF Takes
<1>8. /\ Len(early) = n - 1 /\ \A i \in 1..10 : early[i] = base[i]
      /\ \A i \in 1..n - 11 : early[10 + i] = again[i]
      /\ \A i \in 1..n - 1 : i \in 1..10 \/ \E j \in 1..n - 11 : i = 10 + j
  <2>1. 10 + (n - 11) = n - 1 /\ n - 11 \in Nat /\ 10 \in Nat
    OBVIOUS
  <2> HIDE DEF n
  <2>2. /\ Len(early) = 10 + (n - 11) /\ \A i \in 1..10 : early[i] = base[i]
        /\ \A i \in 1..n - 11 : early[10 + i] = again[i]
        /\ \A i \in 1..10 + (n - 11) :
             i \in 1..10 \/ \E j \in 1..n - 11 : i = 10 + j
    <3>1. Joins(early, base, again)
      BY <1>7, Joined DEF early
    <3> HIDE DEF early
    <3> QED
      BY <1>2, <1>4, <2>1, <3>1 DEF Joins
  <2> QED
    BY <2>1, <2>2
<1> HIDE DEF early
<1>9. /\ Takes("path", plan) /\ early \in Seq(Names)
  BY <1>1, <1>5, <1>6, JoinedTakes DEF Takes
<1>10. /\ Len(plan) = (n - 1) + 1 /\ \A i \in 1..n - 1 : plan[i] = early[i]
       /\ plan[(n - 1) + 1] = "verdict"
  <2>1. Joins(plan, early, <<"verdict">>)
    BY <1>1, <1>7, <1>9, Joined
  <2>2. Len(<<"verdict">>) = 1 /\ <<"verdict">>[1] = "verdict" /\ 1 \in 1..1
    OBVIOUS
  <2> HIDE DEF n
  <2> QED
    BY <1>8, <2>1, <2>2 DEF Joins
<1>11. (n - 1) + 1 = n /\ n \in {11, 12}
  OBVIOUS
<1>12. \A i \in 1..n - 1 :
         IF i <= 9 THEN plan[i] \notin {"attempt", "verdict"}
                   ELSE plan[i] = "attempt"
  <2>1. TAKE i \in 1..n - 1
  <2>2. plan[i] = early[i]
    BY <1>10
  <2>3. CASE i <= 9
    <3>1. i \in 1..10 /\ i \in 1..9
      BY <2>3
    <3> QED
      BY <1>2, <1>8, <2>2, <2>3, <3>1
  <2>4. CASE i = 10
    BY <1>2, <1>8, <2>2, <2>4
  <2>5. CASE i > 10
    <3>1. PICK j \in 1..n - 11 : i = 10 + j
      BY <1>8, <2>5
    <3> QED
      BY <1>4, <1>8, <2>2, <2>5, <3>1
  <2> QED
    BY <2>3, <2>4, <2>5
<1>13. Len(plan) = n /\ n = LengthOfPlan("path", path)
       /\ Len(Planned(path)) = n - 10
  BY <1>10, <1>11 DEF LengthOfPlan, Planned
<1>14. \A i \in 1..n : i \in 1..n - 1 \/ i = n
  BY <1>11
<1>15. plan[n] = "verdict" /\ "verdict" # "attempt"
  BY <1>10, <1>11
<1> HIDE DEF n
<1>16. \A i \in 1..n : plan[i] = "attempt" <=> i \in 10..n - 1
  BY <1>11, <1>12, <1>14, <1>15
<1>17. \A i \in 1..n - 1 : plan[i] # "verdict"
  BY <1>12
<1> QED
  BY <1>9, <1>11, <1>13, <1>15, <1>16, <1>17 DEF Planned0, Takes, plan
-----------------------------------------------------------------------------
(* The inductive invariant.  What the trial holds it has taken, and its     *)
(* state, status and flags agree; the finally clause has let go of what it  *)
(* has passed, and may have lost the plugin manager.                        *)
Lost == IF ManagerUnsaved THEN {"manager_lost"} ELSE {}
TrialTyped ==
  /\ trial \in [program : Programs, path : {"positive", "denial", "recovery"},
                at : Nat, held : SUBSET Parts,
                state : {"run", "sweep", "leave", "done"},
                status : {"none", "raised", "PASS"}, inside : BOOLEAN,
                swept : Nat, skipped : BOOLEAN, foreign : Nat]
  /\ trial.path \in PathsOf(trial.program)
  /\ trial.held \subseteq Taken(trial.program) \cup Lost
RunHeld ==
  trial.state = "run" =>
    /\ trial.status = "none" /\ ~trial.inside /\ ~trial.skipped
    /\ trial.swept = 0 /\ trial.at \in 1..Len(Steps)
SweepHeld ==
  trial.state = "sweep" =>
    /\ ~trial.skipped /\ trial.status \in {"raised", "PASS"}
    /\ trial.swept \in 0..Len(Swept)
    /\ \A k \in 1..trial.swept : Swept[k] \notin trial.held
LeaveHeld ==
  trial.state = "leave" =>
    trial.status = "raised" /\ (trial.skipped \/ ~trial.inside)
TrialControl ==
  TrialTyped /\ RunHeld /\ SweepHeld /\ LeaveHeld /\ TrialLeavesNothing

(* The queue still holds every foreign completion.                          *)
Events == {"foreign", "mine", "malformed"}
Foreigners(q) == {i \in DOMAIN q : q[i] = "foreign"}
QueueKept ==
  /\ queue \in Seq(Events)
  /\ trial.program = "delivery" /\ trial.status # "raised" =>
       Cardinality(Foreigners(queue)) = trial.foreign

(* Once its last examination has passed, the row stays as examined.         *)
Examined == IF trial.path = "denial" THEN [NewRow EXCEPT !.attempts = 1]
                                     ELSE DeliveredRow
RowSettled ==
  /\ store \in [delivery : {"pending", "claimed", "delivered"},
                attempts : Nat, rows : Nat]
  /\ trial.program = "delivery" /\ trial.status # "raised"
     /\ (trial.status = "PASS" \/ trial.at > SettledAt(trial.path)) =>
       store = Examined

(* What was seen agrees with how far the trial has come.                    *)
SeenSoFar ==
  /\ seen \in [stale : {"none", "refused", "accepted", "error"},
               resumed : {"none", "same", "other", "unnamed", "error"},
               attempts : Seq([terminal : {"completed", "denied", "failed"},
                               present : BOOLEAN]),
               decisions : Seq({"deny", "once"})]
  /\ trial.program = "restart" /\ trial.state = "run" =>
       seen.resumed = "none" /\ (trial.at > 8 => seen.stale = "refused")
  /\ trial.program = "path" =>
       /\ Len(seen.decisions) <= Len(Planned(trial.path))
       /\ \A i \in 1..Len(seen.decisions) :
            seen.decisions[i] = Planned(trial.path)[i]
       /\ trial.state = "run" =>
            Len(seen.attempts) = IF trial.at <= 10 THEN 0 ELSE trial.at - 10

TrialInv ==
  TrialControl /\ QueueKept /\ RowSettled /\ SeenSoFar /\ PassIsObserved
-----------------------------------------------------------------------------
(* How many foreign completions a queue holds.                              *)
LEMMA SameCount ==
  ASSUME NEW q \in Seq(Events), NEW r \in Seq(Events),
         NEW f \in Bijection(Foreigners(q), Foreigners(r))
  PROVE  Cardinality(Foreigners(r)) = Cardinality(Foreigners(q))
<1>1. IsFiniteSet(Foreigners(q))
  <2>1. DOMAIN q = 1..Len(q) /\ Len(q) \in Nat
    BY LenProperties
  <2>2. IsFiniteSet(1..Len(q))
    BY <2>1, FS_Interval
  <2>3. Foreigners(q) \in SUBSET (1..Len(q))
    BY <2>1 DEF Foreigners
  <2> QED
    BY <2>2, <2>3, FS_Subset
<1>2. ExistsBijection(Foreigners(q), Foreigners(r))
  BY DEF ExistsBijection
<1> QED
  BY <1>1, <1>2, FS_Bijection

(* The foreign completions of a queue can be counted. *)
LEMMA CountIsNat ==
  ASSUME NEW q \in Seq(Events)
  PROVE  IsFiniteSet(Foreigners(q)) /\ Cardinality(Foreigners(q)) \in Nat
<1>1. DOMAIN q = 1..Len(q) /\ Len(q) \in Nat
  BY LenProperties
<1>2. IsFiniteSet(1..Len(q))
  BY <1>1, FS_Interval
<1>3. Foreigners(q) \in SUBSET (1..Len(q))
  BY <1>1 DEF Foreigners
<1>4. IsFiniteSet(Foreigners(q))
  BY <1>2, <1>3, FS_Subset
<1> QED
  BY <1>4, FS_CardinalityType

(* A foreign completion counts once. *)
LEMMA ForeignAdded ==
  ASSUME NEW q \in Seq(Events)
  PROVE  /\ Append(q, "foreign") \in Seq(Events)
         /\ Cardinality(Foreigners(Append(q, "foreign")))
              = Cardinality(Foreigners(q)) + 1
<1> DEFINE r == Append(q, "foreign")
           n == Len(q)
<1>1. "foreign" \in Events
  BY DEF Events
<1>2. /\ r \in Seq(Events) /\ Len(r) = n + 1 /\ n \in Nat
      /\ \A i \in 1..n : r[i] = q[i]
      /\ r[n + 1] = "foreign"
  BY <1>1, AppendProperties, LenProperties
<1>3. DOMAIN q = 1..n /\ DOMAIN r = 1..n + 1
  BY <1>2, LenProperties
<1> HIDE DEF r, n
<1>4. Foreigners(r) = Foreigners(q) \cup {n + 1} /\ n + 1 \notin Foreigners(q)
  BY <1>2, <1>3 DEF Foreigners
<1> QED
  BY <1>2, <1>4, CountIsNat, FS_AddElement DEF r

(* An event of the trial's own leaves the foreign completions as they      *)
(* were.                                                                   *)
LEMMA OwnAdded ==
  ASSUME NEW q \in Seq(Events), NEW e \in Events \ {"foreign"}
  PROVE  /\ Append(q, e) \in Seq(Events)
         /\ Foreigners(Append(q, e)) = Foreigners(q)
<1> DEFINE r == Append(q, e)
           n == Len(q)
<1>1. e \in Events
  OBVIOUS
<1>2. /\ r \in Seq(Events) /\ Len(r) = n + 1 /\ n \in Nat
      /\ \A i \in 1..n : r[i] = q[i]
      /\ r[n + 1] = e
  BY <1>1, AppendProperties, LenProperties
<1>3. DOMAIN q = 1..n /\ DOMAIN r = 1..n + 1
  BY <1>2, LenProperties
<1> HIDE DEF r, n
<1>4. Foreigners(r) = Foreigners(q)
  BY <1>2, <1>3 DEF Foreigners
<1> QED
  BY <1>2, <1>4 DEF r

(* Taking out one's own completion and putting what was before it behind    *)
(* what was after it loses no foreign one.                                  *)
Cycled(q, i) == SubSeq(q, i + 1, Len(q)) \o SubSeq(q, 1, i - 1)

(* A queue after the events before one of them were put back behind it. *)
LEMMA RotatedParts ==
  ASSUME NEW q \in Seq(Events), NEW i \in 1..Len(q)
  PROVE  LET n == Len(q)
             r == Cycled(q, i)
         IN  /\ n \in Nat
             /\ r \in Seq(Events) /\ DOMAIN r = 1..n - 1
             /\ \A k \in 1..n - i : r[k] = q[i + k]
             /\ \A k \in 1..i - 1 : r[(n - i) + k] = q[k]
<1> DEFINE n == Len(q)
           s == SubSeq(q, i + 1, n)
           t == SubSeq(q, 1, i - 1)
           r == Cycled(q, i)
<1>1. n \in Nat /\ i \in Nat /\ \A k \in 1..n : q[k] \in Events
  BY SMTT(60), LenProperties, ElementOfSeq
<1>2. /\ s \in Seq(Events) /\ Len(s) = n - i
      /\ \A k \in 1..n - i : s[k] = q[i + k]
  <2>1. i + 1 \in Int /\ n \in Int /\ \A k \in (i + 1)..n : q[k] \in Events
    BY <1>1
  <2>2. /\ s \in Seq(Events)
        /\ Len(s) = IF i + 1 <= n THEN n - (i + 1) + 1 ELSE 0
        /\ \A k \in 1..n - (i + 1) + 1 : s[k] = q[(i + 1) + k - 1]
    BY <2>1, SubSeqProperties
  <2>3. n - (i + 1) + 1 = n - i /\ (~(i + 1 <= n) => n - i = 0)
    BY <1>1
  <2>4. \A k \in 1..n - i : (i + 1) + k - 1 = i + k
    BY <1>1
  <2> HIDE DEF s
  <2> QED
    BY <2>2, <2>3, <2>4
<1>3. /\ t \in Seq(Events) /\ Len(t) = i - 1
      /\ \A k \in 1..i - 1 : t[k] = q[k]
  <2>1. 1 \in Int /\ i - 1 \in Int /\ \A k \in 1..i - 1 : q[k] \in Events
    BY <1>1
  <2>2. /\ t \in Seq(Events)
        /\ Len(t) = IF 1 <= i - 1 THEN (i - 1) - 1 + 1 ELSE 0
        /\ \A k \in 1..(i - 1) - 1 + 1 : t[k] = q[1 + k - 1]
    BY <2>1, SubSeqProperties
  <2>3. (i - 1) - 1 + 1 = i - 1 /\ (~(1 <= i - 1) => i - 1 = 0)
    BY <1>1
  <2>4. \A k \in 1..i - 1 : 1 + k - 1 = k
    BY <1>1
  <2> HIDE DEF t
  <2> QED
    BY <2>2, <2>3, <2>4
<1>4. r = s \o t
  BY DEF Cycled
<1> HIDE DEF s, t, r, n
<1>5. /\ r \in Seq(Events) /\ Len(r) = (n - i) + (i - 1)
      /\ \A k \in 1..(n - i) + (i - 1) :
           r[k] = IF k <= n - i THEN s[k] ELSE t[k - (n - i)]
  BY <1>2, <1>3, <1>4, ConcatProperties
<1>6. (n - i) + (i - 1) = n - 1
  BY <1>1
<1>7. DOMAIN r = 1..n - 1
  BY <1>5, <1>6, LenProperties
<1>8. i <= n
  BY DEF n
<1>9. \A k \in 1..n - i : r[k] = q[i + k]
  <2>1. \A k \in 1..n - i : k \in 1..n - 1 /\ k <= n - i
    BY <1>1, <1>8
  <2> QED
    BY <1>2, <1>5, <1>6, <2>1
<1>10. ASSUME NEW k \in 1..i - 1
       PROVE  r[(n - i) + k] = q[k]
  <2> DEFINE m == (n - i) + k
  <2>1. /\ m \in 1..(n - i) + (i - 1) /\ ~(m <= n - i)
        /\ m - (n - i) = k
    BY <1>1, <1>8
  <2> HIDE DEF m
  <2>2. r[m] = t[k]
    BY <1>5, <2>1
  <2> QED
    BY <1>3, <2>2 DEF m
<1> QED
  BY <1>1, <1>5, <1>7, <1>9, <1>10 DEF r, n

(* Putting events back loses and repeats no foreign completion. *)
LEMMA RotatedCount ==
  ASSUME NEW q \in Seq(Events), NEW i \in 1..Len(q), q[i] # "foreign"
  PROVE  /\ Cycled(q, i) \in Seq(Events)
         /\ Cardinality(Foreigners(Cycled(q, i)))
              = Cardinality(Foreigners(q))
<1> DEFINE n == Len(q)
           r == Cycled(q, i)
           f == [k \in Foreigners(q) |-> IF k > i THEN k - i ELSE (n - i) + k]
<1>1. /\ n \in Nat /\ i \in 1..n
      /\ r \in Seq(Events) /\ DOMAIN r = 1..n - 1
      /\ \A k \in 1..n - i : r[k] = q[i + k]
      /\ \A k \in 1..i - 1 : r[(n - i) + k] = q[k]
  BY RotatedParts
<1>2. DOMAIN q = 1..n
  BY LenProperties
<1> HIDE DEF r, n
<1>3. \A k \in Foreigners(q) : k \in 1..n /\ k # i /\ q[k] = "foreign"
  BY <1>2 DEF Foreigners
<1>4. ASSUME NEW k \in Foreigners(q)
      PROVE  f[k] \in Foreigners(r)
  <2>1. CASE k > i
    <3>0. k \in Int /\ i \in Int /\ n \in Int /\ k <= n /\ 1 <= i /\ i < k
      BY <1>1, <1>3, <2>1
    <3>1. k - i \in 1..n - i /\ i + (k - i) = k /\ k - i \in 1..n - 1
      BY <3>0
    <3>2. f[k] = k - i
      BY <2>1
    <3>3. r[k - i] = q[k]
      BY <1>1, <3>1
    <3> QED
      BY <1>1, <1>3, <3>1, <3>2, <3>3 DEF Foreigners
  <2>2. CASE ~(k > i)
    <3>1. k \in 1..i - 1 /\ (n - i) + k \in 1..n - 1
      BY <1>1, <1>3, <2>2
    <3>2. f[k] = (n - i) + k
      BY <2>2
    <3> QED
      BY <1>1, <1>3, <3>1, <3>2 DEF Foreigners
  <2> QED
    BY <2>1, <2>2
<1>5. ASSUME NEW k \in Foreigners(q), NEW l \in Foreigners(q), f[k] = f[l]
      PROVE  k = l
  <2>1. (IF k > i THEN k - i ELSE (n - i) + k)
          = (IF l > i THEN l - i ELSE (n - i) + l)
    BY <1>5
  <2> HIDE DEF f
  <2>2. /\ k \in 1..n /\ l \in 1..n /\ k # i /\ l # i
        /\ n \in Nat /\ i \in 1..n
    BY <1>1, <1>3
  <2>3. CASE k > i /\ l > i
    BY <2>1, <2>2, <2>3
  <2>4. CASE ~(k > i) /\ ~(l > i)
    BY <2>1, <2>2, <2>4
  <2>5. CASE k > i /\ ~(l > i)
    <3>1. k - i = (n - i) + l /\ k - i <= n - i /\ (n - i) + l > n - i
      BY <2>1, <2>2, <2>5
    <3> QED
      BY <2>2, <3>1
  <2>6. CASE ~(k > i) /\ l > i
    <3>1. l - i = (n - i) + k /\ l - i <= n - i /\ (n - i) + k > n - i
      BY <2>1, <2>2, <2>6
    <3> QED
      BY <2>2, <3>1
  <2> QED
    BY <2>3, <2>4, <2>5, <2>6
<1>6. ASSUME NEW m \in Foreigners(r)
      PROVE  \E k \in Foreigners(q) : f[k] = m
  <2>1. m \in 1..n - 1 /\ r[m] = "foreign"
    BY <1>1 DEF Foreigners
  <2>2. CASE m <= n - i
    <3>1. m \in 1..n - i /\ i + m \in 1..n /\ i + m > i /\ (i + m) - i = m
      BY <1>1, <2>1, <2>2
    <3>2. i + m \in Foreigners(q)
      BY <1>1, <1>2, <2>1, <3>1 DEF Foreigners
    <3>3. f[i + m] = m
      BY <3>1, <3>2
    <3> QED
      BY <3>2, <3>3
  <2>3. CASE m > n - i
    <3> DEFINE k == m - (n - i)
    <3>1. /\ k \in 1..i - 1 /\ k \in 1..n /\ ~(k > i)
          /\ (n - i) + k = m
      BY <1>1, <2>1, <2>3
    <3> HIDE DEF k
    <3>2. k \in Foreigners(q)
      BY <1>1, <1>2, <2>1, <3>1 DEF Foreigners
    <3>3. f[k] = m
      BY <3>1, <3>2
    <3> QED
      BY <3>2, <3>3
  <2> QED
    BY <1>1, <2>1, <2>2, <2>3
<1>7. f \in Bijection(Foreigners(q), Foreigners(r))
  <2>1. f \in [Foreigners(q) -> Foreigners(r)]
    BY <1>4
  <2> HIDE DEF f
  <2> QED
    BY <1>5, <1>6, <2>1 DEF Bijection, Injection, Surjection,
                              IsInjective
<1> HIDE DEF f
<1>8. Cardinality(Foreigners(r)) = Cardinality(Foreigners(q))
  BY <1>1, <1>7, SameCount
<1> QED
  BY <1>1, <1>8 DEF r

-----------------------------------------------------------------------------
(* Where a running trial is.                                                *)
LEMMA PlanOfTrial ==
  ASSUME TrialTyped
  PROVE  Planned0(trial.program, trial.path, Steps)
<1>1. /\ trial.program \in Programs
      /\ trial.path \in PathsOf(trial.program)
  BY DEF TrialTyped
<1>2. CASE trial.program = "delivery"
  <2>1. trial.path \in {"positive", "denial", "recovery"}
    BY <1>1, <1>2 DEF PathsOf
  <2> QED
    BY <1>2, <2>1, DeliveryPlan DEF Steps
<1>3. CASE trial.program = "restart"
  <2>1. trial.path \in {"denial", "recovery"}
    BY <1>1, <1>3 DEF PathsOf
  <2> QED
    BY <1>3, <2>1, RestartPlan DEF Steps
<1>4. CASE trial.program = "approval"
  <2>1. trial.path = "positive"
    BY <1>1, <1>4 DEF PathsOf
  <2> QED
    BY <1>4, <2>1, ApprovalPlan DEF Steps
<1>5. CASE trial.program = "path"
  <2>1. trial.path \in {"positive", "denial", "recovery"}
    BY <1>1, <1>5 DEF PathsOf
  <2> QED
    BY <1>5, <2>1, PathPlan DEF Steps
<1> QED
  BY <1>1, <1>2, <1>3, <1>4, <1>5 DEF Programs

(* Where a run of the delivery program stands tells what is done. *)
LEMMA WhereDelivery ==
  ASSUME TrialTyped, RunHeld, trial.state = "run", trial.program = "delivery"
  PROVE  /\ Len(Steps) = IF trial.path = "denial" THEN 17
                         ELSE SettledAt(trial.path) + 2
         /\ trial.at = SettledAt(trial.path) =>
              Step = IF trial.path = "denial" THEN "examine_denied"
                                              ELSE "examine_delivered"
         /\ trial.at > SettledAt(trial.path) =>
              Step \in {"late_claim", "late_complete"}
<1>1. trial.path \in {"positive", "denial", "recovery"}
  BY DEF TrialTyped, PathsOf
<1>2. trial.at \in 1..Len(Steps)
  BY DEF RunHeld
<1>3. Planned0("delivery", trial.path, Steps)
  BY PlanOfTrial
<1> QED
  BY <1>1, <1>2, <1>3, DeliveryPlan DEF Steps, Step, Planned0, LengthOfPlan

(* Where a run of the restart program stands tells what is done. *)
LEMMA WhereRestart ==
  ASSUME TrialTyped, RunHeld, trial.state = "run", trial.program = "restart"
  PROVE  /\ Len(Steps) = IF trial.path = "recovery" THEN 9 ELSE 8
         /\ trial.path \in {"denial", "recovery"}
         /\ trial.at = 8 <=> Step = "stale_resume"
         /\ trial.at = 9 <=> Step = "exact_resume"
<1>1. trial.path \in {"denial", "recovery"}
  BY DEF TrialTyped, PathsOf
<1>2. trial.at \in 1..Len(Steps)
  BY DEF RunHeld
<1>3. Planned0("restart", trial.path, Steps)
  BY PlanOfTrial
<1>4. Len(Steps) = IF trial.path = "recovery" THEN 9 ELSE 8
  BY <1>3 DEF Planned0, LengthOfPlan
<1>5. /\ Steps[8] = "stale_resume"
      /\ trial.path = "recovery" => Steps[9] = "exact_resume"
      /\ \A i \in 1..7 : Steps[i] \notin {"stale_resume", "exact_resume"}
  BY <1>1, RestartPlan DEF Steps
<1>6. trial.at \in 1..7 \/ trial.at = 8
      \/ (trial.at = 9 /\ trial.path = "recovery")
  <2> DEFINE n == Len(Steps)
  <2>1. (n = 9 /\ trial.path = "recovery") \/ n = 8
    BY <1>4
  <2>2. trial.at \in 1..n
    BY <1>2
  <2> HIDE DEF n
  <2>3. CASE n = 8
    <3>1. trial.at \in 1..8
      BY <2>2, <2>3
    <3> QED
      BY <3>1
  <2>4. CASE n = 9 /\ trial.path = "recovery"
    <3>1. trial.at \in 1..9
      BY <2>2, <2>4
    <3> QED
      BY <2>4, <3>1
  <2> QED
    BY <2>1, <2>3, <2>4
<1> QED
  BY <1>1, <1>4, <1>5, <1>6 DEF Step

(* Where a run of the path program stands tells what is done. *)
LEMMA WherePath ==
  ASSUME TrialTyped, RunHeld, trial.state = "run", trial.program = "path"
  PROVE  /\ Len(Steps) = Len(Planned(trial.path)) + 10
         /\ trial.path \in {"positive", "denial", "recovery"}
         /\ Len(Planned(trial.path)) \in {1, 2}
         /\ Step = "attempt" <=> trial.at \in 10..Len(Steps) - 1
         /\ Step = "verdict" <=> trial.at = Len(Steps)
<1>1. trial.path \in {"positive", "denial", "recovery"}
  BY DEF TrialTyped, PathsOf
<1>2. trial.at \in 1..Len(Steps)
  BY DEF RunHeld
<1>3. Planned0("path", trial.path, Steps)
  BY PlanOfTrial
<1> DEFINE n == Len(Steps)
<1>4. n \in {11, 12}
  BY <1>3 DEF Planned0, LengthOfPlan
<1>5. /\ Len(Planned(trial.path)) = n - 10
      /\ Steps[n] = "verdict"
      /\ \A i \in 1..n : Steps[i] = "attempt" <=> i \in 10..n - 1
      /\ \A i \in 1..n - 1 : Steps[i] # "verdict"
  BY <1>1, PathPlan, SMTT(60) DEF Steps
<1> HIDE DEF n
<1>6. trial.at = n \/ trial.at \in 1..n - 1
  BY <1>2, <1>4 DEF n
<1>7. trial.at \in 1..n
  BY <1>2 DEF n
<1>8. Len(Planned(trial.path)) + 10 = n /\ Len(Planned(trial.path)) \in {1, 2}
  BY <1>4, <1>5
<1>9. n \notin 1..n - 1
  BY <1>4
<1> QED
  BY <1>1, <1>5, <1>6, <1>7, <1>8, <1>9 DEF Step, n

(* How a step leaves the program: it raised, it went on, or it passed.      *)
Goes ==
  /\ trial'.program = trial.program /\ trial'.path = trial.path
  /\ trial'.foreign = trial.foreign
  /\ \/ trial'.status = "raised" /\ trial'.state # "run"
     \/ /\ trial.at < Len(Steps) /\ trial'.at = trial.at + 1
        /\ trial'.state = "run" /\ trial'.status = "none"
     \/ /\ trial.at = Len(Steps)
        /\ trial'.state = "sweep" /\ trial'.status = "PASS"

(* A step that succeeds moves the trial one step on. *)
LEMMA AdvanceMoves ==
  ASSUME TrialControl, trial.state = "run",
         NEW held \in SUBSET Taken(trial.program), trial' = Advance(held)
  PROVE  TrialControl' /\ Goes
<1>1. /\ TrialTyped /\ RunHeld /\ trial.at \in 1..Len(Steps)
      /\ trial.program \in Programs
  BY DEF TrialControl, RunHeld, TrialTyped
<1>2. Len(Steps) \in Nat
  BY <1>1, PlanOfTrial, LenProperties DEF Planned0
<1>3. Taken(trial.program) \subseteq Parts
  BY <1>1 DEF Taken, Parts, Programs
<1>4. CASE trial.at < Len(Steps)
  <2>1. trial' = [trial EXCEPT !.at = @ + 1, !.held = held]
    BY <1>4 DEF Advance
  <2>2. /\ trial'.program = trial.program /\ trial'.path = trial.path
        /\ trial'.at = trial.at + 1 /\ trial'.held = held
        /\ trial'.state = "run" /\ trial'.status = "none"
        /\ trial'.inside = trial.inside /\ trial'.swept = 0
        /\ trial'.skipped = trial.skipped /\ trial'.foreign = trial.foreign
    BY <1>1, <2>1 DEF TrialTyped, RunHeld
  <2>3. Steps' = Steps
    BY <2>2 DEF Steps
  <2>4. trial'.at \in 1..Len(Steps)
    BY <1>1, <1>2, <1>4, <2>2
  <2>5. TrialTyped'
    <3>1. trial.at + 1 \in Nat /\ held \in SUBSET Parts
      BY <1>1, <1>2, <1>3
    <3> QED
      BY <1>1, <2>1, <2>2, <3>1 DEF TrialTyped
  <2>6. RunHeld'
    BY <1>1, <2>2, <2>3, <2>4 DEF RunHeld
  <2> QED
    BY <1>4, <2>2, <2>5, <2>6
       DEF TrialControl, SweepHeld, LeaveHeld, TrialLeavesNothing, Goes
<1>5. CASE ~(trial.at < Len(Steps))
  <2>1. trial' = [trial EXCEPT !.state = "sweep", !.held = held,
                               !.status = "PASS"]
    BY <1>5 DEF Advance
  <2>2. /\ trial'.program = trial.program /\ trial'.path = trial.path
        /\ trial'.at = trial.at /\ trial'.held = held
        /\ trial'.state = "sweep" /\ trial'.status = "PASS"
        /\ trial'.inside = trial.inside /\ trial'.swept = 0
        /\ trial'.skipped = FALSE /\ trial'.foreign = trial.foreign
    BY <1>1, <2>1 DEF TrialTyped, RunHeld
  <2>3. trial.at = Len(Steps)
    BY <1>1, <1>2, <1>5
  <2>4. TrialTyped'
    BY <1>1, <1>3, <2>1, <2>2 DEF TrialTyped
  <2>5. Len(Swept') \in Nat
    BY <1>1, <2>2 DEF Swept, Sweep, Programs, PathSweep
  <2>6. SweepHeld'
    BY <2>2, <2>5 DEF SweepHeld
  <2> QED
    BY <2>2, <2>3, <2>4, <2>6
       DEF TrialControl, RunHeld, LeaveHeld, TrialLeavesNothing, Goes
<1> QED
  BY <1>4, <1>5

(* A step that raises ends the program and starts its cleanup. *)
LEMMA RaiseMoves ==
  ASSUME TrialControl, trial.state = "run",
         NEW held \in SUBSET Taken(trial.program), trial' = RaiseWith(held)
  PROVE  TrialControl' /\ Goes /\ trial'.status = "raised"
<1>1. /\ TrialTyped /\ RunHeld /\ trial.at \in 1..Len(Steps)
      /\ trial.program \in Programs
  BY DEF TrialControl, RunHeld, TrialTyped
<1>3. Taken(trial.program) \subseteq Parts
  BY <1>1 DEF Taken, Parts, Programs
<1>4. CASE trial.at >= TryAt
  <2>1. trial' = [trial EXCEPT !.state = "sweep", !.status = "raised",
                               !.inside = TRUE, !.held = held]
    BY <1>4 DEF RaiseWith
  <2>2. /\ trial'.program = trial.program /\ trial'.path = trial.path
        /\ trial'.at = trial.at /\ trial'.held = held
        /\ trial'.state = "sweep" /\ trial'.status = "raised"
        /\ trial'.inside = TRUE /\ trial'.swept = 0
        /\ trial'.skipped = FALSE /\ trial'.foreign = trial.foreign
    BY <1>1, <2>1 DEF TrialTyped, RunHeld
  <2>3. TrialTyped'
    BY <1>1, <1>3, <2>1, <2>2 DEF TrialTyped
  <2>4. Len(Swept') \in Nat
    BY <1>1, <2>2 DEF Swept, Sweep, Programs, PathSweep
  <2>5. SweepHeld'
    BY <2>2, <2>4 DEF SweepHeld
  <2> QED
    BY <2>2, <2>3, <2>5
       DEF TrialControl, RunHeld, LeaveHeld, TrialLeavesNothing, Goes
<1>5. CASE ~(trial.at >= TryAt)
  <2> DEFINE left == IF Step = "fixture" THEN {} ELSE held
  <2>1. trial' = [trial EXCEPT !.state = "leave", !.status = "raised",
                               !.held = left]
    BY <1>5 DEF RaiseWith
  <2>2. left \subseteq Taken(trial.program)
    OBVIOUS
  <2> HIDE DEF left
  <2>3. /\ trial'.program = trial.program /\ trial'.path = trial.path
        /\ trial'.at = trial.at /\ trial'.held = left
        /\ trial'.state = "leave" /\ trial'.status = "raised"
        /\ trial'.inside = FALSE /\ trial'.swept = 0
        /\ trial'.skipped = FALSE /\ trial'.foreign = trial.foreign
    BY <1>1, <2>1 DEF TrialTyped, RunHeld
  <2>4. TrialTyped'
    BY <1>1, <1>3, <2>1, <2>2, <2>3 DEF TrialTyped
  <2> QED
    BY <2>3, <2>4
       DEF TrialControl, RunHeld, SweepHeld, LeaveHeld, TrialLeavesNothing,
           Goes
<1> QED
  BY <1>4, <1>5

(* A check moves the trial on or raises. *)
LEMMA CheckMoves ==
  ASSUME TrialControl, trial.state = "run", NEW ok \in BOOLEAN, Checked(ok)
  PROVE  /\ TrialControl' /\ Goes
         /\ ~ok => trial'.status = "raised"
<1>1. trial.held \in SUBSET Taken(trial.program)
  BY DEF TrialControl, TrialTyped, Lost, ManagerUnsaved
<1>2. CASE ok
  BY <1>1, <1>2, AdvanceMoves DEF Checked
<1>3. CASE ~ok
  BY <1>1, <1>3, RaiseMoves DEF Checked, Raise
<1> QED
  BY <1>2, <1>3

-----------------------------------------------------------------------------
(* What each kind of step does to the queue, the row and what was seen.     *)
LEMMA QueueStep ==
  ASSUME TrialTyped, RunHeld, QueueKept, trial.state = "run", Goes,
         queue' \in Seq(Events),
         trial.program = "delivery" /\ trial'.status # "raised" =>
           Cardinality(Foreigners(queue')) = Cardinality(Foreigners(queue))
  PROVE  QueueKept'
<1>1. trial.status # "raised"
  BY DEF RunHeld
<1>2. Foreigners(queue)' = Foreigners(queue')
  BY DEF Foreigners
<1> QED
  BY <1>1, <1>2 DEF QueueKept, Goes

Row == [delivery : {"pending", "claimed", "delivered"}, attempts : Nat,
        rows : Nat]

(* What a step of the delivery program does to the delivery row. *)
LEMMA RowStep ==
  ASSUME TrialTyped, RunHeld, RowSettled, trial.state = "run", Goes,
         store' \in Row,
         trial.program = "delivery" /\ trial'.status # "raised" =>
           /\ trial.at = SettledAt(trial.path) => store' = Examined
           /\ trial.at > SettledAt(trial.path) => store' = store
  PROVE  RowSettled'
<1>1. trial.status = "none" /\ trial.at \in Nat
  BY DEF RunHeld, TrialTyped
<1>2. Examined' = Examined
  BY DEF Goes, Examined, DeliveredRow
<1>3. SettledAt(trial'.path) = SettledAt(trial.path)
      /\ SettledAt(trial.path) \in {17, 20}
  BY DEF Goes, SettledAt
<1>4. ASSUME trial'.program = "delivery", trial'.status # "raised",
             trial'.status = "PASS" \/ trial'.at > SettledAt(trial'.path)
      PROVE  store' = Examined
  <2>1. trial.program = "delivery"
    BY <1>4 DEF Goes
  <2>2. Len(Steps) >= SettledAt(trial.path)
    <3>1. Len(Steps) = IF trial.path = "denial" THEN 17
                       ELSE SettledAt(trial.path) + 2
      BY <2>1, WhereDelivery
    <3>2. trial.path = "denial" => SettledAt(trial.path) = 17
      BY DEF SettledAt
    <3> QED
      BY <1>3, <3>1, <3>2
  <2>3. trial.at >= SettledAt(trial.path)
    <3>1. CASE trial'.at = trial.at + 1 /\ trial'.status = "none"
      BY <1>1, <1>3, <1>4, <3>1
    <3>2. CASE trial.at = Len(Steps)
      BY <2>2, <3>2
    <3> QED
      BY <1>4, <3>1, <3>2 DEF Goes
  <2>4. CASE trial.at = SettledAt(trial.path)
    BY <1>4, <2>1, <2>4
  <2>5. CASE trial.at > SettledAt(trial.path)
    BY <1>1, <1>4, <2>1, <2>5 DEF RowSettled
  <2> QED
    BY <1>1, <1>3, <2>3, <2>4, <2>5
<1> QED
  BY <1>2, <1>4 DEF RowSettled, Row

(* Before its resumptions a restart does not pass, nor does a path trial    *)
(* before its attempts.                                                     *)
LEMMA BeforeResume ==
  ASSUME TrialTyped, RunHeld, trial.state = "run", Goes,
         trial.program = "restart",
         Step \notin {"stale_resume", "exact_resume"}
  PROVE  /\ trial'.status # "PASS"
         /\ trial'.state = "run" => ~(trial'.at > 8)
<1>1. trial.at \in Nat /\ trial.at \in 1..Len(Steps)
  BY DEF TrialTyped, RunHeld
<1>2. trial.at # 8 /\ trial.at # 9 /\ Len(Steps) \in {8, 9}
  BY WhereRestart
<1>3. trial.at < 8 /\ trial.at # Len(Steps)
  <2>1. CASE Len(Steps) = 8
    <3>1. trial.at \in 1..8
      BY <1>1, <2>1
    <3> QED
      BY <1>2, <2>1, <3>1
  <2>2. CASE Len(Steps) = 9
    <3>1. trial.at \in 1..9
      BY <1>1, <2>2
    <3> QED
      BY <1>2, <2>2, <3>1
  <2> QED
    BY <1>2, <2>1, <2>2
<1>4. trial'.state = "run" => ~(trial'.at > 8)
  BY <1>1, <1>3 DEF Goes
<1>5. trial'.status # "PASS"
  BY <1>3 DEF Goes
<1> QED
  BY <1>4, <1>5

(* Before the attempts of the path program nothing was observed. *)
LEMMA BeforeAttempts ==
  ASSUME TrialTyped, RunHeld, SeenSoFar, trial.state = "run", Goes,
         trial.program = "path", Step \notin {"attempt", "verdict"}
  PROVE  /\ trial'.status # "PASS" /\ Len(seen.attempts) = 0
         /\ trial'.state = "run" => trial'.at <= 10
<1> DEFINE n == Len(Steps)
<1>1. trial.at \in Nat /\ trial.at \in 1..n
  BY DEF TrialTyped, RunHeld
<1>2. n = Len(Planned(trial.path)) + 10 /\ Len(Planned(trial.path)) \in {1, 2}
  BY WherePath
<1>3. trial.at # n /\ trial.at \notin 10..n - 1
  BY WherePath
<1>4. n \in {11, 12}
  <2> HIDE DEF n
  <2>1. 1 + 10 = 11 /\ 2 + 10 = 12
    OBVIOUS
  <2>2. CASE Len(Planned(trial.path)) = 1
    BY <1>2, <2>1, <2>2
  <2>3. CASE Len(Planned(trial.path)) = 2
    BY <1>2, <2>1, <2>3
  <2> QED
    BY <1>2, <2>2, <2>3
<1>5. trial.at < 10
  <2> HIDE DEF n
  <2>1. CASE n = 11
    BY <1>1, <1>3, <2>1
  <2>2. CASE n = 12
    BY <1>1, <1>3, <2>2
  <2> QED
    BY <1>4, <2>1, <2>2
<1>6. trial'.state = "run" => trial'.at <= 10
  BY <1>1, <1>5 DEF Goes
<1>7. trial'.status # "PASS"
  BY <1>3 DEF Goes
<1>8. trial.at <= 10
  BY <1>1, <1>5
<1> QED
  BY <1>6, <1>7, <1>8 DEF SeenSoFar

(* A step that sees nothing of the host: what was seen still agrees, and    *)
(* it is not the step that makes a restart or a path trial pass.            *)
LEMMA SeenStep ==
  ASSUME TrialTyped, RunHeld, SeenSoFar, trial.state = "run", Goes,
         seen' = seen,
         Step \notin {"stale_resume", "exact_resume", "attempt", "verdict"}
  PROVE  /\ SeenSoFar'
         /\ trial'.status = "PASS" => trial.program \notin {"restart", "path"}
<1>1. trial'.program = trial.program /\ trial'.path = trial.path
  BY DEF Goes
<1>2. CASE trial.program = "restart"
  BY <1>1, <1>2, BeforeResume DEF SeenSoFar
<1>3. CASE trial.program = "path"
  BY <1>1, <1>3, BeforeAttempts DEF SeenSoFar
<1>4. CASE trial.program \notin {"restart", "path"}
  BY <1>1, <1>4 DEF SeenSoFar
<1> QED
  BY <1>2, <1>3, <1>4

(* A trial passes: it has observed what it reports.                         *)
LEMMA PassStep ==
  ASSUME TrialTyped', QueueKept', RowSettled',
         trial'.status = "PASS" =>
           /\ trial'.program = "restart" =>
                /\ seen'.stale = "refused"
                /\ seen'.resumed \notin {"other", "error"}
           /\ trial'.program = "path" =>
                /\ seen'.decisions = Planned(trial'.path)
                /\ \A i \in DOMAIN seen'.attempts :
                     seen'.attempts[i].present =>
                       \E k \in 1 .. i : Planned(trial'.path)[k] = "once"
                /\ Last(seen'.attempts).terminal =
                     IF Last(seen'.decisions) = "once"
                     THEN "completed" ELSE "denied"
  PROVE  PassIsObserved'
<1>1. SUFFICES ASSUME trial'.status = "PASS", trial'.program = "delivery"
      PROVE  /\ store'.attempts = IF trial'.path = "recovery" THEN 2 ELSE 1
             /\ IF trial'.path = "denial"
                THEN store'.delivery = "pending" /\ store'.rows = 0
                ELSE store'.delivery = "delivered" /\ store'.rows = 1
             /\ Cardinality({i \in DOMAIN queue' : queue'[i] = "foreign"})
                  = trial'.foreign
  BY DEF PassIsObserved
<1>2. Cardinality({i \in DOMAIN queue' : queue'[i] = "foreign"})
        = trial'.foreign
  BY <1>1 DEF QueueKept, Foreigners
<1>3. trial'.path \in {"positive", "denial", "recovery"}
  BY DEF TrialTyped
<1>4. store' = IF trial'.path = "denial"
               THEN [delivery |-> "pending", attempts |-> 1, rows |-> 0]
               ELSE [delivery |-> "delivered", rows |-> 1,
                     attempts |-> IF trial'.path = "positive" THEN 1 ELSE 2]
  BY <1>1 DEF RowSettled, Examined, NewRow, DeliveredRow
<1> QED
  BY <1>2, <1>3, <1>4

(* A step that neither resumes a session nor attempts a turn.               *)
LEMMA QuietStep ==
  ASSUME TrialInv, trial.state = "run", Goes, TrialControl',
         queue' \in Seq(Events),
         trial.program = "delivery" /\ trial'.status # "raised" =>
           Cardinality(Foreigners(queue')) = Cardinality(Foreigners(queue)),
         store' \in Row,
         trial.program = "delivery" /\ trial'.status # "raised" =>
           /\ trial.at = SettledAt(trial.path) => store' = Examined
           /\ trial.at > SettledAt(trial.path) => store' = store,
         seen' = seen,
         Step \notin {"stale_resume", "exact_resume", "attempt", "verdict"}
  PROVE  TrialInv'
<1>1. /\ TrialTyped /\ RunHeld /\ TrialTyped' /\ QueueKept /\ RowSettled
      /\ SeenSoFar
  BY DEF TrialInv, TrialControl
<1>2. QueueKept'
  BY <1>1, QueueStep
<1>3. RowSettled'
  BY <1>1, RowStep
<1>4. /\ SeenSoFar'
      /\ trial'.status = "PASS" => trial.program \notin {"restart", "path"}
  BY <1>1, SeenStep
<1>5. trial'.program = trial.program
  BY DEF Goes
<1>6. PassIsObserved'
  BY <1>1, <1>2, <1>3, <1>4, <1>5, PassStep
<1> QED
  BY <1>2, <1>3, <1>4, <1>6 DEF TrialInv

(* Away from the last examination of the row, it may change.                *)
LEMMA RowMayChange ==
  ASSUME TrialTyped, RunHeld, trial.state = "run",
         Step \notin {"examine_denied", "examine_delivered", "late_claim",
                      "late_complete"}
  PROVE  trial.program = "delivery" => ~(trial.at >= SettledAt(trial.path))
<1>1. trial.at \in Nat /\ SettledAt(trial.path) \in Nat
  BY DEF TrialTyped, SettledAt
<1> QED
  BY <1>1, WhereDelivery

-----------------------------------------------------------------------------
(* The trial takes its own completion from the queue. *)
LEMMA AwaitKeeps ==
  ASSUME TrialInv, AwaitEvent
  PROVE  TrialInv'
<1>1. /\ TrialControl /\ TrialTyped /\ RunHeld /\ trial.state = "run"
      /\ Step = "await" /\ queue \in Seq(Events) /\ store \in Row
      /\ store' = store /\ seen' = seen
  BY DEF TrialInv, TrialControl, QueueKept, RowSettled, Row, AwaitEvent,
         Reaches
<1>2. DOMAIN queue = 1..Len(queue)
  BY <1>1, LenProperties
<1> DEFINE mine == {i \in DOMAIN queue : IsMine(queue[i])}
<1>3. /\ TrialControl' /\ Goes /\ queue' \in Seq(Events)
      /\ trial'.status # "raised" =>
           Cardinality(Foreigners(queue')) = Cardinality(Foreigners(queue))
  <2>1. CASE mine = {}
    <3>1. trial' = RaiseWith(trial.held)
      BY <2>1 DEF AwaitEvent, Raise
    <3>2. queue' = queue \o <<>>
      BY <2>1 DEF AwaitEvent, PutBackHeld
    <3>3. queue' \in Seq(Events)
      BY <1>1, <3>2
    <3>4. trial.held \in SUBSET Taken(trial.program)
      BY <1>1 DEF TrialTyped, Lost, ManagerUnsaved, AwaitEvent, Reaches
    <3> QED
      BY <1>1, <3>1, <3>3, <3>4, RaiseMoves
  <2>2. CASE mine # {}
    <3> DEFINE i == CHOOSE k \in mine : TRUE
    <3>1. i \in mine
      BY <2>2
    <3>2. /\ queue' = SubSeq(queue, i + 1, Len(queue))
                        \o SubSeq(queue, 1, i - 1)
          /\ Checked(queue[i] = "mine")
      BY <2>2 DEF AwaitEvent, PutBackHeld
    <3> HIDE DEF i
    <3>3. i \in 1..Len(queue) /\ queue[i] # "foreign"
      BY <1>2, <3>1 DEF IsMine
    <3>4. queue' = Cycled(queue, i)
      BY <3>2 DEF Cycled
    <3> QED
      BY <1>1, <3>2, <3>3, <3>4, RotatedCount, CheckMoves
  <2> QED
    BY <2>1, <2>2
<1>4. trial.program = "delivery" => ~(trial.at >= SettledAt(trial.path))
  BY <1>1, RowMayChange
<1>5. trial.at \in Nat /\ SettledAt(trial.path) \in Nat
  BY <1>1 DEF TrialTyped, SettledAt
<1> QED
  BY <1>1, <1>3, <1>4, <1>5, QuietStep

(* The trial puts a completion back and looks for it at the head. *)
LEMMA RequeueKeeps ==
  ASSUME TrialInv, Requeue
  PROVE  TrialInv'
<1> DEFINE q == Append(queue, "mine")
           n == Len(q)
<1>1. /\ TrialControl /\ TrialTyped /\ RunHeld /\ trial.state = "run"
      /\ Step = "requeue" /\ queue \in Seq(Events) /\ store \in Row
      /\ store' = store /\ seen' = seen
      /\ queue' = Tail(q) /\ Checked(Head(q) = "mine")
  BY DEF TrialInv, TrialControl, QueueKept, RowSettled, Row, Requeue,
         Reaches
<1>2. "mine" \in Events \ {"foreign"} /\ "mine" \in Events
  BY DEF Events
<1>3. /\ q \in Seq(Events) /\ q # <<>> /\ Foreigners(q) = Foreigners(queue)
      /\ n \in Nat \ {0}
  BY <1>1, <1>2, OwnAdded, AppendProperties, EmptySeq
<1> HIDE DEF q, n
<1>4. Tail(q) \in Seq(Events)
  BY <1>3, HeadTailProperties
<1>5. /\ TrialControl' /\ Goes
      /\ Head(q) # "mine" => trial'.status = "raised"
  BY <1>1, CheckMoves
<1>6. ASSUME trial'.status # "raised"
      PROVE  Cardinality(Foreigners(queue')) = Cardinality(Foreigners(queue))
  <2>1. q[1] = "mine" /\ 1 \in 1..n
    <3>1. Head(q) = "mine"
      BY <1>5, <1>6
    <3>2. Head(q) = q[1]
      BY DEF Head
    <3>3. 1 \in 1..n
      BY <1>3
    <3> QED
      BY <3>1, <3>2, <3>3
  <2>2. Tail(q) = SubSeq(q, 2, n)
    BY <1>3, TailIsSubSeq DEF n
  <2>3. SubSeq(q, 1, 0) = <<>> /\ 1 + 1 = 2 /\ 1 - 1 = 0
    BY SubSeqEmpty
  <2>4. Cycled(q, 1) = Tail(q) \o <<>>
    BY <2>2, <2>3 DEF Cycled, n
  <2>5. Cycled(q, 1) = Tail(q)
    BY <1>4, <2>4, ConcatEmptySeq
  <2> QED
    BY <1>1, <1>3, <2>1, <2>5, RotatedCount DEF n
<1>7. trial.program = "delivery" => ~(trial.at >= SettledAt(trial.path))
  BY <1>1, RowMayChange
<1>8. trial.at \in Nat /\ SettledAt(trial.path) \in Nat
  BY <1>1 DEF TrialTyped, SettledAt
<1>9. /\ queue' \in Seq(Events) /\ store' \in Row
      /\ ~(trial.program = "delivery" /\ trial.at = SettledAt(trial.path))
      /\ ~(trial.program = "delivery" /\ trial.at > SettledAt(trial.path))
  BY <1>1, <1>4, <1>7, <1>8
<1> QED
  BY <1>1, <1>5, <1>6, <1>9, QuietStep

(* The steps on the host's row before its last examination.                 *)
LEMMA RowStepKeeps ==
  ASSUME TrialInv, trial.state = "run", NEW ok \in BOOLEAN, Checked(ok),
         queue' = queue, seen' = seen, store' \in Row,
         Step \notin {"stale_resume", "exact_resume", "attempt", "verdict",
                      "examine_denied", "examine_delivered", "late_claim",
                      "late_complete"}
  PROVE  TrialInv'
<1>1. /\ TrialControl /\ TrialTyped /\ RunHeld /\ queue \in Seq(Events)
  BY DEF TrialInv, TrialControl, QueueKept
<1>2. TrialControl' /\ Goes
  BY <1>1, CheckMoves
<1>3. trial.program = "delivery" => ~(trial.at >= SettledAt(trial.path))
  BY <1>1, RowMayChange
<1>4. trial.at \in Nat /\ SettledAt(trial.path) \in Nat
  BY <1>1 DEF TrialTyped, SettledAt
<1>5. /\ ~(trial.program = "delivery" /\ trial.at = SettledAt(trial.path))
      /\ ~(trial.program = "delivery" /\ trial.at > SettledAt(trial.path))
  BY <1>3, <1>4
<1>6. queue' \in Seq(Events) /\ Foreigners(queue') = Foreigners(queue)
  BY <1>1
<1> QED
  BY <1>2, <1>5, <1>6, QuietStep

(* A claim, a release or a completion of the delivery row. *)
LEMMA ClaimKeeps ==
  ASSUME TrialInv, NEW works \in BOOLEAN,
         \/ Claim(works) \/ Release(works) \/ Complete(works)
  PROVE  TrialInv'
<1>1. store \in Row /\ store.attempts + 1 \in Nat
  BY DEF TrialInv, RowSettled, Row
<1>2. CASE Claim(works)
  <2>1. store' \in Row
    <3>1. CASE works
      BY <1>1, <1>2, <3>1 DEF Claim, Claimed, Row
    <3>2. CASE ~works
      BY <1>1, <1>2, <3>2 DEF Claim
    <3> QED
      BY <3>1, <3>2
  <2>2. trial.state = "run" /\ Step = "claim" /\ Checked(works)
        /\ queue' = queue /\ seen' = seen
    BY <1>2 DEF Claim, Reaches
  <2> QED
    BY <2>1, <2>2, RowStepKeeps
<1>3. CASE Release(works)
  <2>1. store' \in Row
    BY <1>1, <1>3 DEF Release, Row
  <2>2. trial.state = "run" /\ Step = "release" /\ Checked(TRUE)
        /\ queue' = queue /\ seen' = seen
    BY <1>3 DEF Release, Reaches
  <2> QED
    BY <2>1, <2>2, RowStepKeeps
<1>4. CASE Complete(works)
  <2>1. store' \in Row
    BY <1>1, <1>4 DEF Complete, Row
  <2>2. trial.state = "run" /\ Step = "complete" /\ Checked(TRUE)
        /\ queue' = queue /\ seen' = seen
    BY <1>4 DEF Complete, Reaches
  <2> QED
    BY <2>1, <2>2, RowStepKeeps
<1> QED
  BY <1>2, <1>3, <1>4

(* The trial writes its delivery rows. *)
LEMMA PersistKeeps ==
  ASSUME TrialInv, NEW rows \in 0 .. 2, Persist(rows)
  PROVE  TrialInv'
<1>1. store \in Row /\ store.rows + rows \in Nat
  BY DEF TrialInv, RowSettled, Row
<1>2. store' \in Row
  BY <1>1 DEF Persist, Row
<1>3. trial.state = "run" /\ Step = "persist" /\ Checked(TRUE)
      /\ queue' = queue /\ seen' = seen
  BY DEF Persist, Reaches
<1> QED
  BY <1>2, <1>3, RowStepKeeps

(* The trial looks at a fresh delivery row. *)
LEMMA FirstExamineKeeps ==
  ASSUME TrialInv, Examine("examine", NewRow)
  PROVE  TrialInv'
<1>1. /\ trial.state = "run" /\ Step = "examine" /\ queue' = queue
      /\ seen' = seen /\ store' = store /\ Checked(store = NewRow)
  BY DEF Examine, Reaches
<1>2. store' \in Row /\ (store = NewRow) \in BOOLEAN
  BY <1>1 DEF TrialInv, RowSettled, Row
<1> QED
  BY <1>1, <1>2, RowStepKeeps

(* The last examination, and the late operations after it.                  *)
LEMMA LateStepKeeps ==
  ASSUME TrialInv, trial.state = "run", NEW ok \in BOOLEAN, Checked(ok),
         queue' = queue, seen' = seen, store' \in Row,
         Step \in {"examine_denied", "examine_delivered", "late_claim",
                   "late_complete"},
         trial.program = "delivery" /\ ok =>
           /\ trial.at = SettledAt(trial.path) => store' = Examined
           /\ trial.at > SettledAt(trial.path) => store' = store
  PROVE  TrialInv'
<1>1. /\ TrialControl /\ TrialTyped /\ RunHeld /\ queue \in Seq(Events)
  BY DEF TrialInv, TrialControl, QueueKept
<1>2. TrialControl' /\ Goes /\ (trial'.status # "raised" => ok)
  BY <1>1, CheckMoves
<1>3. queue' \in Seq(Events) /\ Foreigners(queue') = Foreigners(queue)
  BY <1>1
<1>4. Step \notin {"stale_resume", "exact_resume", "attempt", "verdict"}
  OBVIOUS
<1> QED
  BY <1>2, <1>3, <1>4, QuietStep

(* The trial looks at the row for the last time, denied or delivered. *)
LEMMA LastExamineKeeps ==
  ASSUME TrialInv,
         \/ Examine("examine_denied", [NewRow EXCEPT !.attempts = 1])
         \/ Examine("examine_delivered", DeliveredRow)
  PROVE  TrialInv'
<1>1. TrialTyped /\ RunHeld /\ store \in Row
  BY DEF TrialInv, TrialControl, RowSettled, Row
<1>2. CASE Examine("examine_denied", [NewRow EXCEPT !.attempts = 1])
  <2> DEFINE ok == store = [NewRow EXCEPT !.attempts = 1]
  <2>1. /\ trial.state = "run" /\ Step = "examine_denied" /\ queue' = queue
        /\ seen' = seen /\ store' = store /\ Checked(ok) /\ ok \in BOOLEAN
    BY <1>2 DEF Examine, Reaches
  <2>2. ASSUME trial.program = "delivery", ok,
               trial.at = SettledAt(trial.path)
        PROVE  store' = Examined
    BY <1>1, <2>1, <2>2, WhereDelivery DEF Examined
  <2> HIDE DEF ok
  <2> QED
    BY <1>1, <2>1, <2>2, LateStepKeeps
<1>3. CASE Examine("examine_delivered", DeliveredRow)
  <2> DEFINE ok == store = DeliveredRow
  <2>1. /\ trial.state = "run" /\ Step = "examine_delivered" /\ queue' = queue
        /\ seen' = seen /\ store' = store /\ Checked(ok) /\ ok \in BOOLEAN
    BY <1>3 DEF Examine, Reaches
  <2>2. ASSUME trial.program = "delivery", ok,
               trial.at = SettledAt(trial.path)
        PROVE  store' = Examined
    BY <1>1, <2>1, <2>2, WhereDelivery DEF Examined
  <2> HIDE DEF ok
  <2> QED
    BY <1>1, <2>1, <2>2, LateStepKeeps
<1> QED
  BY <1>2, <1>3

(* A claim or a completion that comes too late. *)
LEMMA LateKeeps ==
  ASSUME TrialInv, NEW flag \in BOOLEAN,
         LateClaim(flag) \/ LateComplete(flag)
  PROVE  TrialInv'
<1>1. /\ TrialTyped /\ RunHeld /\ store \in Row
      /\ store.attempts + 1 \in Nat /\ store.rows + 1 \in Nat
  BY DEF TrialInv, TrialControl, RowSettled, Row
<1>2. ASSUME trial.state = "run", Step \in {"late_claim", "late_complete"}
      PROVE  ~(trial.program = "delivery"
               /\ trial.at = SettledAt(trial.path))
  BY <1>1, <1>2, WhereDelivery
<1>3. CASE LateClaim(flag)
  <2>1. /\ trial.state = "run" /\ Step = "late_claim" /\ queue' = queue
        /\ seen' = seen /\ Checked(~flag) /\ (~flag) \in BOOLEAN
        /\ ~flag => store' = store
    BY <1>3 DEF LateClaim, Reaches
  <2>2. store' \in Row
    BY <1>1, <1>3 DEF LateClaim, Claimed, Row
  <2> QED
    BY <1>2, <2>1, <2>2, LateStepKeeps
<1>4. CASE LateComplete(flag)
  <2> DEFINE ok == store' = store
  <2>1. /\ trial.state = "run" /\ Step = "late_complete" /\ queue' = queue
        /\ seen' = seen /\ Checked(ok) /\ ok \in BOOLEAN
    BY <1>4 DEF LateComplete, Reaches
  <2>2. store' \in Row
    BY <1>1, <1>4 DEF LateComplete, Row
  <2>3. ok => store' = store
    OBVIOUS
  <2> HIDE DEF ok
  <2> QED
    BY <1>2, <2>1, <2>2, <2>3, LateStepKeeps
<1> QED
  BY <1>3, <1>4

(* The plain steps, and the end of the first gateway of a restart.          *)
LEMMA HoldKeeps ==
  ASSUME TrialInv, trial.state = "run",
         NEW held \in SUBSET Taken(trial.program),
         trial' = Advance(held) \/ trial' = RaiseWith(held),
         queue' = queue, seen' = seen, store' = store,
         Step \notin {"stale_resume", "exact_resume", "attempt", "verdict",
                      "examine_denied", "examine_delivered", "late_claim",
                      "late_complete"}
  PROVE  TrialInv'
<1>1. /\ TrialControl /\ TrialTyped /\ RunHeld /\ queue \in Seq(Events)
      /\ store \in Row
  BY DEF TrialInv, TrialControl, QueueKept, RowSettled, Row
<1>2. TrialControl' /\ Goes
  BY <1>1, AdvanceMoves, RaiseMoves
<1>3. trial.program = "delivery" => ~(trial.at >= SettledAt(trial.path))
  BY <1>1, RowMayChange
<1>4. trial.at \in Nat /\ SettledAt(trial.path) \in Nat
  BY <1>1 DEF TrialTyped, SettledAt
<1>5. /\ ~(trial.program = "delivery" /\ trial.at = SettledAt(trial.path))
      /\ ~(trial.program = "delivery" /\ trial.at > SettledAt(trial.path))
  BY <1>3, <1>4
<1>6. queue' \in Seq(Events) /\ Foreigners(queue') = Foreigners(queue)
      /\ store' \in Row
  BY <1>1
<1> QED
  BY <1>2, <1>5, <1>6, QuietStep

(* A step that observes nothing, such as opening a part. *)
LEMMA PlainKeeps ==
  ASSUME TrialInv, NEW works \in BOOLEAN, PlainStep(works)
  PROVE  TrialInv'
<1>1. /\ TrialTyped /\ RunHeld /\ trial.state = "run"
      /\ trial.held \subseteq Taken(trial.program)
  BY DEF TrialInv, TrialControl, TrialTyped, Lost, ManagerUnsaved, PlainStep
<1>2. Planned0(trial.program, trial.path, Steps) /\ trial.at \in 1..Len(Steps)
  BY <1>1, PlanOfTrial DEF RunHeld
<1>3. Step \in Parts => Step \in Taken(trial.program)
  BY <1>2 DEF Planned0, Step
<1>4. BoundEarly \subseteq Parts
  BY DEF BoundEarly, Parts
<1>5. /\ trial.held \cup ({Step} \cap Parts) \in SUBSET Taken(trial.program)
      /\ trial.held \cup ({Step} \cap BoundEarly)
           \in SUBSET Taken(trial.program)
  BY <1>1, <1>3, <1>4
<1>6. /\ queue' = queue /\ seen' = seen /\ store' = store
      /\ Step \notin Special
      /\ \/ trial' = Advance(trial.held \cup ({Step} \cap Parts))
         \/ trial' = RaiseWith(trial.held \cup ({Step} \cap BoundEarly))
  BY DEF PlainStep
<1>7. Step \notin {"stale_resume", "exact_resume", "attempt", "verdict",
                   "examine_denied", "examine_delivered", "late_claim",
                   "late_complete"}
  BY <1>6 DEF Special
<1> QED
  BY <1>1, <1>5, <1>6, <1>7, HoldKeeps

(* The first gateway of a restart is closed. *)
LEMMA CloseFirstKeeps ==
  ASSUME TrialInv, NEW works \in BOOLEAN, CloseFirstGateway(works)
  PROVE  TrialInv'
<1>1. /\ trial.state = "run" /\ Step = "close_first"
      /\ trial.held \subseteq Taken(trial.program)
      /\ queue' = queue /\ seen' = seen /\ store' = store
      /\ \/ trial' = Advance(trial.held \ {"first"})
         \/ trial' = RaiseWith(trial.held)
  BY DEF TrialInv, TrialControl, TrialTyped, Lost, ManagerUnsaved,
         CloseFirstGateway, Reaches, Raise
<1>2. /\ trial.held \ {"first"} \in SUBSET Taken(trial.program)
      /\ trial.held \in SUBSET Taken(trial.program)
  BY <1>1
<1> QED
  BY <1>1, <1>2, HoldKeeps

-----------------------------------------------------------------------------
(* The steps that see something of the host.                                *)
ObservedRight ==
  /\ trial.program = "restart" =>
       seen.stale = "refused" /\ seen.resumed \notin {"other", "error"}
  /\ trial.program = "path" =>
       /\ seen.decisions = Planned(trial.path)
       /\ \A i \in DOMAIN seen.attempts : seen.attempts[i].present =>
            \E k \in 1 .. i : Planned(trial.path)[k] = "once"
       /\ Last(seen.attempts).terminal =
            IF Last(seen.decisions) = "once" THEN "completed" ELSE "denied"

(* A step that observes something and is then checked. *)
LEMMA SeeingStep ==
  ASSUME TrialInv, trial.state = "run", NEW ok \in BOOLEAN, Checked(ok),
         queue' = queue, store' = store,
         Step \in {"stale_resume", "exact_resume", "attempt", "verdict"},
         Goes => SeenSoFar' /\ (trial'.status = "PASS" => ObservedRight')
  PROVE  TrialInv'
<1>1. /\ TrialControl /\ TrialTyped /\ RunHeld /\ queue \in Seq(Events)
      /\ QueueKept /\ RowSettled /\ store \in Row
  BY DEF TrialInv, TrialControl, QueueKept, RowSettled, Row
<1>2. TrialControl' /\ Goes /\ TrialTyped'
  BY <1>1, CheckMoves DEF TrialControl
<1>3. trial.program = "delivery" => ~(trial.at >= SettledAt(trial.path))
  BY <1>1, RowMayChange
<1>4. trial.at \in Nat /\ SettledAt(trial.path) \in Nat
  BY <1>1 DEF TrialTyped, SettledAt
<1>5. /\ ~(trial.program = "delivery" /\ trial.at = SettledAt(trial.path))
      /\ ~(trial.program = "delivery" /\ trial.at > SettledAt(trial.path))
  BY <1>3, <1>4
<1>6. Foreigners(queue') = Foreigners(queue) /\ queue' \in Seq(Events)
      /\ store' \in Row
  BY <1>1
<1>7. QueueKept'
  BY <1>1, <1>2, <1>6, QueueStep
<1>8. RowSettled'
  BY <1>1, <1>2, <1>5, <1>6, RowStep
<1>9. PassIsObserved'
  <2>1. trial'.status = "PASS" =>
          /\ trial'.program = "restart" =>
               /\ seen'.stale = "refused"
               /\ seen'.resumed \notin {"other", "error"}
          /\ trial'.program = "path" =>
               /\ seen'.decisions = Planned(trial'.path)
               /\ \A i \in DOMAIN seen'.attempts : seen'.attempts[i].present =>
                    \E k \in 1 .. i : Planned(trial'.path)[k] = "once"
               /\ Last(seen'.attempts).terminal =
                    IF Last(seen'.decisions) = "once"
                    THEN "completed" ELSE "denied"
    BY <1>2 DEF ObservedRight
  <2> QED
    BY <1>2, <1>7, <1>8, <2>1, PassStep
<1> QED
  BY <1>2, <1>7, <1>8, <1>9 DEF TrialInv

(* The session is asked for under its old name. *)
LEMMA StaleResumeKeeps ==
  ASSUME TrialInv, NEW answer \in {"refused", "accepted", "error"},
         StaleResume(answer)
  PROVE  TrialInv'
<1> DEFINE ok == answer = "refused"
<1>1. /\ TrialTyped /\ RunHeld /\ SeenSoFar /\ TrialControl
      /\ trial.state = "run" /\ Step = "stale_resume"
      /\ Checked(ok) /\ ok \in BOOLEAN /\ queue' = queue /\ store' = store
      /\ seen' = [seen EXCEPT !.stale = answer]
  BY DEF TrialInv, TrialControl, StaleResume, Reaches
<1>2. ~ok => trial'.status = "raised"
  BY <1>1, CheckMoves
<1>3. ASSUME Goes
      PROVE  SeenSoFar' /\ (trial'.status = "PASS" => ObservedRight')
  <2>1. /\ trial'.program = trial.program /\ trial'.path = trial.path
        /\ seen'.stale = answer /\ seen'.resumed = seen.resumed
        /\ seen'.attempts = seen.attempts /\ seen'.decisions = seen.decisions
    BY <1>1, <1>3 DEF Goes, SeenSoFar
  <2>2. seen' \in [stale : {"none", "refused", "accepted", "error"},
                   resumed : {"none", "same", "other", "unnamed", "error"},
                   attempts :
                     Seq([terminal : {"completed", "denied", "failed"},
                          present : BOOLEAN]),
                   decisions : Seq({"deny", "once"})]
    BY <1>1 DEF SeenSoFar
  <2>3. trial'.status # "raised" => seen'.stale = "refused"
    BY <1>2, <2>1
  <2>4. trial'.state = "run" => trial'.status # "raised"
    BY <1>3 DEF Goes
  <2> HIDE DEF ok
  <2>5. CASE trial.program = "restart"
    BY <1>1, <2>1, <2>2, <2>3, <2>4, <2>5 DEF SeenSoFar, ObservedRight
  <2>6. CASE trial.program = "path"
    BY <1>1, <1>3, <2>1, <2>2, <2>6, BeforeAttempts DEF SeenSoFar
  <2>7. CASE trial.program \notin {"restart", "path"}
    BY <2>1, <2>2, <2>7 DEF SeenSoFar, ObservedRight
  <2> QED
    BY <2>5, <2>6, <2>7
<1> HIDE DEF ok
<1> QED
  BY <1>1, <1>3, SeeingStep

(* The session is asked for under its exact name. *)
LEMMA ExactResumeKeeps ==
  ASSUME TrialInv, NEW answer \in {"same", "other", "unnamed", "error"},
         ExactResume(answer)
  PROVE  TrialInv'
<1> DEFINE ok == SameSession(answer)
<1>1. /\ TrialTyped /\ RunHeld /\ SeenSoFar /\ TrialControl
      /\ trial.state = "run" /\ Step = "exact_resume"
      /\ Checked(ok) /\ ok \in BOOLEAN /\ queue' = queue /\ store' = store
      /\ seen' = [seen EXCEPT !.resumed = answer]
  BY DEF TrialInv, TrialControl, ExactResume, Reaches, SameSession
<1>2. ~ok => trial'.status = "raised"
  BY <1>1, CheckMoves
<1>3. ASSUME Goes
      PROVE  SeenSoFar' /\ (trial'.status = "PASS" => ObservedRight')
  <2>1. /\ trial'.program = trial.program /\ trial'.path = trial.path
        /\ seen'.stale = seen.stale /\ seen'.resumed = answer
        /\ seen'.attempts = seen.attempts /\ seen'.decisions = seen.decisions
    BY <1>1, <1>3 DEF Goes, SeenSoFar
  <2>2. seen' \in [stale : {"none", "refused", "accepted", "error"},
                   resumed : {"none", "same", "other", "unnamed", "error"},
                   attempts :
                     Seq([terminal : {"completed", "denied", "failed"},
                          present : BOOLEAN]),
                   decisions : Seq({"deny", "once"})]
    BY <1>1 DEF SeenSoFar
  <2>3. trial'.status = "PASS" => seen'.resumed \notin {"other", "error"}
    BY <1>2, <2>1 DEF SameSession
  <2> HIDE DEF ok
  <2>4. CASE trial.program = "restart"
    <3>1. /\ trial.at = 9 /\ Len(Steps) = IF trial.path = "recovery" THEN 9
                                                                      ELSE 8
          /\ trial.at \in 1..Len(Steps)
      BY <1>1, <2>4, WhereRestart DEF RunHeld
    <3>2. trial.at = Len(Steps)
      <4>1. CASE trial.path = "recovery"
        BY <3>1, <4>1
      <4>2. CASE trial.path # "recovery"
        <5>1. trial.at \in 1..8
          BY <3>1, <4>2
        <5> QED
          BY <3>1, <5>1
      <4> QED
        BY <4>1, <4>2
    <3>3. trial'.state # "run"
      BY <1>3, <3>1, <3>2 DEF Goes
    <3>4. seen.stale = "refused"
      BY <1>1, <2>4, <3>1 DEF SeenSoFar
    <3> QED
      BY <2>1, <2>2, <2>3, <2>4, <3>3, <3>4 DEF SeenSoFar, ObservedRight
  <2>5. CASE trial.program = "path"
    BY <1>1, <1>3, <2>1, <2>2, <2>5, BeforeAttempts DEF SeenSoFar
  <2>6. CASE trial.program \notin {"restart", "path"}
    BY <2>1, <2>2, <2>6 DEF SeenSoFar, ObservedRight
  <2> QED
    BY <2>4, <2>5, <2>6
<1> HIDE DEF ok
<1> QED
  BY <1>1, <1>3, SeeingStep

(* The decisions of a path are a list of denials and approvals. *)
LEMMA PlannedIs ==
  ASSUME NEW path \in {"positive", "denial", "recovery"}
  PROVE  Planned(path) \in Seq({"deny", "once"})
<1>1. /\ <<"deny", "once">> \in Seq({"deny", "once"})
      /\ <<"deny">> \in Seq({"deny", "once"})
      /\ <<"once">> \in Seq({"deny", "once"})
  OBVIOUS
<1> QED
  BY <1>1 DEF Planned

(* The decisions stay the first ones of the plan.                           *)
LEMMA DecidedPlan ==
  ASSUME NEW path \in {"positive", "denial", "recovery"},
         NEW m \in Nat, m <= Len(Planned(path))
  PROVE  LET d == SubSeq(Planned(path), 1, m)
         IN  /\ d \in Seq({"deny", "once"}) /\ Len(d) = m
             /\ \A i \in 1..m : d[i] = Planned(path)[i]
<1> DEFINE p == Planned(path)
           d == SubSeq(p, 1, m)
<1>1. p \in Seq({"deny", "once"})
  BY PlannedIs
<1> HIDE DEF p
<1>2. \A i \in 1..m : p[i] \in {"deny", "once"}
  <2>1. Len(p) \in Nat /\ m <= Len(p)
    BY <1>1, LenProperties DEF p
  <2>2. \A i \in 1..m : i \in 1..Len(p)
    BY <2>1
  <2> QED
    BY <1>1, <2>2, ElementOfSeq
<1>3. /\ d \in Seq({"deny", "once"})
      /\ Len(d) = IF 1 <= m THEN m - 1 + 1 ELSE 0
      /\ \A i \in 1 .. m - 1 + 1 : d[i] = p[1 + i - 1]
  <2>1. 1 \in Int /\ m \in Int
    OBVIOUS
  <2> QED
    BY <1>2, <2>1, SubSeqProperties
<1>4. m - 1 + 1 = m /\ (~(1 <= m) => m = 0) /\ \A i \in 1..m : 1 + i - 1 = i
  OBVIOUS
<1> HIDE DEF d
<1>5. /\ d \in Seq({"deny", "once"}) /\ Len(d) = m
      /\ \A i \in 1..m : d[i] = p[i]
  BY <1>3, <1>4
<1> QED
  BY <1>5 DEF d, p

Attempted == [terminal : {"completed", "denied", "failed"}, present : BOOLEAN]

(* One attempt of the path program, whatever the gateway asks and answers. *)
LEMMA AttemptKeeps ==
  ASSUME TrialInv, NEW asks \in 0 .. 2,
         NEW terminal \in {"completed", "denied", "failed"},
         NEW present \in BOOLEAN, NEW works \in BOOLEAN,
         Attempt(asks, terminal, present, works)
  PROVE  TrialInv'
<1> DEFINE r == [terminal |-> terminal, present |-> present]
           a == IF works THEN Append(seen.attempts, r) ELSE seen.attempts
           m == Len(seen.decisions) + asks
           d == SubSeq(Planned(trial.path), 1, m)
<1>1. /\ TrialTyped /\ RunHeld /\ SeenSoFar /\ TrialControl
      /\ trial.state = "run" /\ Step = "attempt"
      /\ Checked(works) /\ queue' = queue /\ store' = store
      /\ seen' = [seen EXCEPT !.decisions = d, !.attempts = a]
      /\ m <= Len(Planned(trial.path))
  BY DEF TrialInv, TrialControl, Attempt, Reaches, Decided
<1>2. /\ ~works => trial'.status = "raised"
      /\ trial.at \in Nat
      /\ trial.path \in {"positive", "denial", "recovery"}
  BY <1>1, CheckMoves DEF TrialTyped
<1>3. m \in Nat
  <2>1. Len(seen.decisions) \in Nat
    BY <1>1, LenProperties DEF SeenSoFar
  <2> QED
    BY <2>1
<1>4. /\ d \in Seq({"deny", "once"}) /\ Len(d) = m
      /\ \A i \in 1..m : d[i] = Planned(trial.path)[i]
  BY <1>1, <1>2, <1>3, DecidedPlan
<1>5. /\ a \in Seq(Attempted)
      /\ works => Len(a) = Len(seen.attempts) + 1
  <2>1. r \in Attempted
    BY DEF Attempted
  <2>2. seen.attempts \in Seq(Attempted)
    BY <1>1 DEF SeenSoFar, Attempted
  <2> HIDE DEF r
  <2> QED
    BY <2>1, <2>2, AppendProperties
<1> HIDE DEF a, d, m, r
<1>6. ASSUME Goes
      PROVE  SeenSoFar' /\ (trial'.status = "PASS" => ObservedRight')
  <2>1. /\ trial'.program = trial.program /\ trial'.path = trial.path
        /\ seen'.stale = seen.stale /\ seen'.resumed = seen.resumed
        /\ seen'.attempts = a /\ seen'.decisions = d
    BY <1>1, <1>6 DEF Goes, SeenSoFar
  <2>2. seen' \in [stale : {"none", "refused", "accepted", "error"},
                   resumed : {"none", "same", "other", "unnamed", "error"},
                   attempts :
                     Seq([terminal : {"completed", "denied", "failed"},
                          present : BOOLEAN]),
                   decisions : Seq({"deny", "once"})]
    BY <1>1, <1>4, <1>5 DEF SeenSoFar, Attempted
  <2>3. CASE trial.program = "restart"
    BY <1>1, <1>6, <2>1, <2>2, <2>3, BeforeResume DEF SeenSoFar
  <2>4. CASE trial.program = "path"
    <3> DEFINE n == Len(Steps)
    <3>1. /\ n = Len(Planned(trial.path)) + 10
          /\ Len(Planned(trial.path)) \in {1, 2}
          /\ trial.at \in 10..n - 1
      BY <1>1, <2>4, WherePath
    <3> HIDE DEF n
    <3>2. n \in Int /\ trial.at # n /\ trial.at >= 10
      <4>1. Len(Planned(trial.path)) \in Int
        BY <3>1
      <4> QED
        BY <3>1, <4>1
    <3>3. trial'.status # "PASS"
      BY <1>6, <3>2 DEF Goes, n
    <3>4. Len(seen.attempts) = trial.at - 10
      BY <1>1, <1>2, <2>4, <3>2 DEF SeenSoFar
    <3>5. trial'.state = "run" =>
            Len(a) = IF trial'.at <= 10 THEN 0 ELSE trial'.at - 10
      <4>1. SUFFICES ASSUME trial'.state = "run"
                     PROVE  Len(a) = IF trial'.at <= 10 THEN 0
                                     ELSE trial'.at - 10
        OBVIOUS
      <4>2. trial'.at = trial.at + 1 /\ works
        BY <1>2, <1>6, <4>1 DEF Goes
      <4>3. Len(a) = (trial.at - 10) + 1
        BY <1>5, <3>4, <4>2
      <4> QED
        BY <1>2, <3>2, <4>2, <4>3
    <3> QED
      BY <1>1, <1>4, <2>1, <2>2, <2>4, <3>3, <3>5 DEF SeenSoFar
  <2>5. CASE trial.program \notin {"restart", "path"}
    BY <2>1, <2>2, <2>5 DEF SeenSoFar, ObservedRight
  <2> QED
    BY <2>3, <2>4, <2>5
<1> QED
  BY <1>1, <1>6, SeeingStep

(* The verdict of a path trial.                                             *)
LEMMA PathIsProved ==
  ASSUME NEW path \in {"positive", "denial", "recovery"},
         NEW a \in Seq(Attempted), Len(a) = Len(Planned(path)),
         PathProved(path, a)
  PROVE  /\ \A i \in DOMAIN a : a[i].present =>
              \E k \in 1 .. i : Planned(path)[k] = "once"
         /\ Last(a).terminal =
              IF Last(Planned(path)) = "once" THEN "completed" ELSE "denied"
<1>1. DOMAIN a = 1..Len(a)
  BY LenProperties
<1>2. CASE path = "recovery"
  <2>1. /\ Planned(path) = <<"deny", "once">> /\ Len(a) = 2
        /\ ~a[1].present /\ a[2].terminal = "completed"
    BY <1>2 DEF PathProved, Planned
  <2>2. \A i \in 1..2 : i = 1 \/ i = 2
    OBVIOUS
  <2>3. Last(Planned(path)) = "once" /\ Last(a) = a[2]
    BY <2>1 DEF Last
  <2>4. 2 \in 1..2 /\ Planned(path)[2] = "once"
    BY <2>1
  <2> QED
    BY <1>1, <2>1, <2>2, <2>3, <2>4
<1>3. CASE path = "denial"
  <2>1. /\ Planned(path) = <<"deny">> /\ Len(a) = 1
        /\ ~a[1].present /\ a[1].terminal = "denied"
    BY <1>3 DEF PathProved, Planned
  <2>2. \A i \in 1..1 : i = 1
    OBVIOUS
  <2>3. Last(Planned(path)) = "deny" /\ Last(a) = a[1]
    BY <2>1 DEF Last
  <2> QED
    BY <1>1, <2>1, <2>2, <2>3
<1>4. CASE path = "positive"
  <2>1. /\ Planned(path) = <<"once">> /\ Len(a) = 1
        /\ a[1].terminal = "completed"
    BY <1>4 DEF PathProved, Planned
  <2>2. \A i \in 1..1 : i = 1
    OBVIOUS
  <2>3. Last(Planned(path)) = "once" /\ Last(a) = a[1]
    BY <2>1 DEF Last
  <2>4. 1 \in 1..1 /\ Planned(path)[1] = "once"
    BY <2>1
  <2> QED
    BY <1>1, <2>1, <2>2, <2>3, <2>4
<1> QED
  BY <1>2, <1>3, <1>4

(* The path program compares its attempts with what was planned. *)
LEMMA VerdictKeeps ==
  ASSUME TrialInv, PathVerdict
  PROVE  TrialInv'
<1> DEFINE ok == PathProved(trial.path, seen.attempts) /\ AskedEnough
<1>1. /\ TrialTyped /\ RunHeld /\ SeenSoFar /\ TrialControl
      /\ trial.state = "run" /\ Step = "verdict"
      /\ Checked(ok) /\ ok \in BOOLEAN /\ queue' = queue /\ store' = store
      /\ seen' = seen
  BY DEF TrialInv, TrialControl, PathVerdict, Reaches
<1>2. ~ok => trial'.status = "raised"
  BY <1>1, CheckMoves
<1>3. ASSUME Goes
      PROVE  SeenSoFar' /\ (trial'.status = "PASS" => ObservedRight')
  <2>1. /\ trial'.program = trial.program /\ trial'.path = trial.path
    BY <1>3 DEF Goes
  <2>2. CASE trial.program = "restart"
    BY <1>1, <1>3, <2>1, <2>2, BeforeResume DEF SeenSoFar
  <2>3. CASE trial.program = "path"
    <3> DEFINE n == Len(Steps)
               p == Planned(trial.path)
    <3>1. /\ n = Len(p) + 10 /\ Len(p) \in {1, 2} /\ trial.at = n
          /\ trial.path \in {"positive", "denial", "recovery"}
      BY <1>1, <2>3, WherePath
    <3>2. trial'.state # "run"
      <4>1. Len(p) \in Int
        BY <3>1
      <4> HIDE DEF p, n
      <4>2. ~(trial.at < n)
        BY <3>1, <4>1
      <4> QED
        BY <1>3, <4>2 DEF Goes, n
    <3>3. SeenSoFar'
      BY <1>1, <2>1, <2>3, <3>2 DEF SeenSoFar
    <3>4. ASSUME trial'.status = "PASS"
          PROVE  ObservedRight'
      <4>1. /\ PathProved(trial.path, seen.attempts)
            /\ Len(seen.decisions) = Len(seen.attempts)
        BY <1>2, <3>4 DEF AskedEnough
      <4>2. Len(seen.attempts) = Len(p)
        <5>1. Len(seen.attempts) = IF trial.at <= 10 THEN 0
                                   ELSE trial.at - 10
          BY <1>1, <2>3 DEF SeenSoFar
        <5> HIDE DEF p, n
        <5>2. Len(p) = 1 \/ Len(p) = 2
          BY <3>1
        <5>3. CASE Len(p) = 1
          BY <3>1, <5>1, <5>3
        <5>4. CASE Len(p) = 2
          BY <3>1, <5>1, <5>4
        <5> QED
          BY <5>2, <5>3, <5>4
      <4>3. seen.decisions = p
        <5>1. seen.decisions \in Seq({"deny", "once"})
              /\ p \in Seq({"deny", "once"})
          BY <1>1, <3>1, PlannedIs DEF SeenSoFar
        <5>2. \A i \in 1..Len(seen.decisions) : seen.decisions[i] = p[i]
          BY <1>1, <2>3 DEF SeenSoFar
        <5>3. Len(seen.decisions) = Len(p)
          BY <4>1, <4>2
        <5> HIDE DEF p
        <5> QED
          BY <5>1, <5>2, <5>3, SeqEqual
      <4>4. seen.attempts \in Seq(Attempted)
        BY <1>1 DEF SeenSoFar, Attempted
      <4>5. /\ \A i \in DOMAIN seen.attempts : seen.attempts[i].present =>
                 \E k \in 1 .. i : p[k] = "once"
            /\ Last(seen.attempts).terminal =
                 IF Last(p) = "once" THEN "completed" ELSE "denied"
        BY <3>1, <4>1, <4>2, <4>4, PathIsProved
      <4> HIDE DEF ok
      <4> QED
        BY <1>1, <2>1, <2>3, <4>3, <4>5 DEF ObservedRight
    <3> QED
      BY <3>3, <3>4
  <2>4. CASE trial.program \notin {"restart", "path"}
    BY <1>1, <2>1, <2>4 DEF SeenSoFar, ObservedRight
  <2> QED
    BY <2>2, <2>3, <2>4
<1> HIDE DEF ok
<1> QED
  BY <1>1, <1>3, SeeingStep

-----------------------------------------------------------------------------
(* The end of a trial, and the completions of others.                       *)
LEMMA EndingStep ==
  ASSUME TrialInv, TrialControl', trial.state # "run", trial'.state # "run",
         trial'.program = trial.program, trial'.path = trial.path,
         trial'.foreign = trial.foreign, trial'.at = trial.at,
         trial'.status \in {trial.status, "raised"}, trial.status # "none",
         queue' = queue, store' = store, seen' = seen
  PROVE  TrialInv'
<1>1. QueueKept'
  BY DEF TrialInv, QueueKept, Foreigners
<1>2. RowSettled'
  <2>1. trial'.status # "raised" => trial'.status = trial.status
    OBVIOUS
  <2>2. Examined' = Examined
    BY DEF Examined, DeliveredRow
  <2> QED
    BY <2>1, <2>2 DEF TrialInv, RowSettled
<1>3. SeenSoFar'
  BY DEF TrialInv, SeenSoFar
<1>4. PassIsObserved'
  BY DEF TrialInv, PassIsObserved
<1> QED
  BY <1>1, <1>2, <1>3, <1>4 DEF TrialInv

(* The cleanup of a program reaches every part that is not kept or closed  *)
(* by the last step.                                                       *)
LEMMA SweptIs ==
  ASSUME trial.program \in Programs
  PROVE  /\ Len(Swept) \in Nat
         /\ \A k \in 1..Len(Swept) : Swept[k] # "manager_lost"
         /\ \A part \in Taken(trial.program) \cup Lost :
              \/ \E k \in 1..Len(Swept) : Swept[k] = part
              \/ part \in Outermost(trial.program)
              \/ part \in Kept(trial.program)
<1>1. CASE trial.program = "delivery"
  <2> DEFINE s == <<"parent", "database", "plugin", "client_factory",
                    "home_override", "plugin_manager", "sys_path", "environ">>
  <2>1. Swept = s /\ Len(s) = 8
    BY <1>1 DEF Swept, Sweep
  <2>2. /\ s[1] = "parent" /\ s[2] = "database" /\ s[3] = "plugin"
        /\ s[4] = "client_factory" /\ s[5] = "home_override"
        /\ s[6] = "plugin_manager" /\ s[7] = "sys_path" /\ s[8] = "environ"
    OBVIOUS
  <2>3. /\ 1 \in 1..8 /\ 2 \in 1..8 /\ 3 \in 1..8 /\ 4 \in 1..8
        /\ 5 \in 1..8 /\ 6 \in 1..8 /\ 7 \in 1..8 /\ 8 \in 1..8
    OBVIOUS
  <2> HIDE DEF s
  <2> QED
    BY <1>1, <2>1, <2>2, <2>3 DEF Taken, Lost, Kept
<1>2. CASE trial.program = "restart"
  <2> DEFINE s == <<"first", "successor">>
  <2>1. Swept = s /\ Len(s) = 2
    BY <1>2 DEF Swept, Sweep
  <2>2. s[1] = "first" /\ s[2] = "successor" /\ 1 \in 1..2 /\ 2 \in 1..2
    OBVIOUS
  <2> HIDE DEF s
  <2> QED
    BY <1>2, <2>1, <2>2 DEF Taken, Lost, ManagerUnsaved
<1>3. CASE trial.program = "approval"
  <2> DEFINE s == <<"agent", "hooks", "plugin", "database", "callback">>
  <2>1. Swept = s /\ Len(s) = 5
    BY <1>3 DEF Swept, Sweep
  <2>2. /\ s[1] = "agent" /\ s[2] = "hooks" /\ s[3] = "plugin"
        /\ s[4] = "database" /\ s[5] = "callback"
    OBVIOUS
  <2>3. 1 \in 1..5 /\ 2 \in 1..5 /\ 3 \in 1..5 /\ 4 \in 1..5 /\ 5 \in 1..5
    OBVIOUS
  <2> HIDE DEF s
  <2> QED
    BY <1>3, <2>1, <2>2, <2>3
       DEF Taken, Outermost, Kept, Lost, ManagerUnsaved
<1>4. CASE trial.program = "path"
  <2> DEFINE s == PathSweep
  <2>1. Swept = s /\ Len(s) = 6
    BY <1>4 DEF Swept, Sweep, PathSweep
  <2>2. /\ s[1] = "plugin" /\ s[2] = "callback" /\ s[3] = "plugin_manager"
        /\ s[4] = "home_override" /\ s[5] = "environ" /\ s[6] = "cwd"
    BY DEF PathSweep
  <2>3. /\ 1 \in 1..6 /\ 2 \in 1..6 /\ 3 \in 1..6 /\ 4 \in 1..6
        /\ 5 \in 1..6 /\ 6 \in 1..6
    OBVIOUS
  <2> HIDE DEF s
  <2> QED
    BY <1>4, <2>1, <2>2, <2>3 DEF Taken, Kept, Lost, ManagerUnsaved
<1> QED
  BY <1>1, <1>2, <1>3, <1>4 DEF Programs

(* One step of the cleanup, which may itself fail. *)
LEMMA SweepKeeps ==
  ASSUME TrialInv, NEW works \in BOOLEAN,
         NEW lost \in SUBSET {"manager_lost"}, SweepStep(works, lost)
  PROVE  TrialInv'
<1> DEFINE k == trial.swept + 1
           part == Swept[k]
<1>1. /\ TrialControl /\ TrialTyped /\ SweepHeld /\ trial.state = "sweep"
      /\ trial.swept < Len(Swept) /\ trial.swept \in Nat
      /\ queue' = queue /\ store' = store /\ seen' = seen
  BY DEF TrialInv, TrialControl, TrialTyped, SweepStep
<1>2. trial' = [trial EXCEPT
                  !.held = (trial.held \ {part}) \cup lost, !.swept = k,
                  !.state = IF works THEN "sweep" ELSE "leave",
                  !.status = IF works THEN trial.status ELSE "raised",
                  !.skipped = ~works]
  BY DEF SweepStep
<1>12. lost # {} => part = "plugin_manager" /\ ManagerUnsaved
  BY DEF SweepStep
<1>3. Len(Swept) \in Nat /\ trial.program \in Programs
  BY <1>1, SweptIs DEF TrialTyped
<1> HIDE DEF part
<1>4. k \in 1..Len(Swept) /\ k \in Nat
  BY <1>1, <1>3
<1> HIDE DEF k
<1>5. /\ trial'.program = trial.program /\ trial'.path = trial.path
      /\ trial'.foreign = trial.foreign /\ trial'.at = trial.at
      /\ trial'.held = (trial.held \ {part}) \cup lost /\ trial'.swept = k
      /\ trial'.state = (IF works THEN "sweep" ELSE "leave")
      /\ trial'.status = (IF works THEN trial.status ELSE "raised")
      /\ trial'.skipped = ~works
  BY <1>1, <1>2 DEF TrialTyped
<1>6. TrialTyped'
  <2>1. /\ (trial.held \ {part}) \cup lost \in SUBSET Parts
        /\ (~works) \in BOOLEAN
        /\ (IF works THEN "sweep" ELSE "leave") \in {"sweep", "leave"}
        /\ (IF works THEN trial.status ELSE "raised")
             \in {"none", "raised", "PASS"}
    BY <1>1 DEF TrialTyped, Parts
  <2>2. trial' \in [program : Programs,
                    path : {"positive", "denial", "recovery"},
                    at : Nat, held : SUBSET Parts,
                    state : {"run", "sweep", "leave", "done"},
                    status : {"none", "raised", "PASS"}, inside : BOOLEAN,
                    swept : Nat, skipped : BOOLEAN, foreign : Nat]
    BY <1>1, <1>2, <1>4, <2>1 DEF TrialTyped
  <2>3. lost \subseteq Lost /\ Lost' = Lost
    BY <1>1, <1>5, <1>12 DEF Lost, ManagerUnsaved, Step, Steps
  <2> QED
    BY <1>1, <1>5, <2>2, <2>3 DEF TrialTyped
<1>7. Swept' = Swept
  BY <1>5 DEF Swept
<1>8. SweepHeld'
  <2>1. SUFFICES ASSUME works
                 PROVE  SweepHeld'
    BY <1>5 DEF SweepHeld
  <2>2. \A j \in 1..k : j \in 1..trial.swept \/ j = k
    BY <1>1 DEF k
  <2>3. \A j \in 1..k : Swept[j] \notin (trial.held \ {part}) \cup lost
    <3>1. \A j \in 1..Len(Swept) : Swept[j] # "manager_lost"
      BY <1>3, SweptIs
    <3>2. \A j \in 1..k : j \in 1..Len(Swept)
      BY <1>3, <1>4
    <3> QED
      BY <1>1, <2>2, <3>1, <3>2 DEF SweepHeld, part
  <2>4. trial.status \in {"raised", "PASS"}
    BY <1>1 DEF SweepHeld
  <2>5. k \in 0..Len(Swept)
    BY <1>3, <1>4
  <2> QED
    BY <1>5, <1>7, <2>1, <2>3, <2>4, <2>5 DEF SweepHeld
<1>9. RunHeld' /\ LeaveHeld' /\ TrialLeavesNothing'
  BY <1>5 DEF RunHeld, LeaveHeld, TrialLeavesNothing
<1>10. TrialControl'
  BY <1>6, <1>8, <1>9 DEF TrialControl
<1>11. trial.status # "none" /\ trial'.state # "run"
       /\ trial'.status \in {trial.status, "raised"}
  BY <1>1, <1>5 DEF SweepHeld
<1> QED
  BY <1>1, <1>5, <1>10, <1>11, EndingStep

(* The trial leaves with what its program and its cleanup came to. *)
LEMMA LeaveKeeps ==
  ASSUME TrialInv, Leave
  PROVE  TrialInv'
<1> DEFINE left == trial.held \ Outermost(trial.program)
<1>1. /\ TrialControl /\ TrialTyped /\ SweepHeld /\ LeaveHeld
      /\ trial.state \in {"sweep", "leave"}
      /\ trial.state = "sweep" => trial.swept = Len(Swept)
      /\ queue' = queue /\ store' = store /\ seen' = seen
      /\ trial' = [trial EXCEPT !.state = "done", !.held = left]
  BY DEF TrialInv, TrialControl, Leave
<1>2. left \subseteq trial.held
  OBVIOUS
<1> HIDE DEF left
<1>3. /\ trial'.program = trial.program /\ trial'.path = trial.path
      /\ trial'.foreign = trial.foreign /\ trial'.at = trial.at
      /\ trial'.held = left /\ trial'.state = "done"
      /\ trial'.status = trial.status /\ trial'.skipped = trial.skipped
      /\ trial'.inside = trial.inside
  BY <1>1 DEF TrialTyped
<1>4. TrialTyped'
  <2>1. left \in SUBSET Parts /\ left \subseteq Taken(trial.program) \cup Lost
    BY <1>1, <1>2 DEF TrialTyped
  <2>2. Lost' = Lost
    BY <1>1, <1>3 DEF Lost, ManagerUnsaved, Step, Steps
  <2> QED
    BY <1>1, <1>3, <2>1, <2>2 DEF TrialTyped
<1>5. TrialLeavesNothing'
  <2>1. ASSUME trial.inside \/ trial.status = "PASS", ~trial.skipped
        PROVE  left \subseteq Kept(trial.program)
    <3>1. trial.state = "sweep"
      BY <1>1, <2>1 DEF LeaveHeld
    <3>2. /\ trial.program \in Programs
          /\ trial.held \subseteq Taken(trial.program) \cup Lost
      BY <1>1 DEF TrialTyped
    <3>3. \A j \in 1..Len(Swept) : Swept[j] \notin trial.held
      BY <1>1, <3>1 DEF SweepHeld
    <3> QED
      BY <3>2, <3>3, SweptIs DEF left
  <2>2. trial.program = "approval" => "environ" \notin left
    BY DEF left, Outermost
  <2>3. Kept(trial.program)' = Kept(trial.program)
    BY <1>1, <1>3 DEF Kept, ManagerUnsaved, Step, Steps
  <2> QED
    BY <1>3, <2>1, <2>2, <2>3 DEF TrialLeavesNothing
<1>6. RunHeld' /\ SweepHeld' /\ LeaveHeld'
  BY <1>3 DEF RunHeld, SweepHeld, LeaveHeld
<1>7. TrialControl'
  BY <1>4, <1>5, <1>6 DEF TrialControl
<1>8. trial.status # "none" /\ trial.state # "run" /\ trial'.state # "run"
  BY <1>1, <1>3 DEF SweepHeld, LeaveHeld
<1> QED
  BY <1>1, <1>3, <1>7, <1>8, EndingStep

(* A completion of another session arrives in the queue. *)
LEMMA ForeignKeeps ==
  ASSUME TrialInv, ForeignEvent
  PROVE  TrialInv'
<1>1. /\ TrialControl /\ TrialTyped /\ RunHeld /\ trial.state = "run"
      /\ queue \in Seq(Events) /\ store' = store /\ seen' = seen
      /\ trial.program = "delivery" /\ QueueKept
      /\ queue' = Append(queue, "foreign")
      /\ trial' = [trial EXCEPT !.foreign = trial.foreign + 1]
  BY DEF TrialInv, TrialControl, QueueKept, ForeignEvent
<1>2. trial.foreign + 1 \in Nat /\ trial.status = "none"
  BY <1>1 DEF TrialTyped, RunHeld
<1>3. /\ trial'.program = trial.program /\ trial'.path = trial.path
      /\ trial'.foreign = trial.foreign + 1 /\ trial'.at = trial.at
      /\ trial'.held = trial.held /\ trial'.state = trial.state
      /\ trial'.status = trial.status /\ trial'.skipped = trial.skipped
      /\ trial'.inside = trial.inside /\ trial'.swept = trial.swept
  BY <1>1 DEF TrialTyped
<1>4. TrialControl'
  <2>1. TrialTyped'
    BY <1>1, <1>2, <1>3 DEF TrialTyped, Lost, ManagerUnsaved
  <2>2. Steps' = Steps
    BY <1>3 DEF Steps
  <2>3. RunHeld'
    BY <1>1, <1>3, <2>2 DEF RunHeld
  <2> QED
    BY <1>1, <1>3, <2>1, <2>3
       DEF TrialControl, SweepHeld, LeaveHeld, TrialLeavesNothing
<1>5. QueueKept'
  <2>1. /\ queue' \in Seq(Events)
        /\ Cardinality(Foreigners(queue')) = Cardinality(Foreigners(queue)) + 1
    BY <1>1, ForeignAdded
  <2>2. Cardinality(Foreigners(queue)) = trial.foreign
    BY <1>1, <1>2 DEF QueueKept
  <2>3. Foreigners(queue)' = Foreigners(queue')
    BY DEF Foreigners
  <2> QED
    BY <1>3, <2>1, <2>2, <2>3 DEF QueueKept
<1>6. RowSettled'
  <2>1. Examined' = Examined
    BY <1>3 DEF Examined, DeliveredRow
  <2> QED
    BY <1>1, <1>3, <2>1 DEF TrialInv, RowSettled
<1>7. SeenSoFar'
  BY <1>1, <1>3 DEF TrialInv, SeenSoFar
<1>8. PassIsObserved'
  BY <1>2, <1>3 DEF PassIsObserved
<1> QED
  BY <1>4, <1>5, <1>6, <1>7, <1>8 DEF TrialInv

(* A trial starts with nothing held. *)
LEMMA TrialInvStarts ==
  ASSUME TrialsInit
  PROVE  TrialInv
<1>1. PICK p \in Programs : \E path \in PathsOf(p), n \in 0 .. MaxForeign,
             own \in {<<>>, <<"mine">>, <<"malformed">>} :
         /\ p # "delivery" => n = 0 /\ own = <<>>
         /\ trial = NewTrial(p, path, n)
         /\ queue = [i \in 1 .. n |-> "foreign"] \o own
  BY DEF TrialsInit
<1>2. PICK path \in PathsOf(p), n \in 0 .. MaxForeign,
           own \in {<<>>, <<"mine">>, <<"malformed">>} :
         /\ trial = NewTrial(p, path, n)
         /\ queue = [i \in 1 .. n |-> "foreign"] \o own
  BY <1>1
<1>3. /\ trial.program = p /\ trial.path = path /\ trial.at = 1
      /\ trial.held = {} /\ trial.state = "run" /\ trial.status = "none"
      /\ trial.inside = FALSE /\ trial.swept = 0 /\ trial.skipped = FALSE
      /\ trial.foreign = n
  BY <1>2 DEF NewTrial
<1>4. n \in Nat /\ path \in {"positive", "denial", "recovery"}
  <2>1. n \in Nat
    BY TrialsAssumption
  <2> QED
    BY <2>1 DEF PathsOf, Programs
<1>5. TrialTyped
  BY <1>2, <1>3, <1>4 DEF TrialTyped, NewTrial
<1>6. RunHeld
  <2>1. Len(Steps) \in Nat /\ Len(Steps) >= 1
    BY <1>5, PlanOfTrial, LenProperties DEF Planned0
  <2> QED
    BY <1>3, <2>1 DEF RunHeld
<1>7. TrialControl
  BY <1>3, <1>5, <1>6
     DEF TrialControl, SweepHeld, LeaveHeld, TrialLeavesNothing
<1>8. QueueKept
  <2> DEFINE others == [i \in 1 .. n |-> "foreign"]
  <2>1. /\ others \in Seq(Events) /\ Len(others) = n
        /\ DOMAIN others = 1..n /\ \A i \in 1..n : others[i] = "foreign"
    BY <1>4 DEF Events
  <2> HIDE DEF others
  <2>2. Foreigners(others) = 1..n
    BY <2>1 DEF Foreigners
  <2>3. Cardinality(Foreigners(others)) = n
    <3>1. 1 \in Int /\ n \in Int
      BY <1>4
    <3>2. Cardinality(1..n) = IF 1 > n THEN 0 ELSE n - 1 + 1
      BY <3>1, FS_Interval
    <3>3. n - 1 + 1 = n /\ (1 > n => n = 0)
      BY <1>4
    <3> QED
      BY <2>2, <3>2, <3>3
  <2>4. queue = others \o own
    BY <1>2 DEF others
  <2>5. CASE own = <<>>
    <3>1. queue = others
      BY <2>1, <2>4, <2>5, ConcatEmptySeq
    <3> QED
      BY <1>3, <2>1, <2>3, <3>1 DEF QueueKept
  <2>6. CASE own # <<>>
    <3>1. PICK e \in {"mine", "malformed"} : own = <<e>>
      BY <2>6
    <3>2. e \in Events \ {"foreign"} /\ e \in Events
      BY DEF Events
    <3>3. queue = Append(others, e)
      BY <2>1, <2>4, <3>1, <3>2, AppendIsConcat
    <3>4. queue \in Seq(Events) /\ Foreigners(queue) = Foreigners(others)
      BY <2>1, <3>2, <3>3, OwnAdded
    <3> QED
      BY <1>3, <2>3, <3>4 DEF QueueKept
  <2> QED
    BY <2>5, <2>6
<1>9. RowSettled
  <2>1. store \in [delivery : {"pending", "claimed", "delivered"},
                   attempts : Nat, rows : Nat]
    BY DEF TrialsInit, NewRow
  <2>2. ~(trial.at > SettledAt(trial.path)) /\ trial.status # "PASS"
    BY <1>3 DEF SettledAt
  <2> QED
    BY <2>1, <2>2 DEF RowSettled
<1>10. SeenSoFar
  <2>1. seen = NothingSeen
    BY DEF TrialsInit
  <2>2. <<>> \in Seq({"deny", "once"}) /\ <<>> \in Seq(Attempted)
        /\ Len(<<>>) = 0
    BY EmptySeq
  <2>3. seen \in [stale : {"none", "refused", "accepted", "error"},
                  resumed : {"none", "same", "other", "unnamed", "error"},
                  attempts : Seq(Attempted), decisions : Seq({"deny", "once"})]
    BY <2>1, <2>2 DEF NothingSeen
  <2>4. /\ seen.resumed = "none" /\ Len(seen.decisions) = 0
        /\ Len(seen.attempts) = 0
    BY <2>1 DEF NothingSeen
  <2>5. Len(Planned(trial.path)) \in Nat
    BY <1>3, <1>4, PlannedIs, LenProperties
  <2>6. \A i \in 1..0 : FALSE
    OBVIOUS
  <2> QED
    BY <1>3, <2>3, <2>4, <2>5, <2>6 DEF SeenSoFar, Attempted
<1>11. PassIsObserved
  BY <1>3 DEF PassIsObserved
<1> QED
  BY <1>7, <1>8, <1>9, <1>10, <1>11 DEF TrialInv

(* The invariant holds throughout: one case for each action.                *)
LEMMA TrialInvHolds == TrialsSpec => []TrialInv
<1>1. TrialsInit => TrialInv
  BY TrialInvStarts
<1>2. TrialInv /\ [TrialsNext]_trialVars => TrialInv'
  <2> SUFFICES ASSUME TrialInv, [TrialsNext]_trialVars
               PROVE  TrialInv'
    OBVIOUS
  <2>1. CASE AwaitEvent
    BY <2>1, AwaitKeeps
  <2>2. CASE Requeue
    BY <2>2, RequeueKeeps
  <2>3. CASE ForeignEvent
    BY <2>3, ForeignKeeps
  <2>4. CASE Leave
    BY <2>4, LeaveKeeps
  <2>5. CASE PathVerdict
    BY <2>5, VerdictKeeps
  <2>6. CASE Examine("examine", NewRow)
    BY <2>6, FirstExamineKeeps
  <2>7. CASE \/ Examine("examine_denied", [NewRow EXCEPT !.attempts = 1])
             \/ Examine("examine_delivered", DeliveredRow)
    BY <2>7, LastExamineKeeps
  <2>8. ASSUME NEW works \in BOOLEAN,
               Claim(works) \/ Release(works) \/ Complete(works)
        PROVE  TrialInv'
    BY <2>8, ClaimKeeps
  <2>9. ASSUME NEW works \in BOOLEAN, LateClaim(works) \/ LateComplete(works)
        PROVE  TrialInv'
    BY <2>9, LateKeeps
  <2>10. ASSUME NEW works \in BOOLEAN, CloseFirstGateway(works)
         PROVE  TrialInv'
    BY <2>10, CloseFirstKeeps
  <2>11. ASSUME NEW works \in BOOLEAN, PlainStep(works)
         PROVE  TrialInv'
    BY <2>11, PlainKeeps
  <2>12. ASSUME NEW works \in BOOLEAN,
                NEW lost \in SUBSET {"manager_lost"}, SweepStep(works, lost)
         PROVE  TrialInv'
    BY <2>12, SweepKeeps
  <2>13. ASSUME NEW rows \in 0 .. 2, Persist(rows)
         PROVE  TrialInv'
    BY <2>13, PersistKeeps
  <2>14. ASSUME NEW asks \in 0 .. 2,
                NEW terminal \in {"completed", "denied", "failed"},
                NEW present \in BOOLEAN, NEW works \in BOOLEAN,
                Attempt(asks, terminal, present, works)
         PROVE  TrialInv'
    BY <2>14, AttemptKeeps
  <2>15. ASSUME NEW answer \in {"refused", "accepted", "error"},
                StaleResume(answer)
         PROVE  TrialInv'
    BY <2>15, StaleResumeKeeps
  <2>16. ASSUME NEW answer \in {"same", "other", "unnamed", "error"},
                ExactResume(answer)
         PROVE  TrialInv'
    BY <2>16, ExactResumeKeeps
  <2>17. CASE UNCHANGED trialVars
    <3>1. trial' = trial /\ store' = store /\ queue' = queue /\ seen' = seen
      BY <2>17 DEF trialVars
    <3>2. /\ Steps' = Steps /\ Swept' = Swept /\ Examined' = Examined
          /\ Lost' = Lost /\ Kept(trial.program)' = Kept(trial.program)
      BY <3>1 DEF Steps, Swept, Examined, DeliveredRow, Lost, Kept,
                  ManagerUnsaved, Step
    <3> QED
      BY <3>1, <3>2
         DEF TrialInv, TrialControl, TrialTyped, RunHeld, SweepHeld, LeaveHeld,
             TrialLeavesNothing, QueueKept, Foreigners, RowSettled, SeenSoFar,
             PassIsObserved
  <2> QED
    BY <2>1, <2>2, <2>3, <2>4, <2>5, <2>6, <2>7, <2>8, <2>9, <2>10, <2>11,
       <2>12, <2>13, <2>14, <2>15, <2>16, <2>17 DEF TrialsNext
<1> QED
  BY <1>1, <1>2, PTL DEF TrialsSpec

(* A local trial that passes has observed what it reports, and however a    *)
(* trial ends once it is inside its try statement it leaves in the process  *)
(* at most the module path of the host, which the approval and path trials  *)
(* keep, or a plugin manager lost by a failed import                        *)
(* (v4_background_delivery_receipt.py, v4_local_restart.py,                 *)
(* approval_followthrough.py, v4_local_path_executor.py).                   *)
THEOREM LocalTrialHeld == TrialsSpec => []LocalTrialHolds
<1>1. TrialInv => LocalTrialHolds
  BY DEF TrialInv, TrialControl, LocalTrialHolds
<1> QED
  BY <1>1, TrialInvHolds, PTL

(* A local trial holds only parts it could have taken, and the row of its  *)
(* delivery is pending, claimed or delivered                               *)
(* v4_background_delivery_receipt.py).                                     *)
THEOREM LocalTrialTypeCorrect == TrialsSpec => []TrialsTypeOK
<1>1. TrialInv => TrialsTypeOK
  BY DEF TrialInv, TrialControl, TrialTyped, RowSettled, TrialsTypeOK
<1> QED
  BY <1>1, TrialInvHolds, PTL
=============================================================================
