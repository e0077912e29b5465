----------------------------- MODULE LocalReview -----------------------------
(***************************************************************************)
(* Reviews of a worktree, asked of the MCP server by a coding agent: calls  *)
(* that may overlap, one reviewing at a time; the settings each call reads  *)
(* anew; the context built out of one git command after another, any of     *)
(* which may fail, while a person (or the agent) edits, stages and commits; *)
(* and the client that goes away with a review running and another waiting. *)
(*                                                                         *)
(* Abstracted: a file's text to a version; commit subjects and the branch's *)
(* name; the index to the files git tracks; the review's model calls to how *)
(* many are left and how many under way (FanOut has their schedule).        *)
(***************************************************************************)
EXTENDS Settings, Sequences, FiniteSets

CONSTANTS Files,      \* paths of the worktree, all of them reviewable
          NewFiles,   \* those of them the base branch does not have
          Trees,      \* what a person may have committed, edited and staged
          Calls,      \* tool calls of one client
          MaxEdits,   \* bound: edits, stagings and commits
          MaxCalls,   \* model calls a review makes
          Workers     \* how many of them may be under way at once

VARIABLES tree,       \* what the base, the last commit and the worktree hold,
                      \* and which files git tracks
          edits,      \* how many there were
          server,     \* the server, its lock, and the model calls it made late
          calls,      \* the tool calls
          interrupted \* the process-wide flag model calls look at

localVars == <<tree, edits, server, calls, interrupted>>

Absent  == 0
Nobody  == "nobody"

Modes   == {"branch", "working", "uncommitted"}

(* Histories, for the properties alone: the files whose patch or text could *)
(* not be had. The code keeps no note of either.                            *)
NoContext == [head |-> <<>>, patches |-> {}, listed |-> {}, unread |-> {}, texts |-> {},
              skipped |-> {}, unreadable |-> {}]

(* ready: the model calls past their look at the flag; moved: a history too, *)
(* the files that were touched while the context was built.                 *)
Idle == [pc |-> "idle", mode |-> "branch", ctx |-> NoContext, left |-> 0, ready |-> 0,
         result |-> Unset, moved |-> {}]

BaseFiles == [f \in Files |-> IF f \in NewFiles THEN Absent ELSE 1]

InIndex(text) == {f \in Files : text[f] # Absent}

UnchangedTree == [base |-> BaseFiles, head |-> BaseFiles, work |-> BaseFiles,
                  index |-> InIndex(BaseFiles)]

(* A file may be as it was, made or changed, or removed, in a commit or in  *)
(* the worktree only, and git may track it or not: one taken out of the     *)
(* index may be in the worktree still.                                      *)
TreeSpace == [base : {BaseFiles}, head : [Files -> Nat], work : [Files -> Nat],
              index : SUBSET Files]

ASSUME LocalAssumption ==
  /\ Nobody \notin Calls /\ NewFiles \subseteq Files /\ MaxCalls \in Nat /\ Workers \in Nat
  /\ Trees \subseteq TreeSpace

LocalInit ==
  /\ tree \in IF "server" \in setup.opens THEN Trees ELSE {UnchangedTree}
  /\ edits = 0
  /\ server = [pc |-> IF "server" \in setup.opens THEN "off" ELSE "gone", lock |-> Nobody,
               late |-> 0]
  /\ calls = [c \in Calls |-> Idle]
  /\ interrupted = FALSE

(* ------------------------------- The person ----------------------------- *)

Building == {"load", "ends", "diff", "list", "patch", "read", "judge"}

(* A call whose context the change of a file may show in.                   *)
Moves(f, modes) ==
  [c \in Calls |-> IF calls[c].pc \in Building /\ calls[c].mode \in modes
                   THEN [calls[c] EXCEPT !.moved = @ \union {f}] ELSE calls[c]]

(* While a context is built: what is done at another time shows in the tree *)
(* the next call finds.                                                     *)
InTheMeantime == edits < MaxEdits /\ \E c \in Calls : calls[c].pc \in Building

(* A file is written or removed.                                            *)
Edit ==
  /\ InTheMeantime
  /\ \E f \in Files, v \in {Absent, edits + 4} :
       /\ v # tree.work[f]
       /\ tree' = [tree EXCEPT !.work[f] = v]
       /\ calls' = Moves(f, {"working", "uncommitted"})
  /\ edits' = edits + 1
  /\ UNCHANGED <<setup, settingsVars, env, server, interrupted>>

(* `git add` of a new file, or `git rm --cached`.                           *)
Stage ==
  /\ InTheMeantime
  /\ \E f \in Files :
       /\ \/ f \in tree.index /\ tree' = [tree EXCEPT !.index = @ \ {f}]
          \/ /\ f \notin tree.index /\ tree.work[f] # Absent
             /\ tree' = [tree EXCEPT !.index = @ \union {f}]
       /\ calls' = Moves(f, {"working", "uncommitted"})
  /\ edits' = edits + 1
  /\ UNCHANGED <<setup, settingsVars, env, server, interrupted>>

(* What git would say a file's text is now: nothing, of one it does not     *)
(* track.                                                                   *)
TrackedText == [f \in Files |-> IF f \in tree.index THEN tree.work[f] ELSE Absent]

Commit ==
  /\ InTheMeantime
  /\ \E f \in Files :
       /\ tree.head[f] # TrackedText[f]
       /\ tree' = [tree EXCEPT !.head[f] = TrackedText[f],
                               !.index = IF TrackedText[f] = Absent THEN @ \ {f} ELSE @]
       /\ calls' = Moves(f, Modes)
  /\ edits' = edits + 1
  /\ UNCHANGED <<setup, settingsVars, env, server, interrupted>>

(* ------------------------------- The server ----------------------------- *)

(* A broken configuration fails at the start, where the client shows it.    *)
Serve ==
  /\ server.pc = "off"
  /\ server' = [server EXCEPT !.pc = IF FileReads /\ IsConfigured(LoadedConfig)
                                     THEN "serving" ELSE "gone"]
  /\ UNCHANGED <<setup, settingsVars, env, tree, edits, calls, interrupted>>

(* The client disconnects, or a signal stops the server's loop; the worker  *)
(* threads go on.                                                           *)
ClientLeaves ==
  /\ server.pc = "serving"
  /\ server' = [server EXCEPT !.pc = "leaving"]
  /\ UNCHANGED <<setup, settingsVars, env, tree, edits, calls, interrupted>>

(* Then what still runs in a worker thread is told to wind down: it would   *)
(* spend calls nobody reads.                                                *)
RequestInterrupt ==
  /\ server.pc = "leaving"
  /\ server' = [server EXCEPT !.pc = "gone"]
  /\ interrupted' = TRUE
  /\ UNCHANGED <<setup, settingsVars, env, tree, edits, calls>>

CallTool(c, mode) ==
  /\ server.pc = "serving" /\ calls[c].pc = "idle"
  /\ calls' = [calls EXCEPT ![c] = [Idle EXCEPT !.pc = "waiting", !.mode = mode]]
  /\ UNCHANGED <<setup, settingsVars, env, tree, edits, server, interrupted>>

(* Reviews run one at a time: the engine's state is the process's.          *)
TakeLock(c) ==
  /\ calls[c].pc = "waiting" /\ server.lock = Nobody
  /\ server' = [server EXCEPT !.lock = c]
  /\ calls' = [calls EXCEPT ![c].pc = "load"]
  /\ UNCHANGED <<setup, settingsVars, env, tree, edits, interrupted>>

(* However a review ends, it gives the lock back.                           *)
Ends(c, result) ==
  /\ calls' = [calls EXCEPT ![c] = [Idle EXCEPT !.pc = "over", !.mode = calls[c].mode,
                                     !.result = result]]
  /\ server' = [server EXCEPT !.lock = Nobody]

Step(c, from, next) ==
  /\ calls[c].pc = from
  /\ calls' = [calls EXCEPT ![c] = next]
  /\ UNCHANGED <<setup, settingsVars, env, tree, edits, server, interrupted>>

(* Settings are read anew each call, then the provider is built from them.  *)
LoadForReview(c) ==
  IF FileReads /\ IsConfigured(LoadedConfig) /\ ResolvedCredentials(LoadedConfig) # Unset
  THEN Step(c, "load", [calls[c] EXCEPT !.pc = "ends"])
  ELSE /\ calls[c].pc = "load" /\ Ends(c, "error")
       /\ UNCHANGED <<setup, settingsVars, env, tree, edits, interrupted>>

(* ------------------------------ The context ----------------------------- *)

(* The default base is the remote's branch, or one that is there by its     *)
(* usual name, or else HEAD itself: an empty comparison.                    *)
BaseText == IF setup.hasBase THEN tree.base ELSE tree.head

(* A git command that hangs, or fails where nothing stands in for it: at    *)
(* the end too, where the branch and the remote are asked for their names.  *)
GitFails(c) ==
  /\ \/ calls[c].pc \in {"ends", "diff", "list"}
     \/ calls[c].pc = "read" /\ (calls[c].mode = "branch" \/ calls[c].ctx.unread = {})
  /\ Ends(c, "error")
  /\ UNCHANGED <<setup, settingsVars, env, tree, edits, interrupted>>

ResolveEnds(c) ==
  Step(c, "ends", [calls[c] EXCEPT !.pc = "diff", !.ctx.head = tree.head])

(* `git diff` reports what git tracks: the base against the last commit, or *)
(* the base (or the last commit) against the worktree, where a file that is *)
(* no more in the index is a removed one.                                   *)
DiffOf(mode) ==
  LET from == IF mode = "uncommitted" THEN tree.head ELSE BaseText
      to   == IF mode = "branch" THEN tree.head ELSE TrackedText
  IN {<<f, from[f], to[f]>> : f \in {g \in Files : from[g] # to[g]}}

PathsOf(patches) == {p[1] : p \in patches}

TakeDiff(c) ==
  LET patches == DiffOf(calls[c].mode)
  IN Step(c, "diff", [calls[c] EXCEPT
            !.pc = IF calls[c].mode = "branch" THEN "read" ELSE "list",
            !.ctx.patches = patches, !.ctx.unread = PathsOf(patches)])

(* A file just written is invisible to `git diff`, and most likely the one  *)
(* the review is wanted for.                                                *)
ListUntracked(c) ==
  LET new == {f \in Files \ tree.index : tree.work[f] # Absent}
  IN Step(c, "list", [calls[c] EXCEPT !.pc = "patch", !.ctx.listed = new,
                                      !.ctx.unread = @ \union new])

(* One git process a file; one that vanished meanwhile is skipped, and so   *)
(* is one that git hangs or fails on, without a word.                       *)
PatchUntracked(c) ==
  LET ctx == calls[c].ctx
  IN IF ctx.listed = {} THEN Step(c, "patch", [calls[c] EXCEPT !.pc = "read"])
     ELSE \E f \in ctx.listed :
            \/ Step(c, "patch", [calls[c] EXCEPT
                 !.ctx.listed = @ \ {f},
                 !.ctx.patches = @ \union IF tree.work[f] = Absent THEN {}
                                          ELSE {<<f, Absent, tree.work[f]>>}])
            \/ Step(c, "patch", [calls[c] EXCEPT !.ctx.listed = @ \ {f},
                                                 !.ctx.skipped = @ \union {f}])

(* Mutant: text is always the worktree's.                                   *)
ReaderText_Worktree(mode, f) == tree.work[f]

(* Branch mode reads the commit its diff is of; the others the worktree.    *)
ReaderText(mode, f) == IF mode = "branch" THEN tree.head[f] ELSE tree.work[f]

(* A file that cannot be read is one without a text, and so is one that is  *)
(* not there.                                                               *)
ReadText(c) ==
  LET ctx == calls[c].ctx
  IN IF ctx.unread = {} THEN Step(c, "read", [calls[c] EXCEPT !.pc = "judge"])
     ELSE \E f \in ctx.unread :
            LET text == ReaderText(calls[c].mode, f)
            IN \/ Step(c, "read", [calls[c] EXCEPT
                    !.ctx.unread = @ \ {f},
                    !.ctx.texts = @ \union IF text = Absent THEN {} ELSE {<<f, text>>}])
               \/ Step(c, "read", [calls[c] EXCEPT !.ctx.unread = @ \ {f},
                                                   !.ctx.unreadable = @ \union {f}])

(* An empty diff costs no call and is never an approval; a comparison of    *)
(* HEAD with itself says nothing, and is an error. The context is not        *)
(* looked at again here: the rest of the review is other modules'.          *)
JudgeDiff(c) ==
  IF calls[c].ctx.patches # {}
  THEN Step(c, "judge", [Idle EXCEPT !.pc = "review", !.mode = calls[c].mode,
                                     !.left = MaxCalls])
  ELSE /\ calls[c].pc = "judge"
       /\ Ends(c, IF calls[c].mode # "uncommitted" /\ ~setup.hasBase
                  THEN "error" ELSE "nothing")
       /\ UNCHANGED <<setup, settingsVars, env, tree, edits, interrupted>>

(* ------------------------------- The review ----------------------------- *)

(* Every call looks at the flag when a worker takes it, the auditor's too;  *)
(* one that is to be skipped makes no request.                              *)
CheckCall(c) ==
  /\ calls[c].left > 0 /\ calls[c].ready < Workers
  /\ Step(c, "review", [calls[c] EXCEPT !.left = @ - 1,
                                        !.ready = IF interrupted THEN @ ELSE @ + 1])

(* Its request goes out a moment later, with whatever retries it takes. It  *)
(* is late once the client is gone and the rest were told to wind down.     *)
ModelCall(c) ==
  /\ calls[c].pc = "review" /\ calls[c].ready > 0
  /\ calls' = [calls EXCEPT ![c].ready = @ - 1]
  /\ server' = [server EXCEPT !.late = IF server.pc = "gone" THEN @ + 1 ELSE @]
  /\ UNCHANGED <<setup, settingsVars, env, tree, edits, interrupted>>

ReturnFindings(c) ==
  /\ calls[c].pc = "review" /\ calls[c].left = 0 /\ calls[c].ready = 0
  /\ Ends(c, "reviewed")
  /\ UNCHANGED <<setup, settingsVars, env, tree, edits, interrupted>>

LocalSteps ==
  \/ Edit \/ Stage \/ Commit \/ Serve \/ ClientLeaves \/ RequestInterrupt
  \/ \E c \in Calls :
       \/ \E mode \in Modes : CallTool(c, mode)
       \/ TakeLock(c) \/ LoadForReview(c) \/ GitFails(c)
       \/ ResolveEnds(c) \/ TakeDiff(c) \/ ListUntracked(c) \/ PatchUntracked(c)
       \/ ReadText(c) \/ JudgeDiff(c) \/ CheckCall(c) \/ ModelCall(c) \/ ReturnFindings(c)

(* ------------------------------ Correctness ----------------------------- *)

(* What a mode compares, as the tree is now.                                *)
FromOf(mode) == IF mode = "uncommitted" THEN tree.head ELSE BaseText
ToOf(mode)   == IF mode = "branch" THEN tree.head ELSE tree.work

(* What is told of a file leads from one version of it to another, at once  *)
(* or as a removal and a making anew.                                       *)
LeadsTo(told, f, from, to) ==
  \/ told = {} /\ from = to
  \/ told = {<<f, from, to>>} /\ from # to
  \/ /\ told = {<<f, from, Absent>>, <<f, Absent, to>>}
     /\ from # Absent /\ to # Absent

(* A local review sees the change it was asked about, file by file: for a   *)
(* file nobody touched while the context was built, its patches lead from   *)
(* one of the mode's ends to the other, in one patch unless git does not    *)
(* track it; only where git failed on its own patch do they end in its      *)
(* absence. Its text is that of the end they lead to, and is there unless   *)
(* it could not be read; in branch mode an edit that is not committed is no *)
(* touch at all. And "nothing to review" is never said of a branch compared *)
(* with itself.                                                             *)
LocalSeesTheChange ==
  \A c \in Calls :
    LET mode == calls[c].mode
        ctx  == calls[c].ctx
    IN /\ calls[c].pc = "judge" =>
            \A f \in Files \ calls[c].moved :
              LET from == FromOf(mode)[f]
                  to   == ToOf(mode)[f]
                  told == {p \in ctx.patches : p[1] = f}
              IN /\ LeadsTo(told, f, from, IF f \in ctx.skipped THEN Absent ELSE to)
                 /\ mode = "branch" \/ f \in tree.index =>
                      f \notin ctx.skipped /\ \A p, q \in told : p = q
                 /\ {t \in ctx.texts : t[1] = f} =
                      IF (told = {} /\ f \notin ctx.skipped) \/ to = Absent
                           \/ f \in ctx.unreadable
                      THEN {} ELSE {<<f, to>>}
                 /\ mode = "branch" => ctx.head[f] = to
       /\ calls[c].result = "nothing" => mode = "uncommitted" \/ setup.hasBase

(* Nobody pays for a review nobody reads: once the client is gone and the   *)
(* interrupt requested, the model calls that had looked at the flag before  *)
(* may still go out, one a worker at most, and no other, be it of the       *)
(* review that was running or of one that only gets the lock then; and two  *)
(* reviews never run at once.                                               *)
NobodyReadsNoCalls ==
  /\ server.late <= Workers
  /\ \A c \in Calls : calls[c].pc \notin {"idle", "waiting", "over"} <=> server.lock = c

(* A local review is of what was asked for, and for somebody.               *)
LocalReviewIsSound == LocalSeesTheChange /\ NobodyReadsNoCalls
=============================================================================
