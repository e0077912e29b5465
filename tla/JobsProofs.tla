------------------------------ MODULE JobsProofs ------------------------------
(***************************************************************************)
(* Theorems about Jobs, for any settings and any number of heads,          *)
(* retargets, reopenings and commands.                                     *)
(*                                                                         *)
(* A job sees a snapshot of the pull request that may be old when it uses  *)
(* it, and trusts a watermark that another job left.  What makes that      *)
(* sound is how snapshots relate (ChainInv): of the parts an older head    *)
(* had, a newer one has no more.  So what a complete review has seen of an *)
(* older head (CoverInv) is all there is left of it in a newer one, and an *)
(* increment looks at the rest; except for what a retarget uncovers, which *)
(* is owed until a review has seen it.                                     *)
(***************************************************************************)
EXTENDS Jobs, TLAPS

Kinds == {None, "opened", "reopened", "synchronize", "retargeted"} \cup Commands

Ats == {"idle", "ended", "prefetch", "fetch", "scope", "review", "disclose", "gate", "post",
        "overview", "aside", "skip", "fail"}

Whys == {None, "nothing", "posted", "killed", "ignored", "answered", "skipped", "failed"}

Contexts == [head : Nat, line : Nat, diff : SUBSET Nat]

Heads == [head : Nat, diff : SUBSET Nat]

PRs == [head : Nat, line : Nat, diff : SUBSET Nat, retargets : Nat, reopens : Nat,
        commands : Nat]

JobSpace ==
  [kind : Kinds, at : Ats, incremental : BOOLEAN, overview : BOOLEAN,
   ctx : Contexts \cup {Nowhere}, since : Nat, complete : BOOLEAN, found : SUBSET Nat,
   said : BOOLEAN, refused : BOOLEAN, why : Whys]

TypeOK ==
  /\ cfg \in ConfigSpace
  /\ pr \in PRs
  /\ foreign \in BOOLEAN
  /\ event \in Kinds
  /\ jobs \in [Slots -> JobSpace]
  /\ mark \in Heads
  /\ overview \in Nat
  /\ checks \in [Pushed -> {None, "success", "failure"}]
  /\ ledger \in [seen : SUBSET Nat, vouched : SUBSET Nat, reviewed : SUBSET Heads,
                 drawn : SUBSET Nat, owed : BOOLEAN, flawed : SUBSET Nat]

\* The snapshots that are about: what jobs have fetched and what was reviewed.
Taken == {jobs[s].ctx : s \in Slots} \cup ledger.reviewed

\* A newer snapshot has no part of an older one's head that the older had not.
Follows(a, b) == a.head <= b.head => b.diff \cap (1..a.head) \subseteq a.diff

\* The parts are those of its pushes and those the retargets uncovered.
Within(a) == a.head <= pr.head /\ a.diff \subseteq (1..a.head) \cup AllUncovered

ChainInv ==
  /\ pr.head <= cfg.heads
  /\ Within(pr)
  /\ \A a \in Taken : Within(a) /\ Follows(a, pr) /\ Follows(pr, a)
  /\ \A a, b \in Taken : Follows(a, b)

ReviewedAt(h) == \E done \in ledger.reviewed : done.head = h

\* A head is a watermark, or the overview's, after a complete review of it.
MarkInv ==
  /\ mark = Nowhere \/ mark \in ledger.reviewed
  /\ overview # 0 => overview \in ledger.drawn /\ ReviewedAt(overview)
  /\ cfg.ci # "actions" => event # "retargeted"

NothingLeft(job) ==
  \E done \in ledger.reviewed :
    /\ done.head = job.ctx.head \/ done.diff = job.ctx.diff
    /\ job.overview => done.head \in ledger.drawn

\* What a job is, at each of its steps and at its end.
Sound(job) ==
  /\ job.at \in {"scope", "review", "disclose", "gate", "post", "overview"} => job.ctx \in Contexts
  /\ job.at # "ended" => job.why = None
  /\ job.since # 0 =>
       job.incremental /\ Increment(job.ctx, job.since) # {} /\ ReviewedAt(job.since)
  /\ job.at \in {"prefetch", "fetch"} => job.since = 0
  /\ job.kind = "retargeted" => ~job.incremental
  /\ job.at \in {"gate", "post"} => job.complete \/ job.said
  /\ job.at = "overview" => job.complete /\ ReviewedAt(job.ctx.head)
  /\ job.why = "nothing" => NothingLeft(job)
  /\ job.why = "posted" => job.complete \/ job.said
  /\ job.why \in {"failed", "skipped"} => job.said \/ job.refused

JobInv == \A s \in Slots : Sound(jobs[s])

\* What was reviewed has been seen, and so has what is vouched for and, unless it
\* is owed, what the retargets uncovered.
CoverInv ==
  /\ \A done \in ledger.reviewed : done.diff \cap (1..done.head) \subseteq ledger.seen
  /\ ~ledger.owed => AllUncovered \subseteq ledger.seen
  /\ ledger.vouched \subseteq ledger.seen

IInv == TypeOK /\ ChainInv /\ MarkInv /\ JobInv /\ CoverInv

-------------------------------------------------------------------------------
(* The pieces a state is made of *)

LEMMA IdleType == Idle \in JobSpace /\ Sound(Idle) /\ Idle.ctx = Nowhere /\ Nowhere \in Heads
  BY DEF Idle, JobSpace, Kinds, Ats, Whys, None, Sound, Heads, Nowhere

LEMMA StateFacts ==
  ASSUME TypeOK
  PROVE  /\ cfg.heads \in Nat \ {0} /\ cfg.retargets \in Nat /\ cfg.incremental \in {"auto", "on", "off"}
         /\ cfg.overview \in BOOLEAN /\ cfg.ci \in {"actions", "gitlab", "azure"}
         /\ pr.head \in Nat /\ pr.line \in Nat /\ pr.diff \in SUBSET Nat /\ pr.retargets \in Nat
         /\ \A s \in Slots : jobs[s] \in JobSpace
         /\ ledger.seen \in SUBSET Nat /\ ledger.vouched \in SUBSET Nat
         /\ ledger.reviewed \in SUBSET Heads /\ ledger.drawn \in SUBSET Nat
         /\ ledger.owed \in BOOLEAN /\ ledger.flawed \in SUBSET Nat
  BY DEF TypeOK, ConfigSpace, PRs

\* A snapshot names a head and a set of parts, or is none.
LEMMA TakenFacts ==
  ASSUME TypeOK, NEW a \in Taken
  PROVE  a.head \in Nat /\ a.diff \in SUBSET Nat
<1>1. CASE a \in ledger.reviewed
  BY <1>1, StateFacts DEF Heads
<1>2. CASE \E s \in Slots : a = jobs[s].ctx
  BY <1>2, StateFacts DEF JobSpace, Contexts, Nowhere
<1> QED
  BY <1>1, <1>2 DEF Taken

LEMMA InitInv == Init => IInv
<1> SUFFICES ASSUME Init PROVE IInv
  OBVIOUS
<1>1. cfg \in ConfigSpace
  BY JobsAssumption DEF JobsAssumption, Init
<1>2. pr = [head |-> 1, line |-> 1, diff |-> {1}, retargets |-> 0, reopens |-> 0, commands |-> 0]
      /\ ledger = [seen |-> {}, vouched |-> {}, reviewed |-> {}, drawn |-> {}, owed |-> FALSE,
                   flawed |-> {}]
  BY DEF Init
<1>3. TypeOK
  BY <1>1, <1>2, IdleType DEF Init, TypeOK, PRs, Kinds, None
<1>4. AllUncovered = {}
  BY <1>2 DEF AllUncovered
<1>5. Taken \subseteq {Nowhere}
  BY <1>2, IdleType DEF Init, Taken, Slots
<1>6. ChainInv
  BY <1>2, <1>3, <1>4, <1>5, StateFacts DEF ChainInv, Within, Follows, Nowhere
<1>7. MarkInv /\ CoverInv
  BY <1>2, <1>4 DEF Init, MarkInv, CoverInv, Nowhere
<1>8. JobInv
  BY IdleType DEF Init, JobInv
<1> QED
  BY <1>3, <1>6, <1>7, <1>8 DEF IInv

-------------------------------------------------------------------------------
(* The pull request moves *)

\* The pull request is newer by one head, whose part is the only one it may have
\* gained, or by the parts of a retarget, which are of no head.
LEMMA MovedInv ==
  ASSUME IInv, UNCHANGED <<cfg, foreign, jobs, mark, overview, checks>>, event' \in Kinds,
         cfg.ci # "actions" => event' # "retargeted",
         pr' \in PRs,
         pr.head <= pr'.head, pr'.head <= cfg.heads, pr.retargets <= pr'.retargets,
         pr'.diff \cap (1..pr.head) \subseteq pr.diff,
         pr'.head = pr.head => pr.diff \subseteq pr'.diff,
         \A p \in pr'.diff :
           p \in pr.diff \/ p \in (pr.head + 1)..pr'.head \/ p \in AllUncovered',
         \/ ledger' = ledger /\ pr'.retargets = pr.retargets
         \/ ledger' = [ledger EXCEPT !.owed = TRUE]
  PROVE  IInv'
<1>0. TypeOK /\ ChainInv /\ MarkInv /\ JobInv /\ CoverInv
  BY DEF IInv
<1>1. TypeOK'
  BY <1>0 DEF TypeOK, Pushed
<1>2. /\ ledger'.seen = ledger.seen /\ ledger'.vouched = ledger.vouched
      /\ ledger'.reviewed = ledger.reviewed /\ ledger'.drawn = ledger.drawn
      /\ (ledger'.owed = ledger.owed /\ pr'.retargets = pr.retargets) \/ ledger'.owed
  BY <1>0 DEF TypeOK
<1>3. /\ pr.head \in Nat /\ pr'.head \in Nat /\ pr'.diff \in SUBSET Nat
      /\ pr.retargets \in Nat /\ pr'.retargets \in Nat /\ AllUncovered \subseteq AllUncovered'
  <2>1. /\ pr.head \in Nat /\ pr'.head \in Nat /\ pr'.diff \in SUBSET Nat
        /\ pr.retargets \in Nat /\ pr'.retargets \in Nat
    BY <1>0, StateFacts DEF PRs
  <2> QED
    BY <2>1 DEF AllUncovered, Uncovered
<1>4. Taken' = Taken
  BY <1>2 DEF Taken
<1>5. ChainInv'
  <2>1. Within(pr)'
    BY <1>0, <1>3 DEF ChainInv, Within
  <2>2. ASSUME NEW a \in Taken
        PROVE  Within(a)' /\ Follows(a, pr)' /\ Follows(pr, a)'
    <3>1. /\ a.head \in Nat /\ a.diff \in SUBSET Nat /\ a.head <= pr.head
          /\ a.diff \subseteq (1..a.head) \cup AllUncovered
          /\ a.head <= pr.head => pr.diff \cap (1..a.head) \subseteq a.diff
          /\ pr.head <= a.head => a.diff \cap (1..pr.head) \subseteq pr.diff
      BY <1>0, <2>2, TakenFacts DEF ChainInv, Within, Follows
    <3>2. a.head <= pr'.head /\ a.diff \subseteq (1..a.head) \cup AllUncovered'
      BY <1>3, <3>1
    <3>3. pr'.diff \cap (1..a.head) \subseteq a.diff
      BY <1>3, <3>1
    <3>4. pr'.head <= a.head => a.diff \cap (1..pr'.head) \subseteq pr'.diff
      BY <1>3, <3>1
    <3> QED
      BY <3>2, <3>3, <3>4 DEF Within, Follows
  <2> QED
    BY <1>0, <1>4, <2>1, <2>2 DEF ChainInv, Follows
<1>6. MarkInv' /\ CoverInv'
  <2>1. pr'.retargets = pr.retargets => AllUncovered' = AllUncovered
    BY DEF AllUncovered, Uncovered
  <2> QED
    BY <1>0, <1>2, <2>1 DEF MarkInv, CoverInv, ReviewedAt
<1>7. JobInv'
  BY <1>0, <1>2 DEF JobInv, Sound, NothingLeft, ReviewedAt, Increment, Pushed
<1> QED
  BY <1>1, <1>5, <1>6, <1>7 DEF IInv

LEMMA DeliverFacts ==
  ASSUME TypeOK, MarkInv, NEW kind \in Kinds, Deliver(kind)
  PROVE  event' \in Kinds /\ (cfg.ci # "actions" => event' # "retargeted")
  BY DEF Deliver, TypeOK, MarkInv

LEMMA MoveInvs ==
  ASSUME IInv, Push \/ Rebase \/ Retarget \/ Reopen
  PROVE  IInv'
<1>0. TypeOK /\ MarkInv /\ ChainInv
  BY DEF IInv
<1>1. /\ pr \in PRs /\ cfg.heads \in Nat /\ pr.head \in Nat /\ pr.diff \in SUBSET Nat
      /\ pr.head <= cfg.heads /\ pr.retargets \in Nat
      /\ pr.diff \subseteq (1..pr.head) \cup AllUncovered
  BY <1>0, StateFacts DEF TypeOK, ChainInv, Within
<1>2. {"synchronize", "retargeted", "reopened"} \subseteq Kinds
  BY DEF Kinds
<1>3. CASE Push
  <2>1. PICK kept \in {pr.diff} \cup {pr.diff \ {p} : p \in cfg.bad}, rewritten \in BOOLEAN :
          pr' = [pr EXCEPT !.head = @ + 1, !.diff = kept \cup {pr.head + 1},
                           !.line = IF rewritten THEN pr.head + 1 ELSE @]
    BY <1>3 DEF Push
  <2>2. kept \subseteq pr.diff
    OBVIOUS
  <2>3. pr' \in PRs /\ pr'.head = pr.head + 1 /\ pr'.diff = kept \cup {pr.head + 1}
        /\ pr'.retargets = pr.retargets
    <3>1. pr'.head = pr.head + 1 /\ pr'.diff = kept \cup {pr.head + 1}
          /\ pr'.retargets = pr.retargets
      BY <1>1, <2>1 DEF PRs
    <3>2. pr.head + 1 \in Nat /\ kept \cup {pr.head + 1} \in SUBSET Nat
      BY <1>1, <2>2
    <3>3. pr' \in PRs
      BY <1>1, <2>1, <3>2 DEF PRs
    <3> QED
      BY <3>1, <3>3
  <2>4. UNCHANGED <<cfg, foreign, jobs, mark, overview, checks, ledger>> /\ pr.head < cfg.heads
        /\ event' \in Kinds /\ (cfg.ci # "actions" => event' # "retargeted")
    BY <1>0, <1>2, <1>3, DeliverFacts DEF Push
  <2>5. pr'.head <= cfg.heads /\ pr'.diff \cap (1..pr.head) \subseteq pr.diff
        /\ \A p \in pr'.diff : p \in pr.diff \/ p \in (pr.head + 1)..pr'.head
    BY <1>1, <2>2, <2>3, <2>4
  <2> QED
    BY <1>1, <2>3, <2>4, <2>5, MovedInv
<1>4. CASE Rebase
  <2>1. pr' = [pr EXCEPT !.head = @ + 1, !.line = pr.head + 1]
    BY <1>4 DEF Rebase
  <2>2. pr' \in PRs /\ pr'.head = pr.head + 1 /\ pr'.diff = pr.diff
        /\ pr'.retargets = pr.retargets
    <3>1. pr'.head = pr.head + 1 /\ pr'.diff = pr.diff /\ pr'.retargets = pr.retargets
      BY <1>1, <2>1 DEF PRs
    <3>2. pr.head + 1 \in Nat
      BY <1>1
    <3>3. pr' \in PRs
      BY <1>1, <2>1, <3>2 DEF PRs
    <3> QED
      BY <3>1, <3>3
  <2>3. UNCHANGED <<cfg, foreign, jobs, mark, overview, checks, ledger>> /\ pr.head < cfg.heads
        /\ event' \in Kinds /\ (cfg.ci # "actions" => event' # "retargeted")
    BY <1>0, <1>2, <1>4, DeliverFacts DEF Rebase
  <2> QED
    BY <1>1, <2>2, <2>3, MovedInv
<1>5. CASE Retarget
  <2>1. pr' = [pr EXCEPT !.retargets = @ + 1, !.diff = @ \cup {Uncovered(pr.retargets + 1)}]
    BY <1>5 DEF Retarget
  <2>2. Uncovered(pr.retargets + 1) \in Nat /\ Uncovered(pr.retargets + 1) > cfg.heads
    BY <1>1 DEF Uncovered
  <2>3. pr' \in PRs /\ pr'.head = pr.head /\ pr'.retargets = pr.retargets + 1
        /\ pr'.diff = pr.diff \cup {Uncovered(pr.retargets + 1)}
    <3>1. pr'.head = pr.head /\ pr'.retargets = pr.retargets + 1
          /\ pr'.diff = pr.diff \cup {Uncovered(pr.retargets + 1)}
      BY <1>1, <2>1 DEF PRs
    <3>2. pr.retargets + 1 \in Nat /\ pr.diff \cup {Uncovered(pr.retargets + 1)} \in SUBSET Nat
      BY <1>1, <2>2
    <3>3. pr' \in PRs
      BY <1>1, <2>1, <3>2 DEF PRs
    <3> QED
      BY <3>1, <3>3
  <2>4. UNCHANGED <<cfg, foreign, jobs, mark, overview, checks>>
        /\ ledger' = [ledger EXCEPT !.owed = TRUE]
        /\ event' \in Kinds /\ (cfg.ci # "actions" => event' # "retargeted")
    BY <1>0, <1>2, <1>5, DeliverFacts DEF Retarget
  <2>5. \A p \in pr'.diff : p \in pr.diff \/ p \in AllUncovered'
    BY <1>1, <2>3, <2>4 DEF AllUncovered, Uncovered
  <2>6. pr'.diff \cap (1..pr.head) \subseteq pr.diff
    BY <1>1, <2>2, <2>3
  <2> QED
    BY <1>1, <2>3, <2>4, <2>5, <2>6, MovedInv
<1>6. CASE Reopen
  <2>1. pr' = [pr EXCEPT !.reopens = @ + 1]
    BY <1>6 DEF Reopen
  <2>2. pr' \in PRs /\ pr'.head = pr.head /\ pr'.diff = pr.diff
        /\ pr'.retargets = pr.retargets
    BY <1>1, <2>1 DEF PRs
  <2>3. UNCHANGED <<cfg, foreign, jobs, mark, overview, checks, ledger>>
        /\ event' \in Kinds /\ (cfg.ci # "actions" => event' # "retargeted")
    BY <1>0, <1>2, <1>6, DeliverFacts DEF Reopen
  <2> QED
    BY <1>1, <2>2, <2>3, MovedInv
<1> QED
  BY <1>3, <1>4, <1>5, <1>6

-------------------------------------------------------------------------------
(* A job moves *)

LEMMA FollowsSelf == \A a : Follows(a, a)
  BY DEF Follows

\* Snapshots that are of a head and its parts as before, or of none, are in line.
LEMMA ChainStays ==
  ASSUME TypeOK, ChainInv, UNCHANGED cfg, pr'.head = pr.head, pr'.diff = pr.diff,
         pr'.retargets = pr.retargets,
         \A x \in Taken' : \E y \in Taken \cup {Nowhere, pr} : x.head = y.head /\ x.diff = y.diff
  PROVE  ChainInv'
<1>1. AllUncovered' = AllUncovered
  BY DEF AllUncovered, Uncovered
<1>2. Nowhere.head = 0 /\ Nowhere.diff = {} /\ pr.head \in Nat
  BY StateFacts DEF Nowhere
<1>3. \A y \in Taken \cup {Nowhere, pr} : y.head \in Nat /\ Within(y)
  BY <1>2, TakenFacts DEF ChainInv, Within
<1>4. \A y \in Taken \cup {Nowhere, pr}, z \in Taken \cup {Nowhere, pr} : Follows(y, z)
  <2>1. \A y : y.head \in Nat => Follows(Nowhere, y) /\ Follows(y, Nowhere)
    BY <1>2 DEF Follows
  <2>2. \A y, z \in Taken \cup {pr} : Follows(y, z)
    BY FollowsSelf DEF ChainInv
  <2> QED
    BY <1>3, <2>1, <2>2
<1>5. ASSUME NEW x \in Taken'
      PROVE  \E y \in Taken \cup {Nowhere, pr} : x.head = y.head /\ x.diff = y.diff
  BY <1>5
<1>6. Within(pr)'
  BY <1>1 DEF ChainInv, Within
<1>7. ASSUME NEW x \in Taken'
      PROVE  Within(x)' /\ Follows(x, pr)' /\ Follows(pr, x)'
  <2>1. PICK y \in Taken \cup {Nowhere, pr} : x.head = y.head /\ x.diff = y.diff
    BY <1>5, <1>7
  <2> QED
    BY <1>1, <1>3, <1>4, <2>1 DEF Within, Follows
<1>8. ASSUME NEW x \in Taken', NEW z \in Taken' PROVE Follows(x, z)
  BY <1>4, <1>5, <1>8 DEF Follows
<1> QED
  BY <1>6, <1>7, <1>8 DEF ChainInv, Follows

\* One job is another now, of the same snapshot, of none or of the latest, and all
\* else stays that jobs go by.
LEMMA JobMoves ==
  ASSUME IInv, NEW s \in Slots, NEW j \in JobSpace, jobs' = [jobs EXCEPT ![s] = j], Sound(j),
         \/ j.ctx = jobs[s].ctx \/ j.ctx = Nowhere
         \/ j.ctx.head = pr.head /\ j.ctx.diff = pr.diff,
         UNCHANGED <<cfg, foreign, mark, overview, ledger>>,
         pr' \in PRs, pr'.head = pr.head, pr'.diff = pr.diff, pr'.retargets = pr.retargets,
         event' \in Kinds, cfg.ci # "actions" => event' # "retargeted",
         checks' \in [Pushed -> {None, "success", "failure"}]
  PROVE  IInv'
<1>0. TypeOK /\ ChainInv /\ MarkInv /\ JobInv /\ CoverInv
  BY DEF IInv
<1>1. jobs' \in [Slots -> JobSpace] /\ \A t \in Slots : jobs'[t] = IF t = s THEN j ELSE jobs[t]
  BY <1>0 DEF TypeOK
<1>2. TypeOK'
  BY <1>0, <1>1 DEF TypeOK, Pushed
<1>3. ChainInv'
  <2>1. ASSUME NEW x \in Taken'
        PROVE  \E y \in Taken \cup {Nowhere, pr} : x.head = y.head /\ x.diff = y.diff
    <3>1. x \in Taken \/ x = j.ctx
      BY <1>1 DEF Taken
    <3>2. jobs[s].ctx \in Taken
      BY DEF Taken
    <3> QED
      BY <3>1, <3>2
  <2> QED
    BY <1>0, <2>1, ChainStays
<1>4. AllUncovered' = AllUncovered
  BY DEF AllUncovered, Uncovered
<1>5. MarkInv' /\ CoverInv'
  BY <1>0, <1>4 DEF MarkInv, CoverInv, ReviewedAt
<1>6. ASSUME NEW k, Sound(k) PROVE Sound(k)'
  BY <1>6 DEF Sound, NothingLeft, ReviewedAt, Increment, Pushed
<1>7. JobInv'
  BY <1>0, <1>1, <1>6 DEF JobInv
<1> QED
  BY <1>2, <1>3, <1>5, <1>7 DEF IInv

LEMMA EndsType ==
  ASSUME NEW job \in JobSpace, NEW why \in Whys
  PROVE  LET j == Ends(job, why)
         IN  /\ j \in JobSpace /\ j.at = "ended" /\ j.why = why /\ j.said = job.said
             /\ j.refused = job.refused /\ j.complete = job.complete
             /\ j.overview = (why = "nothing" /\ job.overview)
             /\ j.ctx = IF why = "nothing" THEN job.ctx ELSE Nowhere
             /\ j.since = 0 /\ j.kind = None
<1> DEFINE drawn == (why = "nothing" /\ job.overview)
           ctx == IF why = "nothing" THEN job.ctx ELSE Nowhere
           j == [Idle EXCEPT !.at = "ended", !.why = why, !.said = job.said,
                             !.refused = job.refused, !.complete = job.complete,
                             !.overview = drawn, !.ctx = ctx]
<1>1. Ends(job, why) = j
  BY DEF Ends
<1>2. /\ drawn \in BOOLEAN /\ ctx \in Contexts \cup {Nowhere}
      /\ job.said \in BOOLEAN /\ job.refused \in BOOLEAN /\ job.complete \in BOOLEAN
  BY DEF JobSpace
<1> HIDE DEF drawn, ctx
<1>3. /\ j.at = "ended" /\ j.why = why /\ j.said = job.said
      /\ j.refused = job.refused /\ j.complete = job.complete /\ j.overview = drawn
      /\ j.ctx = ctx /\ j.since = 0 /\ j.kind = None
  BY DEF Idle
<1>4. j \in JobSpace
  BY <1>2, IdleType DEF JobSpace, Ats
<1> HIDE DEF j
<1> QED
  BY <1>1, <1>3, <1>4 DEF drawn, ctx

LEMMA EndsFacts ==
  ASSUME NEW job \in JobSpace, NEW why \in Whys,
         why = "nothing" => NothingLeft(job),
         why = "posted" => job.complete \/ job.said,
         why \in {"failed", "skipped"} => job.said \/ job.refused
  PROVE  /\ Ends(job, why) \in JobSpace /\ Sound(Ends(job, why))
         /\ Ends(job, why).ctx \in {job.ctx, Nowhere}
<1> DEFINE j == Ends(job, why)
<1>1. /\ j \in JobSpace /\ j.at = "ended" /\ j.why = why /\ j.said = job.said
      /\ j.refused = job.refused /\ j.complete = job.complete
      /\ j.overview = (why = "nothing" /\ job.overview)
      /\ j.ctx = (IF why = "nothing" THEN job.ctx ELSE Nowhere)
      /\ j.since = 0 /\ j.kind = None
  BY EndsType
<1> HIDE DEF j
<1>2. Sound(j)
  BY <1>1 DEF Sound, NothingLeft, None
<1> QED
  BY <1>1, <1>2 DEF j

LEMMA KillInv ==
  ASSUME IInv, NEW s \in Slots, Kill(s)
  PROVE  IInv'
<1>1. TypeOK /\ MarkInv /\ jobs[s] \in JobSpace /\ "killed" \in Whys
  BY StateFacts DEF IInv, Whys
<1> DEFINE j == Ends(jobs[s], "killed")
<1>2. j \in JobSpace /\ Sound(j) /\ j.ctx \in {jobs[s].ctx, Nowhere}
  BY <1>1, EndsFacts
<1>3. jobs' = [jobs EXCEPT ![s] = j]
  BY DEF Kill
<1> HIDE DEF j
<1> QED
  BY <1>1, <1>2, <1>3, JobMoves DEF Kill, TypeOK, MarkInv

LEMMA BegunFacts ==
  ASSUME NEW kind \in Kinds, NEW incremental \in BOOLEAN, NEW drawn \in BOOLEAN,
         kind = "retargeted" => ~incremental
  PROVE  /\ Begun(kind, incremental, drawn) \in JobSpace
         /\ Sound(Begun(kind, incremental, drawn))
         /\ Begun(kind, incremental, drawn).ctx = Nowhere
         /\ Begun(kind, incremental, drawn).kind = kind
         /\ Begun(kind, incremental, drawn).since = 0
         /\ Begun(kind, incremental, drawn).why = None
<1> DEFINE j == Begun(kind, incremental, drawn)
<1>1. /\ j \in JobSpace /\ j.at \in {"prefetch", "fetch"} /\ j.why = None /\ j.since = 0
      /\ j.ctx = Nowhere /\ j.kind = kind /\ j.incremental = incremental
  BY DEF Begun, Idle, JobSpace, Ats, Whys, None
<1> HIDE DEF j
<1>2. Sound(j)
  BY <1>1 DEF Sound, None
<1> QED
  BY <1>1, <1>2 DEF j

LEMMA BeginEventInv ==
  ASSUME IInv, BeginEvent
  PROVE  IInv'
<1>0. TypeOK /\ MarkInv /\ event \in Kinds
  BY DEF IInv, TypeOK
<1>1. EventJob(event) \in JobSpace /\ Sound(EventJob(event)) /\ EventJob(event).ctx = Nowhere
  <2>1. cfg.incremental \in {"auto", "on", "off"} /\ cfg.overview \in BOOLEAN
    BY <1>0, StateFacts
  <2>2. CASE cfg.ci = "actions"
    <3>1. EventIncremental(event) \in BOOLEAN /\ AutoOverview(event) \in BOOLEAN
          /\ (event = "retargeted" => ~EventIncremental(event))
      BY <2>1 DEF EventIncremental, AutoIncremental, AutoOverview
    <3> QED
      BY <1>0, <2>2, <3>1, BegunFacts DEF EventJob, Action
  <2>3. CASE cfg.ci = "gitlab"
    <3>1. CiIncremental \in BOOLEAN /\ event # "retargeted"
      BY <1>0, <2>1, <2>3 DEF CiIncremental, MarkInv
    <3> QED
      BY <1>0, <2>3, <3>1, BegunFacts DEF EventJob, GitLabPipeline
  <2>4. CASE cfg.ci \notin {"actions", "gitlab"}
    <3>1. (cfg.incremental = "on") \in BOOLEAN /\ event # "retargeted"
      BY <1>0, <2>1, <2>4 DEF MarkInv
    <3> QED
      BY <1>0, <2>4, <3>1, BegunFacts DEF EventJob, AzurePipeline
  <2> QED
    BY <2>2, <2>3, <2>4
<1>2. /\ "event" \in Slots /\ jobs' = [jobs EXCEPT !["event"] = EventJob(event)]
      /\ event' = None /\ None \in Kinds /\ None # "retargeted"
      /\ UNCHANGED <<cfg, pr, foreign, mark, overview, checks, ledger>>
  BY DEF BeginEvent, Slots, Kinds, None
<1> QED
  BY <1>0, <1>1, <1>2, JobMoves DEF TypeOK

LEMMA BeginCommandInv ==
  ASSUME IInv, BeginCommand
  PROVE  IInv'
<1>0. TypeOK /\ MarkInv /\ cfg.incremental \in {"auto", "on", "off"}
  BY StateFacts DEF IInv
<1>1. PICK kind \in Commands, created \in BOOLEAN, writer \in BOOLEAN :
        jobs' = [jobs EXCEPT !["command"] =
                   IF created /\ writer THEN Obeyed(kind)
                                        ELSE Ends([Idle EXCEPT !.kind = kind], "ignored")]
  BY DEF BeginCommand
<1>2. kind \in Kinds /\ kind # "retargeted"
  BY DEF Kinds, Commands
<1>3. Obeyed(kind) \in JobSpace /\ Sound(Obeyed(kind)) /\ Obeyed(kind).ctx = Nowhere
  <2>1. CASE kind \in {"review", "full"}
    <3>1. (kind = "review" /\ cfg.incremental = "on") \in BOOLEAN
      OBVIOUS
    <3> QED
      BY <1>2, <2>1, <3>1, BegunFacts DEF Obeyed
  <2>2. CASE kind \notin {"review", "full"}
    <3> DEFINE b == Begun(kind, FALSE, FALSE)
    <3>1. b \in JobSpace /\ b.ctx = Nowhere /\ b.kind = kind /\ b.since = 0 /\ b.why = None
      BY <1>2, BegunFacts
    <3>2. Obeyed(kind) = [b EXCEPT !.at = "aside"]
      BY <2>2 DEF Obeyed
    <3> HIDE DEF b
    <3>3. Obeyed(kind) \in JobSpace /\ Obeyed(kind).at = "aside" /\ Obeyed(kind).ctx = Nowhere
          /\ Obeyed(kind).kind = kind /\ Obeyed(kind).since = 0 /\ Obeyed(kind).why = None
      BY <3>1, <3>2 DEF JobSpace, Ats
    <3> QED
      BY <1>2, <3>3 DEF Sound, None
  <2> QED
    BY <2>1, <2>2
<1>4. LET j == Ends([Idle EXCEPT !.kind = kind], "ignored")
      IN  j \in JobSpace /\ Sound(j) /\ j.ctx = Nowhere
  <2> DEFINE i == [Idle EXCEPT !.kind = kind]
  <2>1. i \in JobSpace /\ i.ctx = Nowhere /\ "ignored" \in Whys
    BY <1>2, IdleType DEF Idle, JobSpace, Whys
  <2> HIDE DEF i
  <2>2. Ends(i, "ignored") \in JobSpace /\ Sound(Ends(i, "ignored"))
        /\ Ends(i, "ignored").ctx = Nowhere
    BY <2>1, EndsFacts
  <2> QED
    BY <2>2 DEF i
<1>5. pr' \in PRs /\ pr'.head = pr.head /\ pr'.diff = pr.diff /\ pr'.retargets = pr.retargets
  <2>1. pr' = [pr EXCEPT !.commands = @ + 1] /\ pr \in PRs
    BY <1>0 DEF BeginCommand, TypeOK
  <2> QED
    BY <2>1 DEF PRs
<1>6. "command" \in Slots /\ UNCHANGED <<cfg, foreign, event, mark, overview, checks, ledger>>
  BY DEF BeginCommand, Slots
<1>7. CASE created /\ writer
  BY <1>0, <1>1, <1>3, <1>5, <1>6, <1>7, JobMoves DEF TypeOK, MarkInv
<1>8. CASE ~(created /\ writer)
  <2> DEFINE j == Ends([Idle EXCEPT !.kind = kind], "ignored")
  <2>1. j \in JobSpace /\ Sound(j) /\ j.ctx = Nowhere /\ jobs' = [jobs EXCEPT !["command"] = j]
    BY <1>1, <1>4, <1>8
  <2> HIDE DEF j
  <2> QED
    BY <1>0, <1>5, <1>6, <2>1, JobMoves DEF TypeOK, MarkInv
<1> QED
  BY <1>7, <1>8

\* The job, as it is and as the invariant has it.
LEMMA JobFacts ==
  ASSUME IInv, NEW s \in Slots
  PROVE  /\ TypeOK /\ MarkInv /\ jobs[s] \in JobSpace /\ Sound(jobs[s])
         /\ pr \in PRs /\ event \in Kinds /\ (cfg.ci # "actions" => event # "retargeted")
         /\ checks \in [Pushed -> {None, "success", "failure"}]
  BY StateFacts DEF IInv, JobInv, TypeOK, MarkInv

LEMMA FetchInvs ==
  ASSUME IInv, NEW s \in Slots, Prefetch(s) \/ Fetch(s)
  PROVE  IInv'
<1>0. TypeOK /\ MarkInv /\ jobs[s] \in JobSpace /\ Sound(jobs[s])
  BY JobFacts
<1>1. jobs[s].at \in {"prefetch", "fetch"} /\ jobs[s].since = 0 /\ jobs[s].why = None
  BY <1>0 DEF Prefetch, Fetch, Sound
<1>2. PICK otherwise \in {"fetch", "fail"} : Fetched(s, otherwise)
  BY DEF Prefetch, Fetch
<1>3. UNCHANGED <<cfg, pr, foreign, event, mark, overview, checks, ledger>>
  BY DEF Prefetch, Fetch
<1>4. ASSUME NEW at \in {"fetch", "fail", "skip"}, jobs' = [jobs EXCEPT ![s] = [jobs[s] EXCEPT !.at = at]]
      PROVE  IInv'
  <2> DEFINE j == [jobs[s] EXCEPT !.at = at]
  <2>1. /\ j \in JobSpace /\ j.at = at /\ j.since = 0 /\ j.why = None /\ j.kind = jobs[s].kind
        /\ j.incremental = jobs[s].incremental /\ j.ctx = jobs[s].ctx
    BY <1>0, <1>1 DEF JobSpace, Ats
  <2>2. jobs' = [jobs EXCEPT ![s] = j]
    BY <1>4
  <2> HIDE DEF j
  <2>3. Sound(j)
    BY <1>0, <2>1 DEF Sound, None
  <2> QED
    BY <1>3, <2>1, <2>2, <2>3, JobFacts, JobMoves
<1>5. CASE Becomes(s, [jobs[s] EXCEPT !.ctx = Snapshot, !.at = "scope"])
  <2> DEFINE j == [jobs[s] EXCEPT !.ctx = Snapshot, !.at = "scope"]
  <2>1. Snapshot \in Contexts /\ Snapshot.head = pr.head /\ Snapshot.diff = pr.diff
    BY <1>0, StateFacts DEF Snapshot, Contexts
  <2>2. /\ j \in JobSpace /\ j.at = "scope" /\ j.since = 0 /\ j.why = None /\ j.kind = jobs[s].kind
        /\ j.incremental = jobs[s].incremental /\ j.ctx = Snapshot
    BY <1>0, <1>1, <2>1 DEF JobSpace, Ats
  <2>3. jobs' = [jobs EXCEPT ![s] = j]
    BY <1>5 DEF Becomes
  <2> HIDE DEF j
  <2>4. Sound(j)
    BY <1>0, <2>1, <2>2 DEF Sound, None
  <2> QED
    BY <1>3, <2>1, <2>2, <2>3, <2>4, JobFacts, JobMoves
<1> QED
  BY <1>2, <1>4, <1>5 DEF Fetched, Becomes

LEMMA TellInv ==
  ASSUME IInv, NEW s \in Slots, Skip(s) \/ Fail(s)
  PROVE  IInv'
<1>0. TypeOK /\ jobs[s] \in JobSpace
  BY JobFacts
<1>1. PICK why \in {"skipped", "failed"} : \E at \in {"skip", "fail"} : Tell(s, at, why)
  BY DEF Skip, Fail
<1>2. PICK body \in BOOLEAN, comment \in BOOLEAN :
        jobs' = [jobs EXCEPT ![s] = [Ends(jobs[s], why) EXCEPT
                                       !.said = @ \/ Told(mark = Nowhere => body, comment),
                                       !.refused = ~comment]]
  BY <1>1 DEF Tell, Becomes
<1>3. UNCHANGED <<cfg, pr, foreign, event, mark, overview, checks, ledger>>
  BY <1>1 DEF Tell
<1> DEFINE e == Ends(jobs[s], why)
           j == [e EXCEPT !.said = @ \/ comment, !.refused = ~comment]
<1>4. jobs' = [jobs EXCEPT ![s] = j]
  BY <1>2 DEF Told
<1>5. /\ e \in JobSpace /\ e.at = "ended" /\ e.why = why /\ e.since = 0 /\ e.kind = None
      /\ e.ctx = Nowhere
  BY <1>0, EndsType DEF Whys
<1> HIDE DEF e
<1>6. /\ j \in JobSpace /\ j.at = "ended" /\ j.why = why /\ j.since = 0 /\ j.kind = None
      /\ j.ctx = Nowhere /\ (j.said \/ j.refused)
  <2>1. (e.said \/ comment) \in BOOLEAN /\ (~comment) \in BOOLEAN
    BY <1>5 DEF JobSpace
  <2> QED
    BY <1>5, <2>1 DEF JobSpace
<1> HIDE DEF j
<1>7. Sound(j)
  BY <1>6 DEF Sound, None
<1> QED
  BY <1>3, <1>4, <1>6, <1>7, JobFacts, JobMoves

LEMMA ReviewInv ==
  ASSUME IInv, NEW s \in Slots, Review(s)
  PROVE  IInv'
<1>0. TypeOK /\ MarkInv /\ jobs[s] \in JobSpace /\ Sound(jobs[s]) /\ jobs[s].at = "review"
  BY JobFacts DEF Review
<1>1. UNCHANGED <<cfg, pr, foreign, event, mark, overview, checks, ledger>>
  BY DEF Review
<1>2. Looked(jobs[s]) \subseteq Nat
  <2>1. jobs[s].ctx.diff \subseteq Nat
    BY <1>0 DEF JobSpace, Contexts, Nowhere
  <2> QED
    BY <2>1 DEF Looked, Increment
<1>3. ASSUME NEW found \in SUBSET Nat, NEW complete \in BOOLEAN, NEW at \in {"disclose", "fail"},
             jobs' = [jobs EXCEPT ![s] = [jobs[s] EXCEPT !.found = found, !.complete = complete,
                                                         !.at = at]]
      PROVE  IInv'
  <2> DEFINE j == [jobs[s] EXCEPT !.found = found, !.complete = complete, !.at = at]
  <2>1. /\ j \in JobSpace /\ j.at = at /\ j.since = jobs[s].since /\ j.why = jobs[s].why
        /\ j.kind = jobs[s].kind /\ j.incremental = jobs[s].incremental /\ j.ctx = jobs[s].ctx
    BY <1>0 DEF JobSpace, Ats
  <2>2. jobs' = [jobs EXCEPT ![s] = j]
    BY <1>3
  <2> HIDE DEF j
  <2>3. Sound(j)
    BY <1>0, <2>1 DEF Sound, None
  <2> QED
    BY <1>1, <2>1, <2>2, <2>3, JobFacts, JobMoves
<1>4. CASE \E found \in SUBSET (Looked(jobs[s]) \cap cfg.bad), complete \in BOOLEAN :
             Becomes(s, [jobs[s] EXCEPT !.found = found, !.complete = complete, !.at = "disclose"])
  BY <1>2, <1>3, <1>4 DEF Becomes
<1>5. CASE Becomes(s, [jobs[s] EXCEPT !.at = "fail"])
  <2>1. /\ jobs[s].found \in SUBSET Nat /\ jobs[s].complete \in BOOLEAN
        /\ [jobs[s] EXCEPT !.at = "fail"] =
             [jobs[s] EXCEPT !.found = jobs[s].found, !.complete = jobs[s].complete, !.at = "fail"]
    BY <1>0 DEF JobSpace
  <2> QED
    BY <1>3, <1>5, <2>1 DEF Becomes
<1> QED
  BY <1>4, <1>5 DEF Review

LEMMA WithinReviewInvs ==
  ASSUME IInv, NEW s \in Slots, Disclose(s) \/ Gate(s)
  PROVE  IInv'
<1>0. TypeOK /\ MarkInv /\ jobs[s] \in JobSpace /\ Sound(jobs[s])
      /\ jobs[s].at \in {"disclose", "gate"}
  BY JobFacts DEF Disclose, Gate
<1>1. /\ UNCHANGED <<cfg, pr, foreign, event, mark, overview, ledger>>
      /\ checks' \in [Pushed -> {None, "success", "failure"}]
  BY JobFacts DEF Disclose, Gate, Conclusion
<1>2. ASSUME NEW said \in BOOLEAN, NEW at \in {"gate", "post", "fail"},
             at # "fail" => jobs[s].complete \/ said,
             jobs' = [jobs EXCEPT ![s] = [jobs[s] EXCEPT !.at = at, !.said = said]]
      PROVE  IInv'
  <2> DEFINE j == [jobs[s] EXCEPT !.at = at, !.said = said]
  <2>1. /\ j \in JobSpace /\ j.at = at /\ j.since = jobs[s].since /\ j.why = jobs[s].why
        /\ j.kind = jobs[s].kind /\ j.incremental = jobs[s].incremental /\ j.ctx = jobs[s].ctx
        /\ j.complete = jobs[s].complete /\ j.said = said
    BY <1>0 DEF JobSpace, Ats
  <2>2. jobs' = [jobs EXCEPT ![s] = j]
    BY <1>2
  <2> HIDE DEF j
  <2>3. Sound(j)
    BY <1>0, <1>2, <2>1 DEF Sound, None
  <2> QED
    BY <1>1, <2>1, <2>2, <2>3, JobFacts, JobMoves
<1>3. /\ jobs[s].said \in BOOLEAN /\ jobs[s].complete \in BOOLEAN
      /\ \A at \in {"post", "fail"} :
           [jobs[s] EXCEPT !.at = at] = [jobs[s] EXCEPT !.at = at, !.said = jobs[s].said]
  BY <1>0 DEF JobSpace
<1>4. CASE Disclose(s)
  <2>1. CASE Becomes(s, [jobs[s] EXCEPT !.at = "gate", !.said = ~jobs[s].complete])
    BY <1>2, <1>3, <2>1 DEF Becomes
  <2>2. CASE Becomes(s, [jobs[s] EXCEPT !.at = "fail"])
    BY <1>2, <1>3, <2>2 DEF Becomes
  <2> QED
    BY <1>4, <2>1, <2>2 DEF Disclose
<1>5. CASE Gate(s)
  <2>1. CASE Becomes(s, [jobs[s] EXCEPT !.at = "post"])
    <3>1. jobs[s].complete \/ jobs[s].said
      BY <1>0, <1>5 DEF Sound, Gate
    <3> QED
      BY <1>2, <1>3, <2>1, <3>1 DEF Becomes
  <2>2. CASE Becomes(s, [jobs[s] EXCEPT !.at = "fail"])
    BY <1>2, <1>3, <2>2 DEF Becomes
  <2> QED
    BY <1>5, <2>1, <2>2 DEF Gate
<1> QED
  BY <1>4, <1>5

\* A job that stops there, to say why.
LEMMA StopsInv ==
  ASSUME IInv, NEW s \in Slots, NEW at \in {"fail", "skip"},
         Becomes(s, [jobs[s] EXCEPT !.at = at]), jobs[s].at # "ended",
         jobs[s].at \notin {"prefetch", "fetch"},
         UNCHANGED <<cfg, pr, foreign, event, mark, overview, checks, ledger>>
  PROVE  IInv'
<1>0. TypeOK /\ jobs[s] \in JobSpace /\ Sound(jobs[s])
  BY JobFacts
<1> DEFINE j == [jobs[s] EXCEPT !.at = at]
<1>1. /\ j \in JobSpace /\ j.at = at /\ j.since = jobs[s].since /\ j.why = jobs[s].why
      /\ j.kind = jobs[s].kind /\ j.incremental = jobs[s].incremental /\ j.ctx = jobs[s].ctx
  BY <1>0 DEF JobSpace, Ats
<1>2. jobs' = [jobs EXCEPT ![s] = j]
  BY DEF Becomes
<1> HIDE DEF j
<1>3. Sound(j)
  BY <1>0, <1>1 DEF Sound, None
<1> QED
  BY <1>1, <1>2, <1>3, JobFacts, JobMoves

LEMMA AsideInv ==
  ASSUME IInv, NEW s \in Slots, Aside(s)
  PROVE  IInv'
<1>0. jobs[s] \in JobSpace /\ "answered" \in Whys
  BY JobFacts DEF Whys
<1>1. UNCHANGED <<cfg, pr, foreign, event, mark, overview, checks, ledger>> /\ jobs[s].at = "aside"
  BY DEF Aside, CommandCompletes
<1>2. CASE Becomes(s, [Ends(jobs[s], "answered") EXCEPT !.said = TRUE])
  <2> DEFINE e == Ends(jobs[s], "answered")
             j == [e EXCEPT !.said = TRUE]
  <2>1. e \in JobSpace /\ e.at = "ended" /\ e.why = "answered" /\ e.since = 0 /\ e.kind = None
        /\ e.ctx = Nowhere
    BY <1>0, EndsType
  <2>2. jobs' = [jobs EXCEPT ![s] = j]
    BY <1>2 DEF Becomes
  <2> HIDE DEF e
  <2>3. j \in JobSpace /\ j.at = "ended" /\ j.why = "answered" /\ j.since = 0 /\ j.kind = None
        /\ j.ctx = Nowhere
    BY <2>1 DEF JobSpace
  <2> HIDE DEF j
  <2>4. Sound(j)
    BY <2>3 DEF Sound, None
  <2> QED
    BY <1>1, <2>2, <2>3, <2>4, JobFacts, JobMoves
<1>3. CASE \E at \in {"skip", "fail"} : Becomes(s, [jobs[s] EXCEPT !.at = at])
  BY <1>1, <1>3, StopsInv
<1> QED
  BY <1>2, <1>3 DEF Aside

-------------------------------------------------------------------------------
(* A job adds to what has been reviewed *)

LEMMA SoundStays ==
  ASSUME NEW j, Sound(j), UNCHANGED cfg, ledger.reviewed \subseteq ledger'.reviewed,
         ledger.drawn \subseteq ledger'.drawn
  PROVE  Sound(j)'
<1>1. \A h : ReviewedAt(h) => ReviewedAt(h)'
  BY DEF ReviewedAt
<1>2. NothingLeft(j) => NothingLeft(j)'
  BY DEF NothingLeft
<1>3. Increment(j.ctx, j.since)' = Increment(j.ctx, j.since)
  BY DEF Increment, Pushed
<1> QED
  BY <1>1, <1>2, <1>3 DEF Sound

LEMMA LedgerMoves ==
  ASSUME IInv, NEW s \in Slots, NEW j \in JobSpace, jobs' = [jobs EXCEPT ![s] = j], Sound(j)',
         j.ctx = jobs[s].ctx \/ j.ctx = Nowhere,
         UNCHANGED <<cfg, pr, foreign, event, checks>>, mark' \in Heads, overview' \in Nat,
         ledger' \in [seen : SUBSET Nat, vouched : SUBSET Nat, reviewed : SUBSET Heads,
                      drawn : SUBSET Nat, owed : BOOLEAN, flawed : SUBSET Nat],
         ledger.reviewed \subseteq ledger'.reviewed, ledger.drawn \subseteq ledger'.drawn,
         \A x \in ledger'.reviewed :
           \E y \in Taken : x.head = y.head /\ x.diff = y.diff,
         MarkInv', CoverInv'
  PROVE  IInv'
<1>0. TypeOK /\ ChainInv /\ JobInv
  BY DEF IInv
<1>1. jobs' \in [Slots -> JobSpace] /\ \A t \in Slots : jobs'[t] = IF t = s THEN j ELSE jobs[t]
  BY <1>0 DEF TypeOK
<1>2. TypeOK'
  BY <1>0, <1>1 DEF TypeOK, Pushed
<1>3. ChainInv'
  <2>1. ASSUME NEW x \in Taken'
        PROVE  \E y \in Taken \cup {Nowhere, pr} : x.head = y.head /\ x.diff = y.diff
    <3>1. x \in ledger'.reviewed \/ x \in Taken \/ x = j.ctx
      BY <1>1 DEF Taken
    <3>2. jobs[s].ctx \in Taken
      BY DEF Taken
    <3> QED
      BY <3>1, <3>2
  <2> QED
    BY <1>0, <2>1, ChainStays
<1>4. JobInv'
  BY <1>0, <1>1, SoundStays DEF JobInv
<1> QED
  BY <1>2, <1>3, <1>4 DEF IInv

\* What a job looked at is what nobody had, of the parts its head's pushes added.
LEMMA LookedCovers ==
  ASSUME IInv, NEW s \in Slots, jobs[s].ctx \in Contexts
  PROVE  jobs[s].ctx.diff \cap (1..jobs[s].ctx.head) \subseteq ledger.seen \cup Looked(jobs[s])
<1> DEFINE ctx == jobs[s].ctx
           since == jobs[s].since
<1>0. /\ TypeOK /\ ChainInv /\ CoverInv /\ Sound(jobs[s]) /\ since \in Nat
      /\ ctx.head \in Nat /\ ctx.diff \in SUBSET Nat /\ ctx \in Taken
  BY JobFacts DEF IInv, Contexts, Taken, JobSpace
<1>1. CASE since = 0
  BY <1>1 DEF Looked
<1>2. CASE since # 0
  <2>1. Looked(jobs[s]) = Increment(ctx, since) /\ Increment(ctx, since) # {}
        /\ ReviewedAt(since)
    BY <1>0, <1>2 DEF Looked, Sound
  <2>2. Looked(jobs[s]) = {p \in ctx.diff \cap Pushed : since < p /\ p <= ctx.head}
    BY <2>1 DEF Increment
  <2>3. since <= ctx.head
    BY <1>0, <2>1, <2>2
  <2>4. PICK done \in ledger.reviewed : done.head = since
    BY <2>1 DEF ReviewedAt
  <2>5. ctx.diff \cap (1..since) \subseteq ledger.seen
    BY <1>0, <2>3, <2>4 DEF ChainInv, Follows, CoverInv, Taken
  <2>6. ctx.head <= cfg.heads /\ cfg.heads \in Nat
    <3>1. ctx.head <= pr.head /\ pr.head <= cfg.heads
      BY <1>0 DEF ChainInv, Within
    <3>2. pr.head \in Nat /\ cfg.heads \in Nat
      BY <1>0, StateFacts
    <3> QED
      BY <1>0, <3>1, <3>2
  <2> HIDE DEF ctx, since
  <2>7. ASSUME NEW p \in ctx.diff, p \in 1..ctx.head
        PROVE  p \in ledger.seen \cup Looked(jobs[s])
    <3>1. CASE p <= since
      BY <1>0, <2>5, <2>7, <3>1
    <3>2. CASE since < p
      BY <1>0, <2>2, <2>6, <2>7, <3>2 DEF Pushed
    <3> QED
      BY <1>0, <3>1, <3>2
  <2> QED
    BY <2>7 DEF ctx
<1> QED
  BY <1>1, <1>2

\* A job vouches for what has been seen, when the parts of its pushes have been, and
\* all of its diff where it is what settles the retargets.
LEMMA VouchesFacts ==
  ASSUME IInv, NEW s \in Slots, NEW why \in {"posted", "nothing"}, NEW X,
         ledger.seen \subseteq X,
         jobs[s].ctx.diff \cap (1..jobs[s].ctx.head) \subseteq X,
         jobs[s].kind = "retargeted" \/ (why = "posted" /\ jobs[s].since = 0) =>
           jobs[s].ctx.diff \subseteq X
  PROVE  /\ Vouching(s, why) \subseteq X
         /\ ~Owing(s, why) => AllUncovered \subseteq X
         /\ Owing(s, why) \in BOOLEAN
<1>0. CoverInv /\ ledger.owed \in BOOLEAN
  BY StateFacts DEF IInv
<1>1. jobs[s].ctx.diff \subseteq (1..jobs[s].ctx.head) \cup AllUncovered
  BY DEF IInv, ChainInv, Within, Taken
<1>2. ASSUME ~Owing(s, why) PROVE AllUncovered \subseteq X
  BY <1>0, <1>2 DEF Owing, CoverInv
<1>3. Vouching(s, why) \subseteq X
  BY <1>0, <1>1, <1>2 DEF Vouching, CoverInv
<1>4. Owing(s, why) \in BOOLEAN
  BY DEF Owing
<1> QED
  BY <1>2, <1>3, <1>4

\* Where a head was completed, one job finds nothing to review.
LEMMA NothingFacts ==
  ASSUME IInv, NEW s \in Slots, NEW drawn \in BOOLEAN, NEW readable \in BOOLEAN,
         NEW last, last = LastCompleted(drawn, readable), last # 0,
         last = jobs[s].ctx.head \/ SameDiff(jobs[s].ctx, last)
  PROVE  /\ ReviewedAt(last)
         /\ \E done \in ledger.reviewed :
              /\ done.head = jobs[s].ctx.head \/ done.diff = jobs[s].ctx.diff
              /\ drawn => done.head \in ledger.drawn
         /\ jobs[s].ctx.diff \cap (1..jobs[s].ctx.head) \subseteq ledger.seen
<1> DEFINE ctx == jobs[s].ctx
<1>0. ChainInv /\ MarkInv /\ CoverInv /\ ctx \in Taken /\ ledger.reviewed \subseteq Taken
  BY DEF IInv, Taken
<1>1. ReviewedAt(last) /\ (drawn => last \in ledger.drawn)
  BY <1>0 DEF LastCompleted, MarkInv, ReviewedAt, Nowhere
<1>2. ctx.head \in Nat
  BY <1>0, TakenFacts DEF IInv
<1>3. CASE last = ctx.head
  <2>1. PICK done \in ledger.reviewed : done.head = last
    BY <1>1 DEF ReviewedAt
  <2>2. ctx.diff \cap (1..done.head) \subseteq done.diff
    BY <1>0, <1>2, <1>3, <2>1 DEF ChainInv, Follows
  <2> QED
    BY <1>0, <1>1, <1>3, <2>1, <2>2 DEF CoverInv
<1>4. CASE SameDiff(ctx, last)
  <2>1. mark.head = last /\ mark.diff = ctx.diff /\ mark \in ledger.reviewed
    BY <1>0, <1>4 DEF SameDiff, MarkInv, Nowhere
  <2>2. ctx.diff \cap (1..ctx.head) \subseteq ledger.seen
    <3>1. mark.diff \subseteq (1..mark.head) \cup AllUncovered
          /\ mark.diff \cap (1..mark.head) \subseteq ledger.seen
      BY <1>0, <2>1 DEF ChainInv, Within, CoverInv
    <3>2. \A p \in AllUncovered : p \notin 1..ctx.head
      <4>1. /\ ctx.head <= pr.head /\ pr.head <= cfg.heads /\ pr.head \in Nat /\ cfg.heads \in Nat
            /\ pr.retargets \in Nat
        BY <1>0, StateFacts DEF ChainInv, Within, IInv
      <4> QED
        BY <1>2, <4>1 DEF AllUncovered, Uncovered
    <3> QED
      BY <2>1, <3>1, <3>2
  <2> QED
    BY <1>1, <2>1, <2>2
<1> QED
  BY <1>1, <1>3, <1>4

LEMMA ScopeInv ==
  ASSUME IInv, NEW s \in Slots, Scope(s)
  PROVE  IInv'
<1> DEFINE job == jobs[s]
           ctx == job.ctx
<1>0. /\ TypeOK /\ MarkInv /\ job \in JobSpace /\ Sound(job) /\ job.at = "scope"
      /\ ctx \in Contexts /\ job.overview \in BOOLEAN /\ job.since \in Nat /\ job.why = None
  BY JobFacts DEF Scope, Sound, JobSpace
<1>1. UNCHANGED <<cfg, pr, foreign, event, mark, overview, checks>>
  BY DEF Scope
<1>2. PICK noted \in Noted, readable \in BOOLEAN, comparable \in BOOLEAN :
        LET drawn == job.overview /\ ~noted
            last == IF job.incremental /\ Resumes THEN LastCompleted(drawn, readable) ELSE 0
            nothing == last # 0 /\ (last = ctx.head \/ SameDiff(ctx, last))
            ahead == last # 0 /\ comparable /\ Increment(ctx, last) # {}
        IN  /\ Becomes(s, IF nothing THEN Ends([job EXCEPT !.overview = drawn], "nothing")
                          ELSE [job EXCEPT !.overview = drawn, !.at = "review",
                                           !.since = IF ahead THEN last ELSE 0])
            /\ ledger' = IF nothing
                           THEN [ledger EXCEPT !.owed = Owing(s, "nothing"),
                                               !.vouched = Vouching(s, "nothing")]
                           ELSE ledger
  BY DEF Scope
<1> DEFINE drawn == (job.overview /\ ~noted)
           last == IF job.incremental /\ Resumes THEN LastCompleted(drawn, readable) ELSE 0
           nothing == (last # 0 /\ (last = ctx.head \/ SameDiff(ctx, last)))
           ahead == (last # 0 /\ comparable /\ Increment(ctx, last) # {})
           since == IF ahead THEN last ELSE 0
           looks == [job EXCEPT !.overview = drawn]
<1>3. /\ Becomes(s, IF nothing THEN Ends(looks, "nothing")
                    ELSE [job EXCEPT !.overview = drawn, !.at = "review", !.since = since])
      /\ ledger' = IF nothing
                     THEN [ledger EXCEPT !.owed = Owing(s, "nothing"),
                                         !.vouched = Vouching(s, "nothing")]
                     ELSE ledger
  BY <1>2
<1>4. /\ drawn \in BOOLEAN /\ last \in Nat
      /\ last # 0 => /\ job.incremental /\ last = LastCompleted(drawn, readable)
                     /\ ReviewedAt(last)
  <2>1. drawn \in BOOLEAN
    OBVIOUS
  <2> HIDE DEF drawn
  <2>2. LastCompleted(drawn, readable) \in Nat
        /\ (LastCompleted(drawn, readable) # 0 => ReviewedAt(LastCompleted(drawn, readable)))
    BY <1>0 DEF TypeOK, MarkInv, ReviewedAt, LastCompleted, Heads, Nowhere
  <2> QED
    BY <2>1, <2>2
<1> HIDE DEF drawn, last
<1>5. CASE nothing
  <2>1. /\ looks \in JobSpace /\ looks.overview = drawn /\ looks.ctx = ctx
        /\ "nothing" \in Whys
    BY <1>0, <1>4 DEF JobSpace, Whys
  <2>2. /\ NothingLeft(looks) /\ ctx.diff \cap (1..ctx.head) \subseteq ledger.seen
    <3>1. /\ \E done \in ledger.reviewed :
               /\ done.head = ctx.head \/ done.diff = ctx.diff
               /\ drawn => done.head \in ledger.drawn
          /\ ctx.diff \cap (1..ctx.head) \subseteq ledger.seen
      BY <1>4, <1>5, NothingFacts
    <3> HIDE DEF looks
    <3> QED
      BY <2>1, <3>1 DEF NothingLeft
  <2>3. job.kind # "retargeted"
    BY <1>0, <1>4, <1>5 DEF Sound
  <2>4. /\ Vouching(s, "nothing") \subseteq ledger.seen /\ Owing(s, "nothing") \in BOOLEAN
        /\ (~Owing(s, "nothing") => AllUncovered \subseteq ledger.seen)
    BY <2>2, <2>3, VouchesFacts
  <2>5. /\ ledger'.seen = ledger.seen /\ ledger'.reviewed = ledger.reviewed
        /\ ledger'.drawn = ledger.drawn /\ ledger'.flawed = ledger.flawed
        /\ ledger'.owed = Owing(s, "nothing") /\ ledger'.vouched = Vouching(s, "nothing")
        /\ ledger' \in [seen : SUBSET Nat, vouched : SUBSET Nat, reviewed : SUBSET Heads,
                        drawn : SUBSET Nat, owed : BOOLEAN, flawed : SUBSET Nat]
    <3>1. ledger' = [ledger EXCEPT !.owed = Owing(s, "nothing"), !.vouched = Vouching(s, "nothing")]
      BY <1>3, <1>5
    <3>2. /\ ledger \in [seen : SUBSET Nat, vouched : SUBSET Nat, reviewed : SUBSET Heads,
                         drawn : SUBSET Nat, owed : BOOLEAN, flawed : SUBSET Nat]
          /\ Vouching(s, "nothing") \in SUBSET Nat
      BY <1>0, <2>4, StateFacts DEF TypeOK
    <3> QED
      BY <2>4, <3>1, <3>2
  <2>6. PICK j \in JobSpace :
          j = Ends(looks, "nothing") /\ Sound(j) /\ j.ctx \in {looks.ctx, Nowhere}
    BY <2>1, <2>2, EndsFacts
  <2>7. jobs' = [jobs EXCEPT ![s] = j]
    BY <1>3, <1>5, <2>6 DEF Becomes
  <2> HIDE DEF looks
  <2>8. AllUncovered' = AllUncovered
    BY <1>1 DEF AllUncovered, Uncovered
  <2>9. MarkInv' /\ CoverInv'
    BY <1>0, <1>1, <2>4, <2>5, <2>8 DEF IInv, MarkInv, CoverInv, ReviewedAt
  <2>10. Sound(j)'
    BY <1>1, <2>5, <2>6, SoundStays
  <2>11. \A x \in ledger'.reviewed : \E y \in Taken : x.head = y.head /\ x.diff = y.diff
    BY <2>5 DEF Taken
  <2>12. mark' \in Heads /\ overview' \in Nat
    BY <1>0, <1>1 DEF TypeOK
  <2> QED
    BY <1>1, <2>1, <2>5, <2>6, <2>7, <2>9, <2>10, <2>11, <2>12, LedgerMoves
<1>6. CASE ~nothing
  <2> DEFINE j == [job EXCEPT !.overview = drawn, !.at = "review", !.since = since]
  <2>1. since \in Nat
    BY <1>4
  <2>2. since # 0 => job.incremental /\ Increment(ctx, since) # {} /\ ReviewedAt(since)
    BY <1>4
  <2>3. jobs' = [jobs EXCEPT ![s] = j] /\ UNCHANGED ledger
    BY <1>3, <1>6 DEF Becomes
  <2> HIDE DEF since
  <2>4. /\ j \in JobSpace /\ j.at = "review" /\ j.since = since /\ j.why = None
        /\ j.kind = job.kind /\ j.incremental = job.incremental /\ j.ctx = ctx
    BY <1>0, <1>4, <2>1 DEF JobSpace, Ats
  <2> HIDE DEF j
  <2>5. Sound(j)
    BY <1>0, <2>2, <2>4 DEF Sound, None
  <2> QED
    BY <1>1, <2>3, <2>4, <2>5, JobFacts, JobMoves
<1> QED
  BY <1>5, <1>6

LEMMA PostInv ==
  ASSUME IInv, NEW s \in Slots, Post(s)
  PROVE  IInv'
<1> DEFINE job == jobs[s]
           ctx == job.ctx
<1>0. /\ TypeOK /\ MarkInv /\ job \in JobSpace /\ Sound(job) /\ job.at = "post"
      /\ ctx \in Contexts /\ ctx.head \in Nat /\ ctx.diff \in SUBSET Nat
      /\ job.since \in Nat /\ job.why = None /\ job.found \in SUBSET Nat
      /\ job.complete \in BOOLEAN /\ (job.complete \/ job.said)
      /\ "posted" \in Whys
  BY JobFacts DEF Post, Sound, JobSpace, Contexts, Whys
<1>1. UNCHANGED <<cfg, pr, foreign, event, overview, checks>> /\ overview' \in Nat
  BY <1>0 DEF Post, TypeOK
<1>2. /\ ledger \in [seen : SUBSET Nat, vouched : SUBSET Nat, reviewed : SUBSET Heads,
                     drawn : SUBSET Nat, owed : BOOLEAN, flawed : SUBSET Nat]
      /\ mark \in Heads /\ CoverInv /\ AllUncovered' = AllUncovered
  BY <1>0, <1>1 DEF TypeOK, IInv, AllUncovered, Uncovered
<1>3. Looked(job) \in SUBSET Nat
  BY <1>0 DEF Looked, Increment
<1>4. CASE job.complete /\ Posted(s) /\ Becomes(s, AfterPost(job))
  <2> DEFINE done == [head |-> ctx.head, diff |-> ctx.diff]
  <2>1. /\ mark' = done
        /\ ledger' = [ledger EXCEPT !.seen = @ \cup Looked(job), !.reviewed = @ \cup {done},
                                    !.owed = Owing(s, "posted"), !.flawed = @ \cup job.found,
                                    !.vouched = Vouching(s, "posted")]
    BY <1>4 DEF Posted
  <2>2. done \in Heads /\ done.head = ctx.head /\ done.diff = ctx.diff
    BY <1>0 DEF Heads
  <2> HIDE DEF done
  <2>3. /\ ctx.diff \cap (1..ctx.head) \subseteq ledger.seen \cup Looked(job)
        /\ job.kind = "retargeted" \/ job.since = 0 => ctx.diff \subseteq Looked(job)
    BY <1>0, LookedCovers DEF Sound, Looked
  <2>4. /\ Vouching(s, "posted") \subseteq ledger.seen \cup Looked(job)
        /\ Owing(s, "posted") \in BOOLEAN
        /\ (~Owing(s, "posted") => AllUncovered \subseteq ledger.seen \cup Looked(job))
    <3>1. job.kind = "retargeted" \/ job.since = 0 =>
            ctx.diff \subseteq ledger.seen \cup Looked(job)
      BY <2>3
    <3> QED
      BY <2>3, <3>1, VouchesFacts
  <2>5. /\ ledger'.seen = ledger.seen \cup Looked(job)
        /\ ledger'.reviewed = ledger.reviewed \cup {done}
        /\ ledger'.drawn = ledger.drawn
        /\ ledger'.owed = Owing(s, "posted") /\ ledger'.vouched = Vouching(s, "posted")
        /\ ledger' \in [seen : SUBSET Nat, vouched : SUBSET Nat, reviewed : SUBSET Heads,
                        drawn : SUBSET Nat, owed : BOOLEAN, flawed : SUBSET Nat]
    <3>1. /\ ledger.seen \cup Looked(job) \in SUBSET Nat
          /\ ledger.reviewed \cup {done} \in SUBSET Heads
          /\ ledger.flawed \cup job.found \in SUBSET Nat
          /\ Vouching(s, "posted") \in SUBSET Nat
      BY <1>0, <1>2, <1>3, <2>2, <2>4
    <3> QED
      BY <1>2, <2>1, <2>4, <3>1
  <2>6. MarkInv' /\ CoverInv'
    <3>1. MarkInv'
      BY <1>0, <1>1, <2>1, <2>5 DEF MarkInv, ReviewedAt
    <3>2. \A d \in ledger'.reviewed : d.diff \cap (1..d.head) \subseteq ledger'.seen
      BY <1>2, <2>2, <2>3, <2>5 DEF CoverInv
    <3> QED
      BY <1>2, <2>4, <2>5, <3>1, <3>2 DEF CoverInv
  <2>7. PICK j \in JobSpace :
          /\ jobs' = [jobs EXCEPT ![s] = j] /\ Sound(j)' /\ (j.ctx = ctx \/ j.ctx = Nowhere)
    <3>1. CASE ~job.overview
      <4>1. PICK j \in JobSpace : j = Ends(job, "posted") /\ Sound(j) /\ j.ctx \in {ctx, Nowhere}
        BY <1>0, EndsFacts
      <4>2. Sound(j)'
        BY <1>1, <2>5, <4>1, SoundStays
      <4>3. jobs' = [jobs EXCEPT ![s] = j]
        BY <1>4, <3>1, <4>1 DEF Becomes, AfterPost
      <4> QED
        BY <4>1, <4>2, <4>3
    <3>2. CASE job.overview
      <4>1. [job EXCEPT !.at = "overview"] \in JobSpace
        BY <1>0 DEF JobSpace, Ats
      <4>2. PICK j \in JobSpace : j = [job EXCEPT !.at = "overview"]
        BY <4>1
      <4>3. /\ j.at = "overview" /\ j.why = None /\ j.since = job.since /\ j.ctx = ctx
            /\ j.complete = job.complete /\ j.kind = job.kind /\ j.incremental = job.incremental
        BY <1>0, <4>2 DEF JobSpace
      <4>4. /\ ReviewedAt(j.ctx.head)'
            /\ j.since # 0 => ReviewedAt(j.since)'
        <5>1. \A h : ReviewedAt(h) => \E d \in ledger'.reviewed : d.head = h
          BY <2>5 DEF ReviewedAt
        <5>2. \E d \in ledger'.reviewed : d.head = j.ctx.head
          BY <2>2, <2>5, <4>3
        <5> QED
          BY <1>0, <4>3, <5>1, <5>2 DEF Sound, ReviewedAt
      <4>5. Sound(j)'
        <5>1. j.since # 0 => j.incremental /\ Increment(j.ctx, j.since)' # {}
          BY <1>0, <1>1, <4>3 DEF Sound, Increment, Pushed
        <5>2. j.ctx \in Contexts /\ j.complete /\ (j.kind = "retargeted" => ~j.incremental)
          BY <1>0, <1>4, <4>3 DEF Sound
        <5> QED
          BY <4>3, <4>4, <5>1, <5>2 DEF Sound, None
      <4>6. jobs' = [jobs EXCEPT ![s] = j]
        BY <1>4, <3>2, <4>2 DEF Becomes, AfterPost
      <4> QED
        BY <4>3, <4>5, <4>6
    <3> QED
      BY <3>1, <3>2
  <2>8. \A x \in ledger'.reviewed : \E y \in Taken : x.head = y.head /\ x.diff = y.diff
    BY <2>2, <2>5 DEF Taken
  <2>9. mark' \in Heads
    BY <2>1, <2>2
  <2> QED
    BY <1>1, <2>5, <2>6, <2>7, <2>8, <2>9, LedgerMoves
<1>5. CASE ~job.complete /\ Posted(s) /\ Becomes(s, AfterPost(job))
  <2>1. /\ ledger' = [ledger EXCEPT !.flawed = @ \cup job.found] /\ UNCHANGED mark
    BY <1>5 DEF Posted
  <2>2. PICK j \in JobSpace : j = Ends(job, "posted") /\ Sound(j) /\ j.ctx \in {ctx, Nowhere}
    BY <1>0, EndsFacts
  <2>3. jobs' = [jobs EXCEPT ![s] = j]
    BY <1>5, <2>2 DEF Becomes, AfterPost
  <2>4. /\ ledger'.seen = ledger.seen /\ ledger'.reviewed = ledger.reviewed
        /\ ledger'.drawn = ledger.drawn /\ ledger'.owed = ledger.owed
        /\ ledger'.vouched = ledger.vouched
        /\ ledger' \in [seen : SUBSET Nat, vouched : SUBSET Nat, reviewed : SUBSET Heads,
                        drawn : SUBSET Nat, owed : BOOLEAN, flawed : SUBSET Nat]
    BY <1>0, <1>2, <2>1
  <2>5. MarkInv' /\ CoverInv'
    BY <1>0, <1>1, <1>2, <2>1, <2>4 DEF MarkInv, CoverInv, ReviewedAt
  <2>6. Sound(j)'
    BY <1>1, <2>2, <2>4, SoundStays
  <2>7. \A x \in ledger'.reviewed : \E y \in Taken : x.head = y.head /\ x.diff = y.diff
    BY <2>4 DEF Taken
  <2> QED
    BY <1>1, <1>2, <2>1, <2>2, <2>3, <2>4, <2>5, <2>6, <2>7, LedgerMoves
<1>6. CASE Becomes(s, [job EXCEPT !.at = "fail"]) /\ UNCHANGED <<mark, ledger>>
  BY <1>0, <1>1, <1>6, StopsInv
<1> QED
  BY <1>4, <1>5, <1>6 DEF Post

LEMMA OverviewInv ==
  ASSUME IInv, NEW s \in Slots, Overview(s)
  PROVE  IInv'
<1> DEFINE job == jobs[s]
           ctx == job.ctx
<1>0. /\ TypeOK /\ MarkInv /\ CoverInv /\ job \in JobSpace /\ Sound(job) /\ job.at = "overview"
      /\ ctx.head \in Nat /\ job.complete /\ ReviewedAt(ctx.head) /\ "posted" \in Whys
  BY JobFacts DEF Overview, Sound, Contexts, Whys, IInv
<1>1. UNCHANGED <<cfg, pr, foreign, event, mark, checks>> /\ mark' \in Heads
  BY <1>0 DEF Overview, TypeOK
<1>2. CASE /\ overview' = ctx.head /\ ledger' = [ledger EXCEPT !.drawn = @ \cup {ctx.head}]
           /\ Becomes(s, Ends(job, "posted"))
  <2>1. PICK j \in JobSpace : j = Ends(job, "posted") /\ Sound(j) /\ j.ctx \in {ctx, Nowhere}
    BY <1>0, EndsFacts
  <2>2. jobs' = [jobs EXCEPT ![s] = j]
    BY <1>2, <2>1 DEF Becomes
  <2>3. /\ ledger \in [seen : SUBSET Nat, vouched : SUBSET Nat, reviewed : SUBSET Heads,
                       drawn : SUBSET Nat, owed : BOOLEAN, flawed : SUBSET Nat]
        /\ AllUncovered' = AllUncovered
    BY <1>0, <1>1 DEF TypeOK, AllUncovered, Uncovered
  <2>4. /\ ledger'.seen = ledger.seen /\ ledger'.reviewed = ledger.reviewed
        /\ ledger'.drawn = ledger.drawn \cup {ctx.head} /\ ledger'.owed = ledger.owed
        /\ ledger'.vouched = ledger.vouched
        /\ ledger' \in [seen : SUBSET Nat, vouched : SUBSET Nat, reviewed : SUBSET Heads,
                        drawn : SUBSET Nat, owed : BOOLEAN, flawed : SUBSET Nat]
    BY <1>0, <1>2, <2>3
  <2>5. MarkInv' /\ CoverInv'
    BY <1>0, <1>1, <1>2, <2>3, <2>4 DEF MarkInv, CoverInv, ReviewedAt
  <2>6. Sound(j)'
    BY <1>1, <2>1, <2>4, SoundStays
  <2>7. \A x \in ledger'.reviewed : \E y \in Taken : x.head = y.head /\ x.diff = y.diff
    BY <2>4 DEF Taken
  <2>8. overview' \in Nat
    BY <1>0, <1>2
  <2> QED
    BY <1>1, <2>1, <2>2, <2>4, <2>5, <2>6, <2>7, <2>8, LedgerMoves
<1>3. CASE Becomes(s, [job EXCEPT !.at = "fail"]) /\ UNCHANGED <<overview, ledger>>
  BY <1>0, <1>1, <1>3, StopsInv
<1> QED
  BY <1>2, <1>3 DEF Overview

-------------------------------------------------------------------------------
(* The theorems *)

LEMMA NextInv ==
  ASSUME IInv, [Next]_vars
  PROVE  IInv'
<1>1. CASE Push \/ Rebase \/ Retarget \/ Reopen
  BY <1>1, MoveInvs
<1>2. CASE BeginEvent
  BY <1>2, BeginEventInv
<1>3. CASE BeginCommand
  BY <1>3, BeginCommandInv
<1>4. ASSUME NEW s \in Slots, Kill(s) PROVE IInv'
  BY <1>4, KillInv
<1>5. ASSUME NEW s \in Slots, Steps(s) PROVE IInv'
  BY <1>5, FetchInvs, ScopeInv, ReviewInv, WithinReviewInvs, PostInv, OverviewInv, AsideInv,
     TellInv DEF Steps
<1>6. CASE UNCHANGED vars
  <2>1. UNCHANGED <<cfg, pr, foreign, event, jobs, mark, overview, checks, ledger>>
    BY <1>6 DEF vars
  <2> QED
    BY <2>1 DEF IInv, TypeOK, ChainInv, MarkInv, JobInv, CoverInv, Pushed, Taken, Within,
                Follows, AllUncovered, Uncovered, Sound, NothingLeft, ReviewedAt, Increment
<1> QED
  BY <1>1, <1>2, <1>3, <1>4, <1>5, <1>6 DEF Next

\* Every state of a pull request and its jobs is as the invariant has it.
THEOREM Invariance == Spec => []IInv
<1>1. IInv /\ [Next]_vars => IInv'
  BY NextInv
<1> QED
  BY InitInv, <1>1, PTL DEF Spec

\* What a head is said to be complete with, complete reviews have looked at, for any
\* number of pushes, rebases, retargets and jobs, whichever of them fail.
THEOREM CompleteMeansWhole == Spec => []CompleteIsWhole
<1>1. IInv => CompleteIsWhole
  BY DEF IInv, CoverInv, CompleteIsWhole
<1> QED
  BY Invariance, <1>1, PTL

\* A job that finds nothing to review speaks of a review that was posted, and of its
\* overview where one is due; and no job ends in silence.
THEOREM EndsAreSound == Spec => []EndsAreTold
<1>1. ASSUME IInv PROVE EndsAreTold
  <2>1. \A s \in Slots : Sound(jobs[s])
    BY <1>1 DEF IInv, JobInv
  <2>2. NothingIsDone
    BY <2>1 DEF NothingIsDone, Sound, NothingLeft
  <2>3. NoSilentEnd
    BY <2>1 DEF NoSilentEnd, Sound
  <2> QED
    BY <2>2, <2>3 DEF EndsAreTold
<1> QED
  BY Invariance, <1>1, PTL

===============================================================================
