----------------------------- MODULE LadderProofs -----------------------------
(***************************************************************************)
(* Proofs about Ladder, for any number of pieces, any width and every set   *)
(* of configurations.                                                       *)
(***************************************************************************)
EXTENDS Ladder, TLAPS, SequenceTheorems

-------------------------------------------------------------------------------
(* The effort a reissued call asks for *)

\* The level below is one the model accepts, and below.
LEMMA LowerIsBelow ==
  ASSUME NEW levels \in SUBSET Efforts, NEW effort \in Efforts \cup {Nothing, Route}
  PROVE  LET lower == OneLevelLower(effort, levels)
         IN lower = Nothing \/ (lower \in levels /\ lower < effort)
<1> DEFINE below == Below(effort, levels)
<1>1. CASE below = {}
  BY <1>1 DEF OneLevelLower
<1>2. CASE below # {}
  <2>1. below \subseteq 0..5
    BY DEF Below, Efforts
  <2>2. \E level \in below : \A other \in below : other <= level
    <3> HIDE DEF below
    <3>1. CASE 5 \in below
      BY <2>1, <3>1, SMT
    <3>2. CASE 5 \notin below /\ 4 \in below
      BY <2>1, <3>2, SMT
    <3>3. CASE 5 \notin below /\ 4 \notin below /\ 3 \in below
      BY <2>1, <3>3, SMT
    <3>4. CASE 5 \notin below /\ 4 \notin below /\ 3 \notin below /\ 2 \in below
      BY <2>1, <3>4, SMT
    <3>5. CASE 5 \notin below /\ 4 \notin below /\ 3 \notin below /\ 2 \notin below
               /\ 1 \in below
      BY <2>1, <3>5, SMT
    <3>6. CASE 5 \notin below /\ 4 \notin below /\ 3 \notin below /\ 2 \notin below
               /\ 1 \notin below
      <4>1. \A level \in below : level = 0
        BY <2>1, <3>6, SMT
      <4> QED BY <1>2, <4>1, SMT
    <3> QED BY <3>1, <3>2, <3>3, <3>4, <3>5, <3>6
  <2>3. OneLevelLower(effort, levels) \in below
    BY <1>2, <2>2 DEF OneLevelLower
  <2> QED BY <2>3 DEF Below
<1> QED BY <1>1, <1>2

\* For every set of levels a model may declare, every default and every configured
\* effort, the two retries go down.
THEOREM RetriesThinkLess ==
  ASSUME NEW a \in Adapters
  PROVE  GoesDown(a)
<1>1. /\ a.levels \in SUBSET Efforts
      /\ a.configured \in Efforts \cup {Nothing, Route}
      /\ a.default \in Efforts \cup {Nothing}
      /\ a.strips \in BOOLEAN /\ a.openrouter \in BOOLEAN
  BY DEF Adapters
<1> DEFINE lower == SteppedDown(a)
           off   == SwitchedOff(a)
<1>2. lower # Nothing => lower \in a.levels /\ (Spent(a) \in Efforts => lower < Spent(a))
  <2>1. CASE a.configured # Nothing
    BY <1>1, <2>1, LowerIsBelow DEF SteppedDown, Spent
  <2>2. CASE a.configured = Nothing /\ Floor \in a.levels
             /\ (a.default = Nothing \/ Floor < a.default)
    BY <1>1, <2>2 DEF SteppedDown, Spent, Efforts, Nothing, Floor
  <2>3. CASE a.configured = Nothing
             /\ ~(Floor \in a.levels /\ (a.default = Nothing \/ Floor < a.default))
    <3>1. lower = OneLevelLower(IF a.default = Nothing THEN Floor ELSE a.default, a.levels)
      BY <2>3 DEF SteppedDown
    <3>2. (IF a.default = Nothing THEN Floor ELSE a.default) \in Efforts \cup {Nothing, Route}
      BY <1>1 DEF Efforts, Floor
    <3>3. lower # Nothing =>
            lower \in a.levels /\ lower < (IF a.default = Nothing THEN Floor ELSE a.default)
      BY <1>1, <3>1, <3>2, LowerIsBelow
    <3> QED BY <1>1, <2>3, <3>3 DEF Spent, Efforts, Nothing
  <2> QED BY <2>1, <2>2, <2>3
<1>3. off # Nothing => /\ off = Off /\ off \in a.levels
                       /\ Spent(a) \in Efforts => off < Spent(a)
  BY <1>1 DEF SwitchedOff, Spent, Efforts, Off, Nothing
<1>4. lower # Nothing /\ off # Nothing /\ off # lower => off < lower
  BY <1>1, <1>2, <1>3 DEF Efforts, Off, Nothing
<1>5. \A target : Override(a, target) # Nothing =>
        /\ Override(a, target) = target
        /\ a.configured = Nothing => a.openrouter \/ ~a.strips
  BY DEF Override
<1> QED
  <2>1. LowerEffort(a) # Nothing =>
          /\ LowerEffort(a) = lower
          /\ a.configured = Nothing => a.openrouter \/ ~a.strips
    BY <1>5 DEF LowerEffort
  <2>2. DisableReasoning(a) # Nothing =>
          /\ DisableReasoning(a) = off
          /\ a.configured = Nothing => a.openrouter \/ ~a.strips
    BY <1>5 DEF DisableReasoning
  <2> HIDE DEF lower, off
  <2> QED BY <1>2, <1>3, <1>4, <2>1, <2>2 DEF GoesDown

-------------------------------------------------------------------------------
(* The inductive invariant *)

Asking == {"calling", "fetching", "repairing"}

\* The rungs a unit is inside of.
Inside(u) == {stack[u][i] : i \in DOMAIN stack[u]}

\* The task runs while its whole batch is at work, and the pieces work only
\* while the whole waits for them.
StageInv ==
  /\ stage = "waiting" => pc[Whole] = "idle" /\ covered = {}
  /\ stage \in {"running", "rerunning"} => pc[Whole] \notin {"idle", "done", "queued"}
  /\ stage \in {"returned", "settled"} => pc[Whole] \in {"idle", "done"}
  /\ stage = "returned" /\ error = "pieces" => pc[Whole] = "done" /\ err[Whole] = "pieces"
  /\ pc[Whole] \notin {"splitting", "retrying"} => \A p \in Pieces : pc[p] \in {"idle", "done"}
  /\ \A p \in Pieces : pc[p] \notin {"fetching", "splitting", "retrying"}

\* A batch that has been cut or given to the fallback has no rung left to climb
\* but the fallback's, and the fallback's has none.
RemedyInv ==
  /\ pc[Whole] \in Asking /\ stack[Whole] = <<>> => remedies = {}
  /\ pc[Whole] \in Asking => stack[Whole] # <<"remedy">>
  /\ pc[Whole] = "fetching" => stack[Whole] = <<>>
  /\ pc[Whole] = "splitting" => stack[Whole] = <<"remedy">> /\ remedies = {"split"}
  /\ {"split", "escalated"} \cap remedies # {} =>
       /\ pc[Whole] \in {"splitting", "calling", "returning", "done"}
       /\ pc[Whole] = "calling" => stack[Whole] = <<"escalated">>
       /\ pc[Whole] = "returning" => stack[Whole] \in {<<>>, <<"remedy">>, <<"escalated">>}
  /\ "escalated" \in remedies => stack[Whole] \in {<<>>, <<"escalated">>}
  /\ OneRemedy

\* An answer that stands covers what it was asked about.
CoverInv ==
  /\ pc[Whole] = "fetching" => covered = Pieces
  /\ pc[Whole] = "returning" /\ err[Whole] = "none" => covered = Pieces
  /\ \A p \in Pieces : pc[p] \in {"returning", "done"} /\ err[p] = "none" => p \in covered
  /\ stage = "running" /\ pc[Whole] \in {"calling", "repairing"} /\ stack[Whole] = <<>>
       => covered = {}
  /\ NoHiddenGap
  /\ SplitNoticeTrue

\* The first attempt was cut, and its pieces are at work or wait for the rescue.
Cut ==
  \/ pc[Whole] = "retrying"
  \/ /\ stage \in {"running", "returned"}
     /\ \/ pc[Whole] = "splitting"
        \/ pc[Whole] \in {"returning", "done"} /\ err[Whole] = "pieces"

\* Pieces that failed on the provider are left to the rescue, which has no other.
FlakyInv ==
  /\ pc[Whole] \in Asking => FlakyPieces = {}
  /\ pc[Whole] = "returning" /\ stack[Whole] # <<>> =>
       FlakyPieces = {} \/ (err[Whole] = "pieces" /\ stack[Whole] = <<"remedy">>)
  /\ pc[Whole] = "retrying" =>
       \A p \in Pieces : pc[p] = "queued" => ProviderSide(err[p])
  /\ Cut => \A p \in Pieces : p \in covered => pc[p] \in {"returning", "done"} /\ err[p] = "none"

\* A unit is on a rung that thinks less only if there was less to ask for, and a
\* piece is on no rung of the batch's.
RungInv ==
  /\ \A u \in Units : Inside(u) \cap {"stepDown", "off"} # {} => LowerEffort(adapter) # Nothing
  /\ \A u \in Units : "off" \in Inside(u) => DisableReasoning(adapter) # Nothing
  /\ \A p \in Pieces : Inside(p) \subseteq {"stepDown", "off", "schema"}

IInv == TypeOK /\ StageInv /\ RemedyInv /\ CoverInv /\ FlakyInv /\ RungInv

-------------------------------------------------------------------------------
(* Stacks of rungs *)

\* One more rung: it is the innermost, over the rungs the unit was inside of.
LEMMA Pushed ==
  ASSUME NEW outer \in Seq(Frames), NEW rung \in Frames
  PROVE  LET s == Append(outer, rung)
         IN /\ s \in Seq(Frames)
            /\ s # <<>>
            /\ s[Len(s)] = rung
            /\ outer = <<>> => s = <<rung>>
            /\ {s[i] : i \in DOMAIN s} = {outer[i] : i \in DOMAIN outer} \cup {rung}
<1> DEFINE s == Append(outer, rung)
<1>1. /\ s \in Seq(Frames) /\ s # <<>> /\ Len(s) = Len(outer) + 1
      /\ \A i \in 1..Len(outer) : s[i] = outer[i]
      /\ s[Len(outer) + 1] = rung
  BY AppendProperties
<1>2. Len(outer) \in Nat /\ DOMAIN outer = 1..Len(outer) /\ DOMAIN s = 1..(Len(outer) + 1)
  BY <1>1, LenProperties
<1>3. outer = <<>> => s = <<rung>>
  OBVIOUS
<1> HIDE DEF s
<1>4. {s[i] : i \in DOMAIN s} = {outer[i] : i \in DOMAIN outer} \cup {rung}
  BY <1>1, <1>2
<1> QED
  BY <1>1, <1>3, <1>4 DEF s

\* One rung less.
LEMMA Popped ==
  ASSUME NEW s \in Seq(Frames), s # <<>>
  PROVE  LET outer == SubSeq(s, 1, Len(s) - 1)
         IN /\ outer \in Seq(Frames)
            /\ {outer[i] : i \in DOMAIN outer} \subseteq {s[i] : i \in DOMAIN s}
            /\ Len(s) \in DOMAIN s
<1> DEFINE outer == SubSeq(s, 1, Len(s) - 1)
<1>1. Len(s) \in Nat \ {0} /\ DOMAIN s = 1..Len(s)
  BY EmptySeq, LenProperties
<1>2. \A i \in 1..(Len(s) - 1) : s[i] \in Frames
  BY <1>1, ElementOfSeq
<1>3. /\ outer \in Seq(Frames) /\ Len(outer) = Len(s) - 1
      /\ \A i \in 1..(Len(s) - 1) : outer[i] = s[i]
  BY <1>1, <1>2, SubSeqProperties
<1>4. DOMAIN outer = 1..(Len(s) - 1)
  BY <1>3, LenProperties
<1> HIDE DEF outer
<1> QED
  BY <1>1, <1>3, <1>4 DEF outer

LEMMA Rungs0 ==
  /\ \A r : <<r>> # <<>> /\ Len(<<r>>) = 1 /\ <<r>>[1] = r
  /\ \A r \in Frames : <<r>> \in Seq(Frames) /\ {<<r>>[i] : i \in DOMAIN <<r>>} = {r}
  /\ <<>> \in Seq(Frames) /\ {<<>>[i] : i \in DOMAIN <<>>} = {}
  OBVIOUS

LEMMA UnitFacts ==
  /\ Whole \in Units /\ Whole \notin Pieces /\ Pieces \subseteq Units
  /\ \A u \in Units : u # Whole => u \in Pieces
  /\ Pieces # {}
<1>1. 1 \in Pieces
  BY SplitAssumption DEF SplitAssumption, Pieces
<1> QED
  BY <1>1 DEF Units, Whole, Pieces

-------------------------------------------------------------------------------
(* The steps of one unit *)

Own(u) == IF u = Whole THEN Pieces ELSE {u}

\* A unit's stack is replaced, and no other's.
LEMMA StackSet ==
  ASSUME stack \in [Units -> Seq(Frames)], NEW u \in Units, NEW s \in Seq(Frames),
         stack' = [stack EXCEPT ![u] = s]
  PROVE  /\ stack' \in [Units -> Seq(Frames)]
         /\ stack'[u] = s
         /\ Inside(u)' = {s[i] : i \in DOMAIN s}
         /\ \A v \in Units \ {u} : stack'[v] = stack[v] /\ Inside(v)' = Inside(v)
<1>1. /\ stack' \in [Units -> Seq(Frames)]
      /\ stack'[u] = s
      /\ \A v \in Units \ {u} : stack'[v] = stack[v]
  OBVIOUS
<1> QED
  BY <1>1 DEF Inside

\* The rungs a unit may be inside of, when it takes one more.
LEMMA RungsKept ==
  ASSUME RungInv, UNCHANGED adapter, NEW u \in Units, NEW rungs,
         \A v \in Units \ {u} : Inside(v)' = Inside(v),
         Inside(u)' \subseteq Inside(u) \cup rungs,
         rungs \cap {"stepDown", "off"} # {} => LowerEffort(adapter) # Nothing,
         "off" \in rungs => DisableReasoning(adapter) # Nothing,
         u # Whole => rungs \subseteq {"stepDown", "off", "schema"}
  PROVE  RungInv'
<1>1. LowerEffort(adapter)' = LowerEffort(adapter)
      /\ DisableReasoning(adapter)' = DisableReasoning(adapter)
  OBVIOUS
<1>2. ASSUME NEW v \in Units, Inside(v)' \cap {"stepDown", "off"} # {}
      PROVE  LowerEffort(adapter) # Nothing
  BY <1>2 DEF RungInv
<1>3. ASSUME NEW v \in Units, "off" \in Inside(v)'
      PROVE  DisableReasoning(adapter) # Nothing
  BY <1>3 DEF RungInv
<1>4. ASSUME NEW p \in Pieces
      PROVE  Inside(p)' \subseteq {"stepDown", "off", "schema"}
  BY UnitFacts DEF RungInv
<1> QED
  BY <1>1, <1>2, <1>3, <1>4 DEF RungInv

\* The unit's call hands back what its reply came to, inside its rungs or, for
\* the whole batch's first call, inside the remedy.
LEMMA HandBackStep ==
  ASSUME IInv, NEW u \in Units, NEW e \in Errors \ {"pieces"}, pc[u] \in Asking,
         HandBack(u, e),
         \/ UNCHANGED stack
         \/ u = Whole /\ stack[u] = <<>> /\ stack' = [stack EXCEPT ![u] = <<"remedy">>],
         \/ e = "none" /\ covered' = covered \cup Own(u)
         \/ e # "none" /\ covered' = covered,
         lowered' \in BOOLEAN,
         UNCHANGED <<call, means, stop, notices, remedies>>
  PROVE  IInv'
<1> USE DEF IInv, HandBack, call, means
<1>0. /\ stack' \in [Units -> Seq(Frames)]
      /\ \A v \in Units \ {u} : Inside(v)' = Inside(v)
      /\ Inside(u)' = Inside(u) \/ (u = Whole /\ Inside(u)' = {"remedy"})
  <2>1. CASE UNCHANGED stack
    BY <2>1 DEF TypeOK, Inside
  <2>2. CASE u = Whole /\ stack' = [stack EXCEPT ![u] = <<"remedy">>]
    <3>1. <<"remedy">> \in Seq(Frames) /\ stack \in [Units -> Seq(Frames)]
          /\ {<<"remedy">>[i] : i \in DOMAIN <<"remedy">>} = {"remedy"}
      BY Rungs0 DEF TypeOK, Frames
    <3> QED BY <2>2, <3>1, StackSet
  <2> QED BY <2>1, <2>2
<1>1. TypeOK'
  <2>1. pc' \in [Units -> PCs] /\ err' \in [Units -> Errors]
    BY DEF TypeOK, PCs
  <2>2. stack' \in [Units -> Seq(Frames)]
    BY <1>0 DEF TypeOK
  <2>3. covered' \subseteq Pieces
    BY UnitFacts DEF TypeOK, Own
  <2> QED BY <2>1, <2>2, <2>3 DEF TypeOK
<1>2. StageInv'
  BY UnitFacts DEF TypeOK, StageInv, Asking
<1>4. ASSUME u = Whole PROVE RemedyInv' /\ CoverInv' /\ FlakyInv'
  <2>1. /\ pc'[Whole] = "returning" /\ err'[Whole] = e
        /\ \A p \in Pieces : pc'[p] = pc[p] /\ err'[p] = err[p]
        /\ stack'[Whole] = stack[Whole]
             \/ (stack[Whole] = <<>> /\ stack'[Whole] = <<"remedy">>)
        /\ covered' = (IF e = "none" THEN Pieces ELSE covered)
        /\ remedies' = remedies /\ notices' = notices /\ stage' = stage /\ error' = error
        /\ pc[Whole] \in Asking
    BY <1>4, UnitFacts DEF TypeOK, Own
  <2> HIDE DEF HandBack, call, means
  <2>2. RemedyInv'
    BY <2>1, Rungs0 DEF RemedyInv, OneRemedy, Asking
  <2>3. CoverInv'
    BY <2>1, UnitFacts DEF StageInv, CoverInv, NoHiddenGap, SplitNoticeTrue, Asking
  <2>4. FlakyPieces' = FlakyPieces /\ FlakyPieces = {}
    BY <2>1 DEF FlakyInv, FlakyPieces
  <2>5. FlakyInv'
    BY <2>1, <2>4 DEF StageInv, FlakyInv, Cut, Asking
  <2> QED BY <2>2, <2>3, <2>5
<1>5. ASSUME u # Whole PROVE RemedyInv' /\ CoverInv' /\ FlakyInv'
  <2>1. /\ pc'[Whole] = pc[Whole] /\ err'[Whole] = err[Whole] /\ stack' = stack
        /\ u \in Pieces /\ pc'[u] = "returning" /\ err'[u] = e
        /\ \A p \in Pieces \ {u} : pc'[p] = pc[p] /\ err'[p] = err[p]
        /\ covered' = (IF e = "none" THEN covered \cup {u} ELSE covered)
        /\ covered \subseteq Pieces
        /\ remedies' = remedies /\ notices' = notices /\ stage' = stage /\ error' = error
        /\ pc[u] \in Asking
    BY <1>5, UnitFacts DEF TypeOK, Own
  <2> HIDE DEF HandBack, call, means
  <2>2. pc[Whole] \in {"splitting", "retrying"}
    BY <2>1 DEF StageInv, Asking
  <2>3. RemedyInv'
    BY <2>1 DEF RemedyInv, OneRemedy
  <2>4. CoverInv'
    BY <2>1, <2>2 DEF CoverInv, NoHiddenGap, SplitNoticeTrue
  <2>5. Cut' = Cut
    BY <2>1 DEF Cut
  <2>6. FlakyInv'
    BY <2>1, <2>2, <2>5 DEF FlakyInv, Asking
  <2> QED BY <2>3, <2>4, <2>6
<1>3. RemedyInv' /\ CoverInv' /\ FlakyInv'
  BY <1>4, <1>5
<1>6. RungInv'
  <2> DEFINE rungs == IF u = Whole THEN {"remedy"} ELSE {}
  <2>1. /\ Inside(u)' \subseteq Inside(u) \cup rungs
        /\ rungs \cap {"stepDown", "off"} = {} /\ "off" \notin rungs
        /\ u # Whole => rungs \subseteq {"stepDown", "off", "schema"}
    BY <1>0
  <2> HIDE DEF rungs
  <2> QED BY <1>0, <2>1, RungsKept
<1> QED
  BY <1>1, <1>2, <1>3, <1>6

\* The unit reissues its call on a rung, inside outer.
LEMMA ReissueStep ==
  ASSUME IInv, NEW u \in Units, NEW outer \in Seq(Frames), NEW rung \in Rungs,
         Reissue(u, outer, rung),
         {outer[i] : i \in DOMAIN outer} \subseteq Inside(u) \cup {"remedy"},
         u # Whole => {outer[i] : i \in DOMAIN outer} \subseteq Inside(u)
                      /\ rung \in {"stepDown", "off", "schema"},
         rung \in {"stepDown", "off"} => LowerEffort(adapter) # Nothing,
         rung = "off" => DisableReasoning(adapter) # Nothing,
         pc[u] \in Asking \cup {"returning"},
         pc[u] = "returning" => stack[u] # <<>> /\ err[u] \notin {"none", "pieces"},
         rung = "escalated" => u = Whole /\ outer = <<>> /\ pc[u] = "returning",
         rung # "escalated" /\ u = Whole =>
           stack[u] \notin {<<"remedy">>, <<"escalated">>},
         UNCHANGED <<call, means, stop, notices, answers>>
  PROVE  IInv'
<1> DEFINE new == Append(outer, rung)
<1>0. /\ new \in Seq(Frames) /\ new # <<>>
      /\ {new[i] : i \in DOMAIN new} = {outer[i] : i \in DOMAIN outer} \cup {rung}
      /\ rung = "escalated" => new = <<"escalated">>
      /\ new # <<"remedy">>
  <2>1. /\ new \in Seq(Frames) /\ new # <<>>
        /\ {new[i] : i \in DOMAIN new} = {outer[i] : i \in DOMAIN outer} \cup {rung}
        /\ outer = <<>> => new = <<rung>>
        /\ new[Len(new)] = rung
    BY Pushed DEF Frames
  <2>2. ASSUME new = <<"remedy">> PROVE FALSE
    <3>1. <<"remedy">>[Len(<<"remedy">>)] = "remedy"
      OBVIOUS
    <3> HIDE DEF new
    <3> QED BY <2>1, <2>2, <3>1 DEF Rungs
  <2> HIDE DEF new
  <2> QED BY <2>1, <2>2
<1>1. /\ pc' = [pc EXCEPT ![u] = "calling"]
      /\ err' = [err EXCEPT ![u] = "none"]
      /\ stack' = [stack EXCEPT ![u] = new]
      /\ remedies' = IF u = Whole /\ rung \in {"stepDown", "escalated"}
                     THEN remedies \cup {rung} ELSE remedies
  BY DEF Reissue
<1> HIDE DEF new
<1>2. /\ stack' \in [Units -> Seq(Frames)] /\ stack'[u] = new
      /\ \A v \in Units \ {u} : stack'[v] = stack[v] /\ Inside(v)' = Inside(v)
      /\ Inside(u)' = {outer[i] : i \in DOMAIN outer} \cup {rung}
  BY <1>0, <1>1, StackSet DEF IInv, TypeOK
<1> USE DEF IInv, call, means, answers
<1>3. TypeOK'
  BY <1>1, <1>2 DEF TypeOK, PCs, Errors
<1>4. StageInv'
  BY <1>1, UnitFacts DEF TypeOK, StageInv, Asking
<1>5. RemedyInv'
  <2>1. ASSUME u = Whole PROVE RemedyInv'
    <3>1. /\ pc'[Whole] = "calling" /\ stack'[Whole] = new
          /\ remedies' = IF rung \in {"stepDown", "escalated"} THEN remedies \cup {rung}
                         ELSE remedies
      BY <1>1, <1>2, <2>1 DEF TypeOK
    <3>2. CASE rung = "escalated"
      BY <1>0, <3>1, <3>2 DEF RemedyInv, OneRemedy, Asking
    <3>3. CASE rung # "escalated"
      <4>1. {"split", "escalated"} \cap remedies = {}
        BY <2>1, <3>3 DEF RemedyInv, Asking
      <4> QED BY <1>0, <3>1, <3>3, <4>1 DEF RemedyInv, OneRemedy, Asking
    <3> QED BY <3>2, <3>3
  <2>2. ASSUME u # Whole PROVE RemedyInv'
    <3>1. pc'[Whole] = pc[Whole] /\ stack'[Whole] = stack[Whole] /\ remedies' = remedies
      BY <1>1, <1>2, <2>2, UnitFacts DEF TypeOK
    <3> QED BY <3>1 DEF RemedyInv, OneRemedy
  <2> QED BY <2>1, <2>2
<1>6. CoverInv'
  BY <1>0, <1>1, <1>2, UnitFacts DEF TypeOK, StageInv, CoverInv, NoHiddenGap, SplitNoticeTrue, Asking
<1>7. FlakyInv'
  BY <1>0, <1>1, <1>2, UnitFacts
     DEF TypeOK, StageInv, FlakyInv, FlakyPieces, ProviderSide, Rescuable, Cut, Asking
<1>8. RungInv'
  <2> DEFINE rungs == IF u = Whole THEN {"remedy", rung} ELSE {rung}
  <2>1. /\ Inside(u)' \subseteq Inside(u) \cup rungs
        /\ rungs \cap {"stepDown", "off"} # {} => LowerEffort(adapter) # Nothing
        /\ "off" \in rungs => DisableReasoning(adapter) # Nothing
        /\ u # Whole => rungs \subseteq {"stepDown", "off", "schema"}
    BY <1>2
  <2> HIDE DEF rungs
  <2> QED BY <1>2, <2>1, RungsKept
<1> QED
  BY <1>3, <1>4, <1>5, <1>6, <1>7, <1>8

\* A rung returns, with the error of the call on it or with the first reply's.
LEMMA PopStep ==
  ASSUME IInv, NEW u \in Units, NEW outer \in Seq(Frames),
         pc[u] = "returning", stack[u] # <<>>,
         stack' = [stack EXCEPT ![u] = outer],
         {outer[i] : i \in DOMAIN outer} \subseteq Inside(u),
         stack[u] = <<"remedy">> => outer = <<>> /\ UNCHANGED err,
         stack[u] = <<"escalated">> => outer = <<>>,
         \/ UNCHANGED err
         \/ err[u] # "none" /\ err' = [err EXCEPT ![u] = "plain"],
         levers' \subseteq levers,
         notices' \subseteq notices \cup {"steppedDown", "reasoningOff"},
         UNCHANGED <<call, pc, adapter, stop, history>>
  PROVE  IInv'
<1>1. /\ stack' \in [Units -> Seq(Frames)] /\ stack'[u] = outer
      /\ \A v \in Units \ {u} : stack'[v] = stack[v] /\ Inside(v)' = Inside(v)
      /\ Inside(u)' \subseteq Inside(u)
  BY StackSet DEF IInv, TypeOK
<1> USE DEF IInv, call, history
<1>2. TypeOK'
  BY <1>1 DEF TypeOK, Errors
<1>3. StageInv'
  BY UnitFacts DEF TypeOK, StageInv
<1>4. RemedyInv'
  BY <1>1, UnitFacts DEF TypeOK, RemedyInv, OneRemedy, Asking
<1>5. CoverInv'
  BY <1>1, UnitFacts DEF TypeOK, StageInv, CoverInv, NoHiddenGap, SplitNoticeTrue
<1>6. FlakyInv'
  <2>1. FlakyPieces' \subseteq FlakyPieces /\ pc' = pc /\ stage' = stage /\ covered' = covered
    <3>1. \A p \in Pieces : err'[p] = err[p] \/ err'[p] = "plain"
      BY UnitFacts DEF TypeOK
    <3> QED BY <3>1 DEF FlakyPieces, ProviderSide, Rescuable
  <2>2. ASSUME u = Whole PROVE FlakyInv'
    <3>1. \A p \in Pieces : err'[p] = err[p]
      BY <2>2, UnitFacts DEF TypeOK
    <3>2. Cut' => Cut
      BY <2>1, <2>2, UnitFacts DEF TypeOK, Cut
    <3>3. pc[Whole] = "returning" /\ (stack[Whole] # <<"remedy">> => FlakyPieces = {})
      BY <2>2 DEF FlakyInv
    <3>4. stack[Whole] = <<"remedy">> => stack'[Whole] = <<>>
      BY <1>1, <2>2
    <3> QED BY <2>1, <3>1, <3>2, <3>3, <3>4 DEF FlakyInv, Asking
  <2>3. ASSUME u # Whole PROVE FlakyInv'
    <3>1. /\ stack'[Whole] = stack[Whole] /\ err'[Whole] = err[Whole]
          /\ pc[Whole] \in {"splitting", "retrying"}
      BY <1>1, <2>3, UnitFacts DEF TypeOK, StageInv
    <3>2. Cut' = Cut
      BY <2>1, <3>1 DEF Cut
    <3>3. \A p \in Pieces : err'[p] = err[p] \/ (p = u /\ err[p] # "none")
      BY <2>3, UnitFacts DEF TypeOK
    <3> QED BY <2>1, <3>1, <3>2, <3>3 DEF FlakyInv, Asking
  <2> QED BY <2>2, <2>3
<1>7. RungInv'
  <2> DEFINE rungs == {}
  <2>1. Inside(u)' \subseteq Inside(u) \cup rungs
    BY <1>1
  <2>2. rungs \cap {"stepDown", "off"} = {} /\ "off" \notin rungs
        /\ rungs \subseteq {"stepDown", "off", "schema"}
    OBVIOUS
  <2> HIDE DEF rungs
  <2> QED BY <1>1, <2>1, <2>2, RungsKept
<1> QED
  BY <1>2, <1>3, <1>4, <1>5, <1>6, <1>7

LEMMA RungReads ==
  ASSUME IInv, NEW u \in Units, Rung(u) # "first"
  PROVE  /\ stack[u] # <<>>
         /\ Rung(u) = stack[u][Len(stack[u])]
         /\ Rung(u) \in Inside(u)
         /\ Outer(u) \in Seq(Frames)
         /\ {Outer(u)[i] : i \in DOMAIN Outer(u)} \subseteq Inside(u)
         /\ \A r : stack[u] = <<r>> => Rung(u) = r /\ Outer(u) = <<>>
<1>1. stack[u] \in Seq(Frames) /\ stack[u] # <<>>
  BY DEF IInv, TypeOK, Rung
<1>2. ASSUME NEW r, stack[u] = <<r>> PROVE Rung(u) = r /\ Outer(u) = <<>>
  BY <1>2, Rungs0, SubSeqEmpty DEF Rung, Outer
<1> QED
  BY <1>1, <1>2, Popped DEF Rung, Outer, Inside

LEMMA ReturningStep ==
  ASSUME IInv, NEW u \in Units, Returning(u)
  PROVE  IInv'
<1>1. CASE StepDownReturns(u)
  <2>0. Rung(u) = "stepDown" /\ pc[u] = "returning"
    BY <1>1 DEF StepDownReturns
  <2>1. LowerEffort(adapter) # Nothing
    BY <2>0, RungReads DEF IInv, RungInv
  <2>2. /\ stack[u] \notin {<<>>, <<"remedy">>, <<"escalated">>}
        /\ Outer(u) \in Seq(Frames)
        /\ {Outer(u)[i] : i \in DOMAIN Outer(u)} \subseteq Inside(u)
    BY <2>0, RungReads
  <2>3. CASE TurnsOff(u)
    <3>1. Reissue(u, Outer(u), "off") /\ UNCHANGED <<call, means, stop, notices, answers>>
      BY <1>1, <2>3 DEF StepDownReturns
    <3>2. DisableReasoning(adapter) # Nothing /\ err[u] \notin {"none", "pieces"}
      BY <2>3 DEF TurnsOff
    <3> QED
      BY <2>0, <2>1, <2>2, <3>1, <3>2, ReissueStep DEF Rungs
  <2>4. CASE ~TurnsOff(u)
    <3>1. /\ stack' = [stack EXCEPT ![u] = Outer(u)]
          /\ notices' \subseteq notices \cup {"steppedDown", "reasoningOff"}
          /\ UNCHANGED err
          /\ levers' \subseteq levers
          /\ UNCHANGED <<call, pc, adapter, stop, history>>
      BY <1>1, <2>4 DEF StepDownReturns, means, answers, history
    <3> QED
      BY <2>0, <2>2, <3>1, PopStep
  <2> QED BY <2>3, <2>4
<1>2. CASE OffReturns(u)
  <2>1. /\ Rung(u) = "off" /\ pc[u] = "returning"
        /\ stack' = [stack EXCEPT ![u] = Outer(u)]
        /\ notices' \subseteq notices \cup {"steppedDown", "reasoningOff"}
        /\ UNCHANGED err
        /\ levers' \subseteq levers
        /\ UNCHANGED <<call, pc, adapter, stop, history>>
    BY <1>2 DEF OffReturns, means
  <2>2. /\ stack[u] \notin {<<>>, <<"remedy">>, <<"escalated">>}
        /\ Outer(u) \in Seq(Frames)
        /\ {Outer(u)[i] : i \in DOMAIN Outer(u)} \subseteq Inside(u)
    BY <2>1, RungReads
  <2> QED
    BY <2>1, <2>2, PopStep
<1>3. CASE SchemaReturns(u)
  <2>1. /\ Rung(u) = "schema" /\ pc[u] = "returning"
        /\ stack' = [stack EXCEPT ![u] = Outer(u)]
        /\ notices' \subseteq notices \cup {"steppedDown", "reasoningOff"}
        /\ UNCHANGED err \/ (err[u] # "none" /\ err' = [err EXCEPT ![u] = "plain"])
        /\ levers' \subseteq levers
        /\ UNCHANGED <<call, pc, adapter, stop, history>>
    BY <1>3 DEF SchemaReturns
  <2>2. /\ stack[u] \notin {<<>>, <<"remedy">>, <<"escalated">>}
        /\ Outer(u) \in Seq(Frames)
        /\ {Outer(u)[i] : i \in DOMAIN Outer(u)} \subseteq Inside(u)
    BY <2>1, RungReads
  <2> QED
    BY <2>1, <2>2, PopStep
<1>4. CASE RerunReturns(u)
  <2>1. /\ Rung(u) \in {"context", "escalated"} /\ pc[u] = "returning"
        /\ stack' = [stack EXCEPT ![u] = Outer(u)]
        /\ notices' \subseteq notices \cup {"steppedDown", "reasoningOff"}
        /\ UNCHANGED err
        /\ levers' \subseteq levers
        /\ UNCHANGED <<call, pc, adapter, stop, history>>
    BY <1>4 DEF RerunReturns, means
  <2>2. /\ stack[u] \notin {<<>>, <<"remedy">>}
        /\ stack[u] = <<"escalated">> => Outer(u) = <<>>
        /\ Outer(u) \in Seq(Frames)
        /\ {Outer(u)[i] : i \in DOMAIN Outer(u)} \subseteq Inside(u)
    BY <2>1, RungReads
  <2> QED
    BY <2>1, <2>2, PopStep
<1> QED
  BY <1>1, <1>2, <1>3, <1>4 DEF Returning

LEMMA RemedyReturnsStep ==
  ASSUME IInv, RemedyReturns
  PROVE  IInv'
<1>0. /\ Whole \in Units /\ pc[Whole] = "returning" /\ stack[Whole] # <<>>
      /\ <<>> \in Seq(Frames) /\ {<<>>[i] : i \in DOMAIN <<>>} = {}
  BY RungReads, UnitFacts, Rungs0 DEF RemedyReturns
<1>1. CASE Escalates
  <2>1. Reissue(Whole, <<>>, "escalated") /\ UNCHANGED <<call, means, stop, notices, answers>>
    BY <1>1 DEF RemedyReturns
  <2>2. err[Whole] \notin {"none", "pieces"}
    BY <1>1 DEF Escalates
  <2> QED
    BY <1>0, <2>1, <2>2, ReissueStep DEF Rungs
<1>2. CASE ~Escalates
  <2>1. /\ stack' = [stack EXCEPT ![Whole] = <<>>]
        /\ UNCHANGED err /\ levers' \subseteq levers
        /\ notices' \subseteq notices \cup {"steppedDown", "reasoningOff"}
        /\ UNCHANGED <<call, pc, adapter, stop, history>>
    BY <1>2 DEF RemedyReturns, means, answers, history
  <2> QED
    BY <1>0, <2>1, PopStep
<1> QED
  BY <1>1, <1>2

\* What a provider's reply, or the lack of one, makes of the unit's call.
LEMMA ReplyStep ==
  ASSUME IInv, NEW u \in Units, Reply(u)
  PROVE  IInv'
<1>0. /\ stack[u] \in Seq(Frames)
      /\ Remedy(u) \in Seq(Frames)
      /\ {Remedy(u)[i] : i \in DOMAIN Remedy(u)} \subseteq Inside(u) \cup {"remedy"}
      /\ u # Whole => Remedy(u) = stack[u]
      /\ stack[u] # <<>> => Remedy(u) = stack[u]
      /\ u = Whole /\ stack[u] = <<>> => Remedy(u) = <<"remedy">>
      /\ lowered \in BOOLEAN
      /\ \A r : stack[u] = <<r>> => Rung(u) = r
      /\ stack[u] = <<>> => Rung(u) = "first"
  <2>1. stack[u] \in Seq(Frames) /\ lowered \in BOOLEAN
    BY DEF IInv, TypeOK
  <2>2. CASE HoldsCallbacks(u)
    <3>1. Remedy(u) = <<"remedy">> /\ u = Whole /\ stack[u] = <<>>
      BY <2>2 DEF Remedy, HoldsCallbacks
    <3> QED BY <2>1, <3>1, Rungs0 DEF Frames, Rung
  <2>3. CASE ~HoldsCallbacks(u)
    <3>1. Remedy(u) = stack[u] /\ ~(u = Whole /\ stack[u] = <<>>)
      BY <2>3 DEF Remedy, HoldsCallbacks
    <3> QED BY <2>1, <3>1, Rungs0 DEF Inside, Rung
  <2> QED BY <2>2, <2>3
<1>1. CASE Answered(u) \/ Repaired(u)
  <2>1. /\ pc[u] \in Asking /\ HandBack(u, "none") /\ UNCHANGED stack
        /\ covered' = covered \cup Own(u) /\ lowered' \in BOOLEAN
        /\ UNCHANGED <<call, means, stop, notices, remedies>>
    BY <1>0, <1>1 DEF Answered, Repaired, Use, Own, Asking
  <2> QED BY <2>1, HandBackStep DEF Errors
<1>2. CASE Defers(u)
  <2>1. u = Whole /\ stack[u] = <<>> /\ pc[u] = "calling"
    BY <1>2 DEF Defers, HoldsCallbacks
  <2>2. CASE stop
    <3>1. /\ HandBack(u, "skipped") /\ UNCHANGED stack
          /\ covered' = covered /\ lowered' \in BOOLEAN
          /\ UNCHANGED <<call, means, stop, notices, remedies>>
      BY <1>0, <1>2, <2>2 DEF Defers, answers
    <3> QED BY <2>1, <3>1, HandBackStep DEF Errors, Asking
  <2>3. CASE ~stop
    <3>1. /\ pc' = [pc EXCEPT ![Whole] = "fetching"]
          /\ covered' = Pieces /\ lowered' \in BOOLEAN
          /\ UNCHANGED <<call, stack, err, means, stop, notices, remedies>>
      BY <1>0, <1>2, <2>1, <2>3 DEF Defers, Use, IInv, TypeOK
    <3> USE <2>1, <3>1 DEF IInv, call, means
    <3>2. TypeOK'
      BY DEF TypeOK, PCs
    <3>3. StageInv'
      BY UnitFacts DEF TypeOK, StageInv
    <3>4. RemedyInv'
      BY UnitFacts, Rungs0 DEF TypeOK, RemedyInv, OneRemedy, Asking
    <3>5. CoverInv'
      BY UnitFacts DEF TypeOK, StageInv, CoverInv, NoHiddenGap, SplitNoticeTrue
    <3>6. FlakyInv'
      BY UnitFacts
         DEF TypeOK, StageInv, FlakyInv, FlakyPieces, ProviderSide, Rescuable, Cut, Asking
    <3>7. RungInv'
      BY DEF RungInv, Inside
    <3> QED BY <3>2, <3>3, <3>4, <3>5, <3>6, <3>7
  <2> QED BY <2>2, <2>3
<1>3. ASSUME NEW e \in Errors \ {"none", "pieces"}, pc[u] \in Asking, HandBack(u, e),
             stack' = stack \/ stack' = [stack EXCEPT ![u] = Remedy(u)],
             UNCHANGED <<call, means, stop, notices, history>>
      PROVE  IInv'
  <2>1. stack' = stack \/ (u = Whole /\ stack[u] = <<>> /\ stack' = [stack EXCEPT ![u] = <<"remedy">>])
    BY <1>0, <1>3 DEF IInv, TypeOK
  <2>2. covered' = covered /\ lowered' \in BOOLEAN /\ UNCHANGED <<call, means, stop, notices, remedies>>
    BY <1>0, <1>3 DEF history
  <2> QED BY <1>3, <2>1, <2>2, HandBackStep
<1>4. CASE CallFails(u)
  BY <1>3, <1>4 DEF CallFails, Errors, Asking
<1>5. ASSUME NEW reply \in Oversized, TooBigAgain(u, reply) PROVE IInv'
  BY <1>3, <1>5 DEF TooBigAgain, OversizedError, Errors, Asking
<1>6. CASE StepDown(u)
  <2>1. /\ Reissue(u, Remedy(u), "stepDown") /\ pc[u] = "calling"
        /\ LowerEffort(adapter) # Nothing
        /\ Rung(u) \notin {"stepDown", "off", "escalated"}
        /\ UNCHANGED <<call, means, stop, notices, answers>>
    BY <1>6 DEF StepDown, StepsDown
  <2>2. u = Whole => stack[u] \notin {<<"remedy">>, <<"escalated">>}
    <3>1. stack[u] # <<"escalated">>
      BY <1>0, <2>1
    <3>2. u = Whole => stack[u] # <<"remedy">>
      BY <2>1 DEF IInv, RemedyInv, Asking
    <3> QED BY <3>1, <3>2
  <2> QED
    BY <1>0, <2>1, <2>2, ReissueStep DEF Rungs, Asking, Inside
<1>7. CASE ThoughtTooLong(u)
  BY <1>3, <1>7 DEF ThoughtTooLong, Errors, Asking
<1>8. CASE Unparseable(u)
  BY <1>3, <1>8 DEF Unparseable, CannotParse, Errors, Asking
<1>9. CASE Repair(u)
  <2>0. /\ pc[u] = "calling" /\ pc' = [pc EXCEPT ![u] = "repairing"]
        /\ UNCHANGED <<call, stack, err, means, stop, notices, history>>
        /\ stack[u] # <<"escalated">>
    BY <1>0, <1>9 DEF Repair, MayRecover
  <2> USE <2>0 DEF IInv, call, means, history
  <2>2. TypeOK'
    BY DEF TypeOK, PCs
  <2>3. StageInv'
    BY UnitFacts DEF TypeOK, StageInv
  <2>4. RemedyInv'
    BY UnitFacts, Rungs0 DEF TypeOK, RemedyInv, OneRemedy, Asking
  <2>5. CoverInv'
    BY UnitFacts DEF TypeOK, StageInv, CoverInv, NoHiddenGap, SplitNoticeTrue
  <2>6. FlakyInv'
    BY UnitFacts
       DEF TypeOK, StageInv, FlakyInv, FlakyPieces, ProviderSide, Rescuable, Cut, Asking
  <2>7. RungInv'
    BY DEF RungInv, Inside
  <2> QED BY <2>2, <2>3, <2>4, <2>5, <2>6, <2>7
<1>10. CASE RetryWithoutSchema(u)
  <2>1. /\ Reissue(u, stack[u], "schema") /\ pc[u] \in Asking
        /\ Rung(u) \notin {"schema", "escalated"}
        /\ UNCHANGED <<call, means, stop, notices, answers>>
    BY <1>10 DEF RetryWithoutSchema, CannotParse, ReasksWithoutSchema, Asking
  <2>2. u = Whole => stack[u] \notin {<<"remedy">>, <<"escalated">>}
    BY <1>0, <2>1 DEF IInv, RemedyInv
  <2>3. {stack[u][i] : i \in DOMAIN stack[u]} \subseteq Inside(u)
    BY DEF Inside
  <2>4. pc[u] # "returning"
    BY <2>1 DEF Asking
  <2> QED
    BY <1>0, <2>1, <2>2, <2>3, <2>4, ReissueStep DEF Rungs
<1> QED
  BY <1>1, <1>2, <1>4, <1>5, <1>6, <1>7, <1>8, <1>9, <1>10 DEF Reply

-------------------------------------------------------------------------------
(* The steps of the split, of the deferral and of the task *)

LEMMA FetchStep ==
  ASSUME IInv, FetchesNothing(Whole) \/ FetchesContext(Whole)
  PROVE  IInv'
<1>0. /\ Whole \in Units /\ pc[Whole] = "fetching" /\ stack[Whole] = <<>>
      /\ covered = Pieces /\ lowered \in BOOLEAN
  BY UnitFacts DEF IInv, TypeOK, RemedyInv, CoverInv, FetchesNothing, FetchesContext, Asking
<1>1. CASE FetchesNothing(Whole)
  <2>1. /\ HandBack(Whole, "none") /\ UNCHANGED stack
        /\ covered' = covered \cup Own(Whole) /\ lowered' \in BOOLEAN
        /\ UNCHANGED <<call, means, stop, notices, remedies>>
    BY <1>0, <1>1 DEF FetchesNothing, history, Own
  <2> QED BY <1>0, <2>1, HandBackStep DEF Errors, Asking
<1>2. CASE FetchesContext(Whole)
  <2>1. Reissue(Whole, <<>>, "context") /\ UNCHANGED <<call, means, stop, notices, answers>>
    BY <1>0, <1>2 DEF FetchesContext
  <2>2. /\ <<>> \in Seq(Frames) /\ {<<>>[i] : i \in DOMAIN <<>>} = {}
        /\ stack[Whole] \notin {<<"remedy">>, <<"escalated">>}
    BY <1>0, Rungs0
  <2> QED
    BY <1>0, <2>1, <2>2, ReissueStep DEF Rungs, Asking
<1> QED
  BY <1>1, <1>2

LEMMA CannotSplitStep ==
  ASSUME IInv, NEW reply \in Oversized, CannotSplit(reply)
  PROVE  IInv'
<1> DEFINE e == OversizedError(reply)
<1>1. e \in Errors \ {"none", "pieces"}
  BY DEF OversizedError, Errors
<1>2. /\ Whole \in Units /\ pc[Whole] \in Asking /\ HandBack(Whole, e)
      /\ stack[Whole] = <<>> /\ stack' = [stack EXCEPT ![Whole] = <<"remedy">>]
      /\ covered' = covered /\ lowered' \in BOOLEAN
      /\ UNCHANGED <<call, means, stop, notices, remedies>>
  BY UnitFacts DEF CannotSplit, HoldsCallbacks, Asking, history, IInv, TypeOK
<1> HIDE DEF e
<1> QED
  BY <1>1, <1>2, HandBackStep

LEMMA SplitStep ==
  ASSUME IInv, NEW reply \in Oversized, Split(reply)
  PROVE  IInv'
<1>0. /\ pc[Whole] = "calling" /\ stack[Whole] = <<>>
      /\ pc' = [u \in Units |-> IF u = Whole THEN "splitting" ELSE "queued"]
      /\ stack' = [stack EXCEPT ![Whole] = <<"remedy">>]
      /\ remedies' = remedies \cup {"split"}
      /\ UNCHANGED <<call, err, means, stop, notices, answers>>
      /\ remedies = {}
  BY DEF Split, HoldsCallbacks, IInv, RemedyInv, Asking
<1>1. /\ stack' \in [Units -> Seq(Frames)] /\ stack'[Whole] = <<"remedy">>
      /\ \A v \in Units \ {Whole} : stack'[v] = stack[v] /\ Inside(v)' = Inside(v)
      /\ Inside(Whole)' = {"remedy"}
  <2>1. <<"remedy">> \in Seq(Frames) /\ stack \in [Units -> Seq(Frames)]
        /\ {<<"remedy">>[i] : i \in DOMAIN <<"remedy">>} = {"remedy"}
    BY Rungs0 DEF IInv, TypeOK, Frames
  <2> QED BY <1>0, <2>1, StackSet, UnitFacts
<1> USE DEF IInv, call, means, answers
<1>2. TypeOK'
  BY <1>0, <1>1 DEF TypeOK, PCs
<1>3. StageInv'
  BY <1>0, UnitFacts DEF TypeOK, StageInv
<1>4. RemedyInv'
  BY <1>0, <1>1, UnitFacts DEF TypeOK, RemedyInv, OneRemedy, Asking
<1>5. CoverInv'
  BY <1>0, UnitFacts DEF TypeOK, StageInv, CoverInv, NoHiddenGap, SplitNoticeTrue
<1>6. FlakyInv'
  BY <1>0, UnitFacts
     DEF TypeOK, StageInv, CoverInv, FlakyInv, FlakyPieces, ProviderSide, Rescuable, Cut, Asking
<1>7. RungInv'
  <2> DEFINE rungs == {"remedy"}
  <2>1. /\ Inside(Whole)' \subseteq Inside(Whole) \cup rungs
        /\ rungs \cap {"stepDown", "off"} = {} /\ "off" \notin rungs
    BY <1>1
  <2> HIDE DEF rungs
  <2> QED BY <1>0, <1>1, <2>1, UnitFacts, RungsKept
<1> QED
  BY <1>2, <1>3, <1>4, <1>5, <1>6, <1>7

\* A piece is picked up, or not, or its outcome is collected.
LEMMA PieceStep ==
  ASSUME IInv, NEW p \in Pieces, StartPiece(p) \/ SkipPiece(p) \/ FinishPiece(p)
  PROVE  IInv'
<1>1. /\ \/ pc[p] = "queued" /\ pc' = [pc EXCEPT ![p] = "calling"] /\ UNCHANGED err
         \/ /\ pc[p] = "queued" /\ pc' = [pc EXCEPT ![p] = "done"]
            /\ err' = [err EXCEPT ![p] = "skipped"]
         \/ pc[p] = "returning" /\ pc' = [pc EXCEPT ![p] = "done"] /\ UNCHANGED err
      /\ UNCHANGED <<call, stack, means, stop, notices, history>>
  BY DEF StartPiece, SkipPiece, FinishPiece, PickUp
<1>2. p \in Units /\ p # Whole
  BY UnitFacts
<1> USE DEF IInv, call, means, history
<1>3. TypeOK'
  BY <1>1, <1>2 DEF TypeOK, PCs, Errors
<1>4. StageInv'
  BY <1>1, <1>2, UnitFacts DEF TypeOK, StageInv
<1>5. RemedyInv'
  BY <1>1, <1>2, UnitFacts DEF TypeOK, RemedyInv, OneRemedy
<1>6. CoverInv'
  BY <1>1, <1>2, UnitFacts DEF TypeOK, StageInv, CoverInv, NoHiddenGap, SplitNoticeTrue
<1>7. FlakyInv'
  <2>1. /\ pc'[Whole] = pc[Whole] /\ err'[Whole] = err[Whole]
        /\ stack' = stack /\ stage' = stage /\ covered' = covered
        /\ \A q \in Pieces \ {p} : pc'[q] = pc[q] /\ err'[q] = err[q]
        /\ \/ pc[p] = "queued" /\ pc'[p] \in {"calling", "done"}
           \/ pc[p] = "returning" /\ pc'[p] = "done" /\ err'[p] = err[p]
    BY <1>1, <1>2, UnitFacts DEF TypeOK
  <2>2. pc[Whole] \in {"splitting", "retrying"}
    BY <2>1 DEF StageInv
  <2>3. Cut' = Cut
    BY <2>1 DEF Cut
  <2> QED BY <2>1, <2>2, <2>3 DEF FlakyInv, Asking
<1>8. RungInv'
  BY <1>1 DEF RungInv, Inside
<1> QED
  BY <1>3, <1>4, <1>5, <1>6, <1>7, <1>8

LEMMA JoinStep ==
  ASSUME IInv, JoinSplit \/ JoinRetry
  PROVE  IInv'
<1>1. /\ pc[Whole] \in {"splitting", "retrying"}
      /\ \A p \in Pieces : pc[p] = "done"
      /\ pc' = [pc EXCEPT ![Whole] = "returning"]
      /\ notices' = IF Failed # Pieces THEN notices \cup {"split"} ELSE notices
      /\ UNCHANGED <<call, means, stop, history>>
  BY DEF JoinSplit, JoinRetry, HandBack
<1>2. \/ /\ pc[Whole] = "splitting" /\ UNCHANGED stack
         /\ err' = [err EXCEPT ![Whole] = SplitError]
      \/ /\ pc[Whole] = "retrying" /\ stack' = [stack EXCEPT ![Whole] = <<>>]
         /\ err' = [err EXCEPT ![Whole] = RetryError]
  BY DEF JoinSplit, JoinRetry, HandBack
<1>3. /\ stack' \in [Units -> Seq(Frames)]
      /\ \A v \in Units \ {Whole} : stack'[v] = stack[v] /\ Inside(v)' = Inside(v)
      /\ Inside(Whole)' \subseteq Inside(Whole)
      /\ pc[Whole] = "retrying" => stack'[Whole] = <<>>
      /\ pc[Whole] = "splitting" => stack' = stack
  <2>1. CASE pc[Whole] = "splitting"
    <3>1. UNCHANGED stack
      BY <1>2, <2>1
    <3>2. \A v \in Units : stack'[v] = stack[v] /\ Inside(v)' = Inside(v)
      BY <3>1 DEF Inside
    <3> QED BY <2>1, <3>1, <3>2, UnitFacts DEF IInv, TypeOK
  <2>2. CASE pc[Whole] = "retrying"
    <3>1. stack' = [stack EXCEPT ![Whole] = <<>>] /\ stack \in [Units -> Seq(Frames)]
      BY <1>2, <2>2 DEF IInv, TypeOK
    <3>2. /\ stack' \in [Units -> Seq(Frames)] /\ stack'[Whole] = <<>>
          /\ Inside(Whole)' = {}
          /\ \A v \in Units \ {Whole} : stack'[v] = stack[v] /\ Inside(v)' = Inside(v)
      BY <3>1, StackSet, Rungs0, UnitFacts
    <3> QED BY <2>2, <3>2
  <2> QED BY <1>1, <2>1, <2>2
<1>4. /\ SplitError = "none" => Pieces \subseteq covered
      /\ RetryError = "none" => Pieces \subseteq covered
      /\ Failed # Pieces => covered # {}
      /\ SplitError \in {"none", "pieces", "plain"} /\ RetryError \in {"none", "plain"}
      /\ FlakyPieces = {} \/ SplitError = "pieces"
  <2>1. Pieces \ Failed \subseteq covered
    BY <1>1 DEF IInv, CoverInv, Failed
  <2>2. SplitError = "none" => Failed = {}
    BY DEF SplitError
  <2>3. RetryError = "none" => Failed = {}
    BY DEF RetryError
  <2>4. FlakyPieces \subseteq Failed /\ Failed \subseteq Pieces
    BY DEF FlakyPieces, Failed, ProviderSide, Rescuable
  <2>5. SplitError \in {"none", "pieces", "plain"} /\ RetryError \in {"none", "plain"}
    BY DEF SplitError, RetryError
  <2>6. FlakyPieces = {} \/ SplitError = "pieces"
    BY <2>4 DEF SplitError
  <2> QED BY <2>1, <2>2, <2>3, <2>4, <2>5, <2>6
<1> USE DEF IInv, call, means, history
<1>5. TypeOK'
  <2>1. pc' \in [Units -> PCs]
    BY <1>1 DEF TypeOK, PCs
  <2>2. err' \in [Units -> Errors]
    BY <1>2, <1>4 DEF TypeOK, Errors
  <2> QED BY <1>1, <1>3, <2>1, <2>2 DEF TypeOK
<1>6. StageInv'
  BY <1>1, <1>2, UnitFacts DEF TypeOK, StageInv
<1>7. RemedyInv'
  BY <1>1, <1>2, <1>3, UnitFacts DEF TypeOK, RemedyInv, OneRemedy, Asking
<1>8. CoverInv'
  BY <1>1, <1>2, <1>3, <1>4, UnitFacts
     DEF TypeOK, StageInv, CoverInv, NoHiddenGap, SplitNoticeTrue
<1>9. FlakyInv'
  <2>1. /\ pc'[Whole] = "returning" /\ err'[Whole] \in {SplitError, RetryError}
        /\ pc[Whole] = "splitting" => err'[Whole] = SplitError
        /\ pc[Whole] = "retrying" => err'[Whole] # "pieces"
        /\ stage' = stage /\ covered' = covered
        /\ \A p \in Pieces : pc'[p] = pc[p] /\ err'[p] = err[p]
    BY <1>1, <1>2, <1>4, UnitFacts DEF TypeOK
  <2>2. FlakyPieces' = FlakyPieces
    BY <2>1 DEF FlakyPieces
  <2>3. Cut' => Cut
    BY <1>1, <2>1 DEF Cut
  <2>4. stack'[Whole] # <<>> => pc[Whole] = "splitting" /\ stack'[Whole] = <<"remedy">>
    BY <1>1, <1>3 DEF RemedyInv
  <2> QED BY <1>4, <2>1, <2>2, <2>3, <2>4 DEF FlakyInv, Asking
<1>10. RungInv'
  <2> DEFINE rungs == {}
  <2>1. Inside(Whole)' \subseteq Inside(Whole) \cup rungs
    BY <1>3
  <2>2. rungs \cap {"stepDown", "off"} = {} /\ "off" \notin rungs
    OBVIOUS
  <2> HIDE DEF rungs
  <2> QED BY <1>1, <1>3, <2>1, <2>2, UnitFacts, RungsKept
<1> QED
  BY <1>5, <1>6, <1>7, <1>8, <1>9, <1>10

\* The task asks for the whole batch, for the first time or again.
LEMMA AskStep ==
  ASSUME IInv, Begin \/ RescueTask
  PROVE  IInv'
<1>1. /\ pc' = [u \in Units |-> IF u = Whole THEN "calling" ELSE "idle"]
      /\ stack' = [u \in Units |-> <<>>]
      /\ err' = [u \in Units |-> "none"]
      /\ remedies' = {}
      /\ UNCHANGED <<means, stop, notices, answers, error>>
      /\ \/ stage = "waiting" /\ stage' = "running"
         \/ stage = "returned" /\ stage' = "rerunning"
  BY DEF Begin, RescueTask, Ask
<1>2. \A u \in Units : Inside(u)' = {}
  BY <1>1, Rungs0 DEF Inside
<1> USE DEF IInv, means, answers
<1>3. TypeOK'
  BY <1>1, Rungs0 DEF TypeOK, PCs, Errors
<1>4. StageInv'
  BY <1>1, UnitFacts DEF TypeOK, StageInv
<1>5. RemedyInv'
  BY <1>1, UnitFacts, Rungs0 DEF TypeOK, RemedyInv, OneRemedy, Asking
<1>6. CoverInv'
  BY <1>1, UnitFacts DEF TypeOK, StageInv, CoverInv, NoHiddenGap, SplitNoticeTrue
<1>7. FlakyInv'
  BY <1>1, UnitFacts
     DEF TypeOK, StageInv, FlakyInv, FlakyPieces, ProviderSide, Rescuable, Cut, Asking
<1>8. RungInv'
  BY <1>2, UnitFacts DEF RungInv
<1> QED
  BY <1>3, <1>4, <1>5, <1>6, <1>7, <1>8

\* The task has an outcome, or its outcome is final.
LEMMA OutcomeStep ==
  ASSUME IInv, Skip \/ Return \/ SkipRescue \/ Settle
  PROVE  IInv'
<1>1. /\ \/ stage = "waiting" /\ stage' = "returned" /\ error' = "skipped" /\ UNCHANGED pc
         \/ /\ stage \in {"running", "rerunning"} /\ pc[Whole] = "returning"
            /\ stack[Whole] = <<>>
            /\ stage' = IF stage = "running" THEN "returned" ELSE "settled"
            /\ error' = err[Whole] /\ pc' = [pc EXCEPT ![Whole] = "done"]
         \/ stage = "returned" /\ stage' = "settled" /\ error' = "skipped" /\ UNCHANGED pc
         \/ stage = "returned" /\ stage' = "settled" /\ error' = error /\ UNCHANGED pc
      /\ UNCHANGED <<stack, err, means, stop, notices, history>>
  BY DEF Skip, Return, SkipRescue, Settle
<1> USE DEF IInv, means, history
<1>3. TypeOK'
  BY <1>1, UnitFacts DEF TypeOK, PCs, Errors
<1>4. StageInv'
  BY <1>1, UnitFacts DEF TypeOK, StageInv
<1>5. RemedyInv'
  BY <1>1, UnitFacts, Rungs0 DEF TypeOK, RemedyInv, OneRemedy, Asking
<1>6. CoverInv'
  BY <1>1, UnitFacts DEF TypeOK, StageInv, CoverInv, NoHiddenGap, SplitNoticeTrue
<1>7. FlakyInv'
  <2>1. /\ pc'[Whole] = pc[Whole] \/ pc'[Whole] = "done"
        /\ pc'[Whole] \in {"idle", "done"}
        /\ \A p \in Pieces : pc'[p] = pc[p]
        /\ err' = err /\ covered' = covered
    BY <1>1, UnitFacts DEF TypeOK, StageInv
  <2>2. Cut' => Cut
    BY <1>1, <2>1 DEF Cut, StageInv
  <2> QED BY <2>1, <2>2 DEF FlakyInv, Asking
<1>8. RungInv'
  BY <1>1 DEF RungInv, Inside
<1> QED
  BY <1>3, <1>4, <1>5, <1>6, <1>7, <1>8

LEMMA RescuePiecesStep ==
  ASSUME IInv, RescuePieces
  PROVE  IInv'
<1>1. /\ stage = "returned" /\ error = "pieces" /\ stage' = "rerunning"
      /\ pc' = [u \in Units |-> IF u = Whole THEN "retrying"
                                ELSE IF u \in FlakyPieces THEN "queued" ELSE pc[u]]
      /\ remedies' = {}
      /\ UNCHANGED <<error, stack, err, means, stop, notices, answers>>
  BY DEF RescuePieces
<1> USE DEF IInv, means, answers
<1>2. pc[Whole] = "done" /\ Cut
  BY <1>1 DEF StageInv, Cut
<1>3. TypeOK'
  BY <1>1 DEF TypeOK, PCs
<1>4. StageInv'
  BY <1>1, <1>2, UnitFacts DEF TypeOK, StageInv
<1>5. RemedyInv'
  BY <1>1, <1>2, UnitFacts DEF TypeOK, RemedyInv, OneRemedy, Asking
<1>6. CoverInv'
  BY <1>1, <1>2, UnitFacts
     DEF TypeOK, StageInv, CoverInv, NoHiddenGap, SplitNoticeTrue, FlakyPieces, ProviderSide, Rescuable
<1>7. FlakyInv'
  BY <1>1, <1>2, UnitFacts
     DEF TypeOK, StageInv, FlakyInv, FlakyPieces, ProviderSide, Rescuable, Cut, Asking
<1>8. RungInv'
  BY <1>1 DEF RungInv, Inside
<1> QED
  BY <1>3, <1>4, <1>5, <1>6, <1>7, <1>8

\* The environment, and the steps that change nothing.
LEMMA AroundStep ==
  ASSUME IInv, CeilingReached \/ SchemaDropped \/ UNCHANGED vars
  PROVE  IInv'
<1>1. /\ UNCHANGED <<stage, error, pc, stack, err, adapter, notices, remedies, covered, lowered>>
      /\ levers' \subseteq levers /\ stop' \in BOOLEAN
  BY DEF CeilingReached, SchemaDropped, vars, call, means, history, IInv, TypeOK
<1> USE DEF IInv
<1>2. TypeOK'
  BY <1>1 DEF TypeOK
<1>3. StageInv' /\ RemedyInv'
  BY <1>1 DEF StageInv, RemedyInv, OneRemedy
<1>4. CoverInv' /\ FlakyInv'
  BY <1>1 DEF CoverInv, NoHiddenGap, SplitNoticeTrue, FlakyInv, FlakyPieces, Cut
<1>5. RungInv'
  BY <1>1 DEF RungInv, Inside
<1> QED
  BY <1>2, <1>3, <1>4, <1>5

-------------------------------------------------------------------------------
(* The invariant *)

LEMMA InitIInv == Init => IInv
<1> SUFFICES ASSUME Init PROVE IInv
  OBVIOUS
<1> USE DEF Init
<1>1. TypeOK
  BY LeverAssumption, Rungs0 DEF LeverAssumption, TypeOK, PCs, Errors
<1>2. \A u \in Units : Inside(u) = {}
  BY Rungs0 DEF Inside
<1>3. RungInv
  BY <1>2, UnitFacts DEF RungInv
<1>4. StageInv /\ RemedyInv /\ CoverInv /\ FlakyInv
  BY UnitFacts DEF StageInv, RemedyInv, CoverInv, FlakyInv, OneRemedy, NoHiddenGap,
    SplitNoticeTrue, FlakyPieces, ProviderSide, Rescuable, Cut, Asking
<1> QED
  BY <1>1, <1>3, <1>4 DEF IInv

LEMMA BatchStep ==
  ASSUME IInv, Batch
  PROVE  IInv'
<1>1. CASE Begin \/ RescueTask
  BY <1>1, AskStep
<1>2. CASE Skip \/ Return \/ SkipRescue \/ Settle
  BY <1>2, OutcomeStep
<1>3. CASE RescuePieces
  BY <1>3, RescuePiecesStep
<1>4. CASE FetchesNothing(Whole) \/ FetchesContext(Whole)
  BY <1>4, FetchStep
<1>5. CASE \E reply \in Oversized : CannotSplit(reply) \/ Split(reply)
  BY <1>5, CannotSplitStep, SplitStep
<1>6. CASE JoinSplit \/ JoinRetry
  BY <1>6, JoinStep
<1>7. CASE RemedyReturns
  BY <1>7, RemedyReturnsStep
<1>8. CASE Reply(Whole) \/ Returning(Whole)
  BY <1>8, ReplyStep, ReturningStep, UnitFacts
<1> QED
  BY <1>1, <1>2, <1>3, <1>4, <1>5, <1>6, <1>7, <1>8 DEF Batch

LEMMA NextIInv == IInv /\ [Next]_vars => IInv'
<1> SUFFICES ASSUME IInv, [Next]_vars PROVE IInv'
  OBVIOUS
<1>1. CASE Batch
  BY <1>1, BatchStep
<1>2. ASSUME NEW p \in Pieces, Piece(p) PROVE IInv'
  BY <1>2, PieceStep, ReplyStep, ReturningStep, UnitFacts DEF Piece
<1>3. CASE CeilingReached \/ SchemaDropped \/ Over \/ UNCHANGED vars
  BY <1>3, AroundStep DEF Over
<1> QED
  BY <1>1, <1>2, <1>3 DEF Next

\* Whatever the replies, and however the pieces' threads interleave.
THEOREM Invariance == Spec => []IInv
  BY InitIInv, NextIInv, PTL DEF Spec

\* The stacks of rungs, the errors and the notices stay what the code knows.
THEOREM TypeCorrect == Spec => []TypeOK
<1>1. IInv => TypeOK
  BY DEF IInv
<1> QED
  BY <1>1, Invariance, PTL

\* A call that reports no error was answered for every piece of its batch, a
\* batch is cut or thought about less but never both, and the notice that it was
\* cut is only posted over an answer (_review_split, _remedy_oversized).
THEOREM RecoveryIsHonest == Spec => []AnswersAreWhole
<1>1. IInv => AnswersAreWhole
  BY DEF IInv, RemedyInv, CoverInv, AnswersAreWhole
<1> QED
  BY <1>1, Invariance, PTL

\* Whatever the model's dial, no reissue asks it to think as much again
\* (lower_reasoning_effort, disable_reasoning).
THEOREM ThinksLess == Spec => []EffortGoesDown
<1>1. IInv => EffortGoesDown
  <2> SUFFICES ASSUME IInv, NEW u \in Units, Rung(u) \in {"stepDown", "off"}
               PROVE  /\ GoesDown(adapter)
                      /\ LowerEffort(adapter) # Nothing
                      /\ Rung(u) = "off" => DisableReasoning(adapter) \in Efforts
    BY DEF EffortGoesDown
  <2>1. adapter \in Adapters /\ GoesDown(adapter)
    BY RetriesThinkLess DEF IInv, TypeOK
  <2>2. Rung(u) \in Inside(u)
    BY RungReads
  <2>3. LowerEffort(adapter) # Nothing
    BY <2>2 DEF IInv, RungInv
  <2>4. ASSUME Rung(u) = "off" PROVE DisableReasoning(adapter) \in Efforts
    <3>1. DisableReasoning(adapter) # Nothing
      BY <2>2, <2>4 DEF IInv, RungInv
    <3>2. DisableReasoning(adapter) \in adapter.levels
      BY <2>1, <3>1 DEF GoesDown
    <3> QED BY <2>1, <3>2 DEF Adapters
  <2> QED BY <2>1, <2>3, <2>4
<1> QED
  BY <1>1, Invariance, PTL

-------------------------------------------------------------------------------
(* What the rungs may never do *)

\* How a unit comes to ask: the task is picked up, a piece is, the files asked
\* for are there, or a rung is climbed; in each case but the third no ceiling is
\* reached.
AskedBy(u) ==
  \/ u = Whole /\ ~stop /\ stage' # stage
  \/ u \in Pieces /\ ~stop /\ pc[u] = "queued"
  \/ u = Whole /\ pc[u] = "fetching"
  \/ /\ ~stop /\ pc[u] \in Asking
     /\ Rung(u) # "escalated"
     /\ Rung(u)' # "escalated"
  \/ /\ ~stop /\ pc[u] = "returning" /\ Rung(u) = "stepDown" /\ err[u] = "thinking"
     /\ Rung(u)' # "escalated"
  \/ u = Whole /\ ~stop /\ pc[u] = "returning" /\ Rung(u) = "remedy" /\ Escalates

\* A unit that is reissued is the only one that asks.
LEMMA ReissueAsks ==
  ASSUME IInv, NEW u \in Units, NEW v \in Units, NEW outer \in Seq(Frames), NEW rung \in Rungs,
         Reissue(u, outer, rung), Asks(v)
  PROVE  v = u /\ Rung(v)' = rung
<1> DEFINE new == Append(outer, rung)
<1>1. new # <<>> /\ new[Len(new)] = rung
  BY Pushed DEF Frames
<1>2. pc' = [pc EXCEPT ![u] = "calling"] /\ stack' = [stack EXCEPT ![u] = new]
  BY DEF Reissue
<1> HIDE DEF new
<1>3. v = u
  BY <1>2 DEF IInv, TypeOK, Asks
<1>4. stack'[u] = new
  BY <1>2 DEF IInv, TypeOK
<1> QED
  BY <1>1, <1>3, <1>4 DEF Rung

\* A step that asks nothing: no unit's call starts, and none that runs is on
\* another rung.
Silent ==
  \A v \in Units : pc'[v] \in {"calling", "repairing"} => pc'[v] = pc[v] /\ stack'[v] = stack[v]

LEMMA SilentAsksNothing ==
  ASSUME Silent, NEW v \in Units
  PROVE  ~Asks(v)
BY DEF Silent, Asks

LEMMA ReplyAsks ==
  ASSUME IInv, NEW u \in Units, Reply(u), NEW v \in Units, Asks(v)
  PROVE  AskedBy(v)
<1>0. /\ pc \in [Units -> PCs] /\ stack \in [Units -> Seq(Frames)]
      /\ Remedy(u) \in Seq(Frames) /\ stack[u] \in Seq(Frames)
  BY Rungs0 DEF IInv, TypeOK, Remedy, Frames
<1>1. CASE Answered(u) \/ Repaired(u) \/ CallFails(u)
           \/ (\E reply \in Oversized : TooBigAgain(u, reply)) \/ Unparseable(u)
  <2>1. pc' = [pc EXCEPT ![u] = "returning"] /\ UNCHANGED stack
    BY <1>1 DEF Answered, Repaired, CallFails, TooBigAgain, Unparseable, HandBack
  <2> QED BY <1>0, <2>1, SilentAsksNothing DEF Silent
<1>2. CASE ThoughtTooLong(u)
  <2>1. /\ pc' = [pc EXCEPT ![u] = "returning"]
        /\ stack' = [stack EXCEPT ![u] = Remedy(u)]
    BY <1>2 DEF ThoughtTooLong, HandBack
  <2> QED BY <1>0, <2>1, SilentAsksNothing DEF Silent
<1>3. CASE Defers(u)
  <2>1. /\ pc' = [pc EXCEPT ![u] = "returning"] \/ pc' = [pc EXCEPT ![u] = "fetching"]
        /\ UNCHANGED stack
    BY <1>3 DEF Defers, HandBack
  <2> QED BY <1>0, <2>1, SilentAsksNothing DEF Silent
<1>4. CASE StepDown(u)
  <2>1. /\ Reissue(u, Remedy(u), "stepDown") /\ pc[u] \in Asking /\ ~stop
        /\ Rung(u) # "escalated"
    BY <1>4 DEF StepDown, StepsDown, Asking
  <2> QED BY <1>0, <2>1, ReissueAsks DEF AskedBy, Rungs
<1>5. CASE RetryWithoutSchema(u)
  <2>1. /\ Reissue(u, stack[u], "schema") /\ pc[u] \in Asking /\ ~stop
        /\ Rung(u) # "escalated"
    BY <1>5 DEF RetryWithoutSchema, ReasksWithoutSchema, CannotParse, Asking
  <2> QED BY <1>0, <2>1, ReissueAsks DEF AskedBy, Rungs
<1>6. CASE Repair(u)
  <2>1. /\ pc' = [pc EXCEPT ![u] = "repairing"] /\ UNCHANGED stack
        /\ pc[u] \in Asking /\ ~stop /\ Rung(u) # "escalated"
    BY <1>6 DEF Repair, MayRecover, Asking
  <2>2. v = u /\ Rung(u)' = Rung(u)
    BY <1>0, <2>1 DEF Asks, Rung
  <2> QED BY <2>1, <2>2 DEF AskedBy
<1> QED
  BY <1>1, <1>2, <1>3, <1>4, <1>5, <1>6 DEF Reply

LEMMA ReturningAsks ==
  ASSUME IInv, NEW u \in Units, Returning(u), NEW v \in Units, Asks(v)
  PROVE  AskedBy(v)
<1>0. pc \in [Units -> PCs] /\ stack \in [Units -> Seq(Frames)]
  BY DEF IInv, TypeOK
<1>1. CASE OffReturns(u) \/ SchemaReturns(u) \/ RerunReturns(u)
           \/ (StepDownReturns(u) /\ ~TurnsOff(u))
  <2>1. /\ pc[u] = "returning" /\ UNCHANGED pc
        /\ stack' = [stack EXCEPT ![u] = Outer(u)]
    BY <1>1 DEF OffReturns, SchemaReturns, RerunReturns, StepDownReturns
  <2> QED BY <1>0, <2>1, SilentAsksNothing DEF Silent
<1>2. CASE StepDownReturns(u) /\ TurnsOff(u)
  <2>1. /\ Reissue(u, Outer(u), "off") /\ pc[u] = "returning" /\ ~stop
        /\ Rung(u) = "stepDown" /\ err[u] = "thinking"
    BY <1>2 DEF StepDownReturns, TurnsOff
  <2>2. Outer(u) \in Seq(Frames)
    BY <2>1, RungReads
  <2> QED BY <2>1, <2>2, ReissueAsks DEF AskedBy, Rungs
<1> QED
  BY <1>1, <1>2 DEF Returning

LEMMA BatchAsks ==
  ASSUME IInv, Batch, NEW v \in Units, Asks(v)
  PROVE  AskedBy(v)
<1>0. pc \in [Units -> PCs] /\ stack \in [Units -> Seq(Frames)] /\ Whole \in Units
  BY UnitFacts DEF IInv, TypeOK
<1>1. CASE Begin \/ RescueTask
  <2>1. /\ pc' = [u \in Units |-> IF u = Whole THEN "calling" ELSE "idle"]
        /\ ~stop /\ stage' # stage
    BY <1>1 DEF Begin, RescueTask, Ask
  <2> QED BY <2>1 DEF Asks, AskedBy
<1>2. CASE Skip \/ Return \/ SkipRescue \/ Settle
  <2>1. UNCHANGED stack /\ (UNCHANGED pc \/ pc' = [pc EXCEPT ![Whole] = "done"])
    BY <1>2 DEF Skip, Return, SkipRescue, Settle
  <2> QED BY <1>0, <2>1, SilentAsksNothing DEF Silent
<1>3. CASE RescuePieces
  <2>1. /\ UNCHANGED stack
        /\ pc' = [u \in Units |-> IF u = Whole THEN "retrying"
                                  ELSE IF u \in FlakyPieces THEN "queued" ELSE pc[u]]
    BY <1>3 DEF RescuePieces
  <2> QED BY <1>0, <2>1, SilentAsksNothing DEF Silent
<1>4. CASE FetchesNothing(Whole)
  <2>1. pc' = [pc EXCEPT ![Whole] = "returning"] /\ UNCHANGED stack
    BY <1>4 DEF FetchesNothing, HandBack
  <2> QED BY <1>0, <2>1, SilentAsksNothing DEF Silent
<1>5. CASE FetchesContext(Whole)
  <2>1. Reissue(Whole, stack[Whole], "context") /\ pc[Whole] = "fetching"
    BY <1>5 DEF FetchesContext
  <2> QED BY <1>0, <2>1, ReissueAsks DEF AskedBy, Rungs
<1>6. CASE \E reply \in Oversized : CannotSplit(reply) \/ Split(reply)
  <2>1. /\ stack' = [stack EXCEPT ![Whole] = <<"remedy">>]
        /\ \/ pc' = [pc EXCEPT ![Whole] = "returning"]
           \/ pc' = [u \in Units |-> IF u = Whole THEN "splitting" ELSE "queued"]
    BY <1>6 DEF CannotSplit, Split, HandBack
  <2> QED BY <1>0, <2>1, SilentAsksNothing DEF Silent
<1>7. CASE JoinSplit \/ JoinRetry
  <2>1. /\ UNCHANGED stack \/ stack' = [stack EXCEPT ![Whole] = <<>>]
        /\ pc' = [pc EXCEPT ![Whole] = "returning"]
    BY <1>7 DEF JoinSplit, JoinRetry, HandBack
  <2> QED BY <1>0, <2>1, SilentAsksNothing DEF Silent
<1>8. CASE RemedyReturns
  <2>1. CASE Escalates
    <3>1. /\ Reissue(Whole, <<>>, "escalated") /\ pc[Whole] = "returning"
          /\ Rung(Whole) = "remedy" /\ ~stop
      BY <1>8, <2>1 DEF RemedyReturns, Escalates
    <3> QED BY <1>0, <2>1, <3>1, Rungs0, ReissueAsks DEF AskedBy, Rungs
  <2>2. CASE ~Escalates
    <3>1. /\ pc[Whole] = "returning" /\ UNCHANGED pc
          /\ stack' = [stack EXCEPT ![Whole] = <<>>]
      BY <1>8, <2>2 DEF RemedyReturns
    <3> QED BY <1>0, <3>1, SilentAsksNothing DEF Silent
  <2> QED BY <2>1, <2>2
<1>9. CASE Reply(Whole) \/ Returning(Whole)
  BY <1>0, <1>9, ReplyAsks, ReturningAsks
<1> QED
  BY <1>1, <1>2, <1>3, <1>4, <1>5, <1>6, <1>7, <1>8, <1>9 DEF Batch

LEMMA PieceAsks ==
  ASSUME IInv, NEW p \in Pieces, Piece(p), NEW v \in Units, Asks(v)
  PROVE  AskedBy(v)
<1>0. pc \in [Units -> PCs] /\ p \in Units
  BY UnitFacts DEF IInv, TypeOK
<1>1. CASE SkipPiece(p) \/ FinishPiece(p)
  <2>1. pc' = [pc EXCEPT ![p] = "done"] /\ UNCHANGED stack
    BY <1>1 DEF SkipPiece, FinishPiece
  <2> QED BY <1>0, <2>1, SilentAsksNothing DEF Silent
<1>2. CASE StartPiece(p)
  <2>1. pc' = [pc EXCEPT ![p] = "calling"] /\ UNCHANGED stack /\ ~stop /\ pc[p] = "queued"
    BY <1>2 DEF StartPiece, PickUp
  <2>2. v = p
    BY <1>0, <2>1 DEF Asks
  <2> QED BY <2>1, <2>2 DEF AskedBy
<1>3. CASE Reply(p) \/ Returning(p)
  BY <1>0, <1>3, ReplyAsks, ReturningAsks
<1> QED
  BY <1>1, <1>2, <1>3 DEF Piece

LEMMA Askers ==
  ASSUME IInv, [Next]_vars, NEW v \in Units, Asks(v)
  PROVE  AskedBy(v)
<1>1. ASSUME UNCHANGED <<pc, stack>> PROVE FALSE
  BY <1>1 DEF Asks
<1>2. CASE CeilingReached \/ SchemaDropped \/ Over \/ UNCHANGED vars
  BY <1>1, <1>2 DEF CeilingReached, SchemaDropped, Over, vars
<1> QED
  BY <1>2, BatchAsks, PieceAsks DEF Next

LEMMA StopStep ==
  ASSUME IInv, [Next]_vars, NEW u \in Units, stop, Asks(u)
  PROVE  pc[u] = "fetching"
BY Askers DEF AskedBy, IInv, TypeOK

LEMMA FallbackStep ==
  ASSUME IInv, [Next]_vars, NEW u \in Units, Asks(u), stage = stage'
  PROVE  "escalated" \notin remedies
<1> SUFFICES ASSUME "escalated" \in remedies PROVE FALSE
  OBVIOUS
<1>1. /\ pc[Whole] \in {"calling", "returning", "done"}
      /\ pc[Whole] = "calling" => stack[Whole] = <<"escalated">>
      /\ stack[Whole] \in {<<>>, <<"escalated">>}
  BY DEF IInv, RemedyInv
<1>2. \A p \in Pieces : pc[p] \in {"idle", "done"}
  BY <1>1 DEF IInv, StageInv
<1>3. u = Whole
  BY <1>2, Askers, UnitFacts DEF AskedBy, Asking
<1>4. Rung(Whole) \in {"first", "escalated"}
  BY <1>1, Rungs0 DEF Rung
<1>5. pc[Whole] = "calling" => Rung(Whole) = "escalated"
  BY <1>1, Rungs0 DEF Rung
<1>6. pc[Whole] \notin {"fetching", "repairing"}
  BY <1>1
<1> QED
  BY <1>3, <1>4, <1>5, <1>6, Askers, UnitFacts DEF AskedBy, Asking

NoPieceEscalates == \A p \in Pieces : Rung(p) # "escalated"

LEMMA PieceRungs == IInv => NoPieceEscalates
BY RungReads, UnitFacts DEF IInv, RungInv, NoPieceEscalates

LEMMA RetryStep ==
  ASSUME IInv, NEW p \in Pieces, pc[Whole] = "retrying", pc[p] = "queued"
  PROVE  p \notin covered /\ ProviderSide(err[p])
BY DEF IInv, FlakyInv, Cut

LEMMA KeepStep ==
  ASSUME IInv, [Next]_vars, Asks(Whole), NEW p \in Pieces, ProviderSide(err[p])
  PROVE  stage # stage'
<1>1. FlakyPieces # {}
  BY DEF FlakyPieces
<1>2. pc[Whole] \notin Asking
  BY <1>1 DEF IInv, FlakyInv
<1>3. pc[Whole] = "returning" /\ stack[Whole] # <<>> =>
        err[Whole] = "pieces" /\ Rung(Whole) = "remedy"
  BY <1>1, Rungs0 DEF IInv, FlakyInv, Rung
<1>4. Rung(Whole) # "first" => stack[Whole] # <<>>
  BY DEF Rung
<1> QED
  BY <1>2, <1>3, <1>4, Askers, UnitFacts DEF AskedBy, Escalates, Asking

\* Nothing is asked over a ceiling but the re-run being prepared; the fallback is
\* asked last, once, and of the whole batch; the retry of a split pays for the
\* pieces that failed on the provider alone; and while such a piece is left the
\* batch asks nothing more (_skip_reason, _escalate_model, _PiecesReason).
THEOREM RungsKeepDiscipline == Spec => RungDiscipline
<1>1. IInv' => NoPieceEscalates'
  BY PieceRungs, PTL
<1>2. IInv' => \A p \in Pieces : Rung(p)' # "escalated"
  BY <1>1 DEF NoPieceEscalates
<1>3. IInv /\ [Next]_vars =>
        [\A u \in Units : stop /\ Asks(u) => pc[u] = "fetching"]_vars
  BY StopStep
<1>4. IInv /\ IInv' /\ [Next]_vars =>
        [\A u \in Units : Asks(u) /\ stage = stage' =>
           /\ "escalated" \notin remedies
           /\ u # Whole => Rung(u)' # "escalated"]_vars
  BY <1>2, FallbackStep, UnitFacts
<1>5. IInv =>
        [\A p \in Pieces :
           pc[Whole] = "retrying" /\ pc[p] = "queued" /\ pc'[p] = "calling" =>
             p \notin covered /\ ProviderSide(err[p])]_vars
  BY RetryStep
<1>6. IInv /\ [Next]_vars =>
        [(\E p \in Pieces : ProviderSide(err[p])) /\ Asks(Whole) => stage # stage']_vars
  BY KeepStep
<1> QED
  BY <1>3, <1>4, <1>5, <1>6, Invariance, PTL
     DEF Spec, RungDiscipline, StopRespected, FallbackGoesLast, RetriesOnlyTheFlaky,
         PiecesKeepTheirRetry

-------------------------------------------------------------------------------
(* The contract of a call *)

LEMMA UnitsKeepCall ==
  ASSUME NEW u \in Units, Reply(u) \/ Returning(u)
  PROVE  UNCHANGED call
BY DEF Reply, Returning, Answered, Defers, CallFails, TooBigAgain, StepDown, ThoughtTooLong,
       Repair, Repaired, RetryWithoutSchema, Unparseable, StepDownReturns, OffReturns,
       SchemaReturns, RerunReturns

\* Any step is a step of the contract, or leaves the call's stage and outcome.
LEMMA ContractStep ==
  ASSUME IInv, [Next]_vars
  PROVE  [Contract!Next]_(Contract!vars)
<1>1. CASE UNCHANGED call
  BY <1>1 DEF call, Contract!vars, Class, Rescuable
<1>2. CASE Begin
  BY <1>2 DEF Begin, Contract!Next, Contract!Begin
<1>3. CASE Skip
  BY <1>3 DEF Skip, Contract!Next, Contract!Skip, Class, Rescuable
<1>4. CASE Return
  BY <1>4 DEF Return, Contract!Next, Contract!Return, Contract!SettleRerun, Contract!Errors,
    Class, Rescuable
<1>5. CASE RescueTask \/ RescuePieces
  BY <1>5 DEF RescueTask, RescuePieces, Contract!Next, Contract!Rerun, Class, Rescuable
<1>6. CASE SkipRescue
  BY <1>6 DEF SkipRescue, Contract!Next, Contract!SkipRerun, Class, Rescuable
<1>7. CASE Settle
  BY <1>7 DEF Settle, Contract!Next, Contract!Settle, Class, Rescuable
<1>8. CASE \/ FetchesNothing(Whole) \/ FetchesContext(Whole)
           \/ \E reply \in Oversized : CannotSplit(reply) \/ Split(reply)
           \/ JoinSplit \/ JoinRetry \/ RemedyReturns
  BY <1>1, <1>8 DEF FetchesNothing, FetchesContext, CannotSplit, Split, JoinSplit, JoinRetry,
    RemedyReturns
<1>9. CASE Reply(Whole) \/ Returning(Whole)
  BY <1>1, <1>9, UnitsKeepCall, UnitFacts
<1>10. ASSUME NEW p \in Pieces, Piece(p) PROVE [Contract!Next]_(Contract!vars)
  BY <1>1, <1>10, UnitsKeepCall, UnitFacts DEF Piece, StartPiece, SkipPiece, FinishPiece
<1>11. CASE CeilingReached \/ SchemaDropped \/ Over \/ UNCHANGED vars
  BY <1>1, <1>11 DEF CeilingReached, SchemaDropped, Over, vars, call
<1> QED
  BY <1>2, <1>3, <1>4, <1>5, <1>6, <1>7, <1>8, <1>9, <1>10, <1>11 DEF Next, Batch

\* However many rungs a call climbs, its caller sees LensCall: one outcome, then
\* at most one more, and only after a failure on the provider.
THEOREM LadderKeepsContract == Spec => CallContract
<1>1. Init => Contract!Init
  BY DEF Init, Contract!Init, Class, Rescuable
<1>2. IInv /\ [Next]_vars => [Contract!Next]_(Contract!vars)
  BY ContractStep
<1> QED
  BY <1>1, <1>2, Invariance, PTL DEF Spec, CallContract, Contract!Spec

===============================================================================
