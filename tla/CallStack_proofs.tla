-------------------------- MODULE CallStack_proofs --------------------------
(***************************************************************************)
(* Proofs about CallStack for every value of its constants: StackInv is    *)
(* inductive and gives type correctness and the balance of the context;    *)
(* beside it StateInv is, which follows every state that is kept for a     *)
(* rollback, a merge or a result, and gives Rollback and Isolation.        *)
(***************************************************************************)
EXTENDS CallStack, SequenceTheorems, TLAPS

(* The innermost frame, and what is left when it goes or is replaced.      *)
LEMMA InnermostFrame ==
  ASSUME frames \in Seq(Frame), frames # <<>>
  PROVE  /\ Top \in Frame
         /\ Below \in Seq(Frame) /\ Len(Below) = Len(frames) - 1
         /\ \A fr \in Frame : /\ Replace(fr) \in Seq(Frame)
                            /\ Len(Replace(fr)) = Len(frames)
<1>1. Len(frames) \in Nat /\ Len(frames) > 0
  OBVIOUS
<1>2. Top \in Frame
  BY <1>1 DEF Top
<1>3. Below \in Seq(Frame) /\ Len(Below) = Len(frames) - 1
  <2>1. \A i \in 1 .. Len(frames) - 1 : frames[i] \in Frame
    BY <1>1
  <2>2. CASE Len(frames) = 1
    <3>1. SubSeq(frames, 1, 0) = <<>>
      BY SubSeqEmpty
    <3> QED BY <2>2, <3>1 DEF Below
  <2>3. CASE Len(frames) # 1
    <3> DEFINE n == Len(frames) - 1
    <3>1. n \in Int /\ 1 <= n /\ \A i \in 1 .. n : frames[i] \in Frame
      <4>1. ASSUME NEW k \in Nat, k > 0, k # 1 PROVE k - 1 \in Int /\ 1 <= k - 1
        BY <4>1
      <4> QED BY <1>1, <2>1, <2>3, <4>1
    <3>2. n - 1 + 1 = n
      BY <3>1
    <3> HIDE DEF n
    <3>3. SubSeq(frames, 1, n) \in Seq(Frame) /\ Len(SubSeq(frames, 1, n)) = n
      BY <3>1, <3>2, SubSeqProperties
    <3> QED BY <3>3 DEF n, Below
  <2> QED BY <2>2, <2>3
<1> QED BY <1>1, <1>2, <1>3 DEF Replace

(* A frame that starts on a well-typed state is well typed.                *)
LEMMA NewFrameTyped ==
  ASSUME TypeOK, NEW kind \in {"sequence", "dispatch", "try", "parallel"},
         NEW n \in Nat \ {0}, NEW failFast \in BOOLEAN
  PROVE  NewFrame(kind, n, failFast) \in Frame
BY DEF NewFrame, Frame, TypeOK

(* A primitive that starts to wait adds its frame.                         *)
LEMMA StartKeepsStack ==
  ASSUME StackInv, NEW frame \in Frame, mode = "lookup",
         frames' = Append(frames, frame), mode' = "call",
         UNCHANGED <<target, depth, count, res, st, undone>>
  PROVE  StackInv'
<1>1. frames' \in Seq(Frame) /\ Len(frames') = Len(frames) + 1
  BY DEF StackInv, TypeOK
<1> QED BY <1>1 DEF StackInv, TypeOK, DepthMatchesStack, MergeHasFrame, Modes

(* Writing an integer keeps a state a state.                               *)
LEMMA WriteTyped ==
  ASSUME NEW s \in States, NEW f, NEW v \in Int
  PROVE  Write(s, f, v) \in States
BY DEF Write, States

(* A primitive that leaves takes its frame and its depth with it.          *)
LEMMA LeaveKeepsStack ==
  ASSUME StackInv, frames # <<>>, mode # "lookup", NEW r \in {"ok", "err"},
         Leave(r), st' \in States, undone' \subseteq 1 .. count
  PROVE  StackInv'
<1>1. /\ Below \in Seq(Frame) /\ Len(Below) = Len(frames) - 1
      /\ Len(frames) \in Nat /\ Len(frames) > 0
  BY InnermostFrame DEF StackInv, TypeOK
<1> QED BY <1>1, LimitsAssumption
        DEF StackInv, TypeOK, DepthMatchesStack, MergeHasFrame, Leave, Modes

(* The initial state.                                                      *)
LEMMA StackInvInit == Init => StackInv
BY LimitsAssumption
DEF Init, StackInv, TypeOK, DepthMatchesStack, MergeHasFrame, Modes, Targets, States

(* The steps of execute_inner.                                             *)
LEMMA LookupKeepsStack == StackInv /\ Lookup => StackInv'
<1> SUFFICES ASSUME StackInv, Lookup PROVE StackInv'
  OBVIOUS
<1> USE LimitsAssumption DEF StackInv, TypeOK, DepthMatchesStack, MergeHasFrame, Modes
<1>1. ASSUME NEW r \in {"ok", "err"}, Exit(r), mode = "lookup",
             st' \in States, undone' = undone
      PROVE  StackInv'
  BY <1>1 DEF Exit
<1>2. CASE LeafWrites
  <2>1. st' \in States
    BY <1>2, WriteTyped, FieldsAssumption DEF LeafWrites
  <2> QED BY <1>1, <1>2, <2>1 DEF LeafWrites
<1>3. CASE LeafFails
  BY <1>1, <1>3 DEF LeafFails
<1>4. CASE Expand
  <2>1. st' \in States /\ target' \in Targets
    BY <1>4, WriteTyped, ExpansionAssumption DEF Expand, Targets
  <2> QED BY <1>4, <2>1 DEF Expand, ctx
<1>5. CASE ExpandRefused
  BY <1>1, <1>5 DEF ExpandRefused
<1>6. CASE StartSequence
  <2>1. CASE Exit("ok")
    BY <1>1, <1>6, <2>1 DEF StartSequence
  <2>2. CASE ~Exit("ok")
    <3>1. PICK n \in 1 .. MaxChildren :
            frames' = Append(frames, NewFrame("sequence", n, FALSE))
      BY <1>6, <2>2 DEF StartSequence
    <3>2. NewFrame("sequence", n, FALSE) \in Frame
      BY DEF NewFrame, Frame
    <3> QED BY <1>6, <2>2, <3>1, <3>2, StartKeepsStack DEF StartSequence, ctx
  <2> QED BY <2>1, <2>2
<1>7. CASE StartDispatch
  <2>1. CASE Exit("ok")
    BY <1>1, <1>7, <2>1 DEF StartDispatch
  <2>2. CASE ~Exit("ok")
    <3>1. NewFrame("dispatch", 1, FALSE) \in Frame
      BY DEF NewFrame, Frame
    <3> QED BY <1>7, <2>2, <3>1, StartKeepsStack DEF StartDispatch, ctx
  <2> QED BY <2>1, <2>2
<1>8. CASE StartTry
  <2>1. NewFrame("try", 1, FALSE) \in Frame
    BY DEF NewFrame, Frame
  <2> QED BY <1>8, <2>1, StartKeepsStack DEF StartTry, ctx
<1>9. CASE StartParallel
  <2>1. PICK n \in 1 .. MaxChildren, failFast \in BOOLEAN :
          frames' = Append(frames, NewFrame("parallel", n, failFast))
    BY <1>9 DEF StartParallel
  <2>2. NewFrame("parallel", n, failFast) \in Frame
    BY NewFrameTyped
  <2> QED BY <1>9, <2>1, <2>2, StartKeepsStack DEF StartParallel, ctx
<1> QED BY <1>2, <1>3, <1>4, <1>5, <1>6, <1>7, <1>8, <1>9 DEF Lookup

(* A child that cannot run, and the answers of the children.               *)
LEMMA ReplaceKeepsStack ==
  ASSUME StackInv, frames # <<>>, mode \in {"call", "back"},
         NEW frame \in Frame, frames' = Replace(frame),
         mode' \in {"call", "merge"}, st' \in States,
         undone' \subseteq 1 .. count, UNCHANGED <<target, depth, count, res>>
  PROVE  StackInv'
<1>1. /\ frames' \in Seq(Frame) /\ Len(frames') = Len(frames)
      /\ Len(frames) \in Nat /\ Len(frames) > 0
  BY InnermostFrame DEF StackInv, TypeOK
<1>2. frames' # <<>>
  BY <1>1
<1> QED BY <1>1, <1>2
        DEF StackInv, TypeOK, DepthMatchesStack, MergeHasFrame, Modes

LEMMA WaitingKeepsStack ==
  StackInv /\ (ChildUnfit \/ TryUnfit \/ Answer) => StackInv'
<1> SUFFICES ASSUME StackInv, ChildUnfit \/ TryUnfit \/ Answer PROVE StackInv'
  OBVIOUS
<1> USE DEF Waiting
<1>1. /\ frames # <<>> /\ mode \in {"call", "back"} /\ Top \in Frame
      /\ st \in States /\ res \in {"ok", "err"} /\ count \in Nat
      /\ undone \subseteq 1 .. count
  <2>1. frames # <<>> /\ mode \in {"call", "back"}
    BY DEF ChildUnfit, TryUnfit, Answer, SequenceGoesOn, SequenceEnds,
           DispatchEnds, TrySucceeds, TryFails, TryUnwritable, CatchFails,
           BranchReturns
  <2> QED BY <2>1, InnermostFrame, LimitsAssumption DEF StackInv, TypeOK
<1>2. /\ Top.kind \in {"sequence", "dispatch", "try", "catch", "parallel"}
      /\ Top.base \in States /\ Top.since \in Nat /\ Top.left \in Nat
      /\ Top.results \in Seq(States) /\ Top.failed \in BOOLEAN
      /\ Top.failFast \in BOOLEAN
  BY <1>1 DEF Frame
<1>3. undone \cup ((Top.since + 1) .. count) \subseteq 1 .. count
  <2>1. ASSUME NEW n \in Nat, NEW m \in Nat PROVE (n + 1) .. m \subseteq 1 .. m
    OBVIOUS
  <2> QED BY <1>1, <1>2, <2>1
<1>4. CASE ChildUnfit
  BY <1>1, <1>4
  DEF ChildUnfit, StackInv, TypeOK, DepthMatchesStack, MergeHasFrame, Modes, ctx
<1>5. CASE TryUnfit
  BY <1>1, <1>5, LeaveKeepsStack DEF TryUnfit
<1>6. CASE SequenceGoesOn
  <2>1. [Top EXCEPT !.left = @ - 1] \in Frame
    BY <1>1, <1>2, <1>6 DEF SequenceGoesOn, Frame
  <2> QED BY <1>1, <1>6, <2>1, ReplaceKeepsStack DEF SequenceGoesOn, ctx
<1>7. CASE SequenceEnds
  BY <1>1, <1>7, LeaveKeepsStack DEF SequenceEnds
<1>8. CASE DispatchEnds
  <2>1. st' \in States
    BY <1>1, <1>2, <1>8, WriteTyped DEF DispatchEnds
  <2> QED BY <1>1, <1>8, <2>1, LeaveKeepsStack DEF DispatchEnds
<1>9. CASE TrySucceeds
  BY <1>1, <1>9, LeaveKeepsStack DEF TrySucceeds
<1>10. CASE TryFails
  <2>1. PICK f \in Fields :
          /\ st' = Write(Top.base, f, 0 - Top.since)
          /\ \/ Leave("ok")
             \/ /\ frames' = Replace([Top EXCEPT !.kind = "catch",
                                 !.base = Write(Top.base, f, 0 - Top.since),
                                 !.since = count])
                /\ mode' = "call"
                /\ UNCHANGED <<target, ctx, res>>
    BY <1>10 DEF TryFails
  <2>2. st' \in States
    BY <1>2, <2>1, WriteTyped
  <2>3. CASE Leave("ok")
    BY <1>1, <1>3, <1>10, <2>2, <2>3, LeaveKeepsStack DEF TryFails
  <2>4. CASE ~Leave("ok")
    <3>1. [Top EXCEPT !.kind = "catch", !.base = Write(Top.base, f, 0 - Top.since),
                      !.since = count] \in Frame
      BY <1>1, <1>2, <2>1, <2>2 DEF Frame
    <3> QED BY <1>1, <1>3, <1>10, <2>1, <2>2, <2>4, <3>1, ReplaceKeepsStack
            DEF TryFails, ctx
  <2> QED BY <2>3, <2>4
<1>11. CASE TryUnwritable
  BY <1>1, <1>11, LeaveKeepsStack DEF TryUnwritable
<1>12. CASE CatchFails
  BY <1>1, <1>2, <1>3, <1>12, LeaveKeepsStack DEF CatchFails
<1>13. CASE BranchReturns
  <2> DEFINE kept == IF res = "ok" THEN Append(Top.results, st) ELSE Top.results
             after == [Top EXCEPT !.results = kept,
                                  !.failed = Top.failed \/ res = "err",
                                  !.since = count]
  <2>1. kept \in Seq(States)
    BY <1>1, <1>2
  <2>2. after \in Frame
    BY <1>1, <1>2, <2>1 DEF Frame
  <2>3. Top.left # 0 => [after EXCEPT !.left = @ - 1] \in Frame
    <3>1. Top.left # 0 => Top.left - 1 \in Nat
      BY <1>2
    <3>2. after.left = Top.left
      BY <1>1 DEF Frame
    <3> HIDE DEF after
    <3> QED BY <2>2, <3>1, <3>2 DEF Frame
  <2>4. /\ \/ frames' = Replace(after) /\ mode' = "merge" /\ st' = st
           \/ /\ Top.left # 0
              /\ frames' = Replace([after EXCEPT !.left = @ - 1])
              /\ mode' = "call" /\ st' = Top.base
        /\ undone' \subseteq 1 .. count
        /\ UNCHANGED <<target, depth, count, res>>
    BY <1>1, <1>3, <1>13 DEF BranchReturns, ctx
  <2> HIDE DEF after
  <2> QED BY <1>1, <1>2, <2>2, <2>3, <2>4, ReplaceKeepsStack
<1> QED BY <1>4, <1>5, <1>6, <1>7, <1>8, <1>9, <1>10, <1>11, <1>12, <1>13
        DEF Answer

(* The merge of the branches.                                              *)
LEMMA MergeKeepsStack == StackInv /\ Merge => StackInv'
<1> SUFFICES ASSUME StackInv, Merge PROVE StackInv'
  OBVIOUS
<1>1. /\ mode = "merge" /\ frames # <<>> /\ Top \in Frame
      /\ st \in States /\ undone \subseteq 1 .. count
  BY InnermostFrame
  DEF Merge, NoResult, LastWins, ForceMerge, StackInv, TypeOK, MergeHasFrame
<1>2. Top.base \in States /\ Top.results \in Seq(States)
  BY <1>1 DEF Frame
<1>3. CASE NoResult
  BY <1>1, <1>3, LeaveKeepsStack DEF NoResult
<1>4. CASE LastWins
  <2>1. Top.results[Len(Top.results)] \in States
    BY <1>2, <1>4 DEF LastWins
  <2> QED BY <1>1, <1>4, <2>1, LeaveKeepsStack DEF LastWins
<1>5. CASE ForceMerge
  <2>1. PICK last \in [Fields -> 0 .. Len(Top.results)] :
          st' = [f \in Fields |-> IF last[f] = 0 THEN Top.base[f]
                                                ELSE Top.results[last[f]][f]]
    BY <1>5 DEF ForceMerge
  <2>2. ASSUME NEW f \in Fields
        PROVE  (IF last[f] = 0 THEN Top.base[f]
                               ELSE Top.results[last[f]][f]) \in Int
    <3>1. last[f] = 0 \/ Top.results[last[f]] \in States
      BY <1>2, <2>1
    <3> QED BY <1>2, <3>1 DEF States
  <2>3. st' \in States
    BY <2>1, <2>2 DEF States
  <2> QED BY <1>1, <1>5, <2>3, LeaveKeepsStack DEF ForceMerge
<1> QED BY <1>3, <1>4, <1>5 DEF Merge

LEMMA StackInvNext == StackInv /\ [Next]_vars => StackInv'
<1> SUFFICES ASSUME StackInv, [Next]_vars PROVE StackInv'
  OBVIOUS
<1> USE LimitsAssumption DEF StackInv, TypeOK, DepthMatchesStack, MergeHasFrame, Modes, ctx
<1>1. CASE Refuse
  BY <1>1 DEF Refuse
<1>2. CASE Enter
  BY <1>2 DEF Enter
<1>3. CASE Lookup
  BY <1>3, LookupKeepsStack
<1>4. CASE ChildUnfit \/ TryUnfit \/ Answer
  BY <1>4, WaitingKeepsStack
<1>5. CASE Merge
  BY <1>5, MergeKeepsStack
<1>6. CASE Finish
  BY <1>6 DEF Finish
<1>7. CASE UNCHANGED vars
  BY <1>7 DEF vars
<1> QED BY <1>1, <1>2, <1>3, <1>4, <1>5, <1>6, <1>7 DEF Next, Step, Finished

-----------------------------------------------------------------------------
(* States: what Within, Clean and ChangedSince say together.               *)

(* A number of a later call touches no state of before.                    *)
LEMMA CleanGrows ==
  ASSUME NEW s \in States, NEW n \in Nat, NEW c \in Nat, NEW u, u \subseteq 1 .. c,
         Within(s, n), Clean(s, u)
  PROVE  Clean(s, u \cup ((n + 1) .. c))
<1> SUFFICES ASSUME NEW f \in Fields
             PROVE  /\ s[f] \notin u \cup ((n + 1) .. c)
                    /\ 0 - s[f] \notin u \cup ((n + 1) .. c)
  BY DEF Clean
<1>1. s[f] \in Int /\ 0 - n <= s[f] /\ s[f] <= n /\ s[f] \notin u /\ 0 - s[f] \notin u
  BY DEF Within, Clean, States
<1>2. s[f] \notin (n + 1) .. c /\ 0 - s[f] \notin (n + 1) .. c
  BY <1>1
<1> QED BY <1>1, <1>2

LEMMA WithinGrows ==
  ASSUME NEW s \in States, NEW n \in Nat, NEW m \in Nat, n <= m, Within(s, n)
  PROVE  Within(s, m)
BY DEF Within, States

(* What a call or a try writes: its own number, as a result or an error.   *)
LEMMA WriteSound ==
  ASSUME NEW s \in States, NEW f \in Fields, NEW n \in Nat, NEW v \in {n, 0 - n},
         NEW u, NEW c \in Nat, n <= c, u \subseteq 1 .. c, Within(s, c)
  PROVE  /\ Within(Write(s, f, v), c)
         /\ Clean(s, u) /\ n \notin u => Clean(Write(s, f, v), u)
         /\ \A b \in States, m \in Nat :
              m < n /\ ChangedSince(s, b, m) => ChangedSince(Write(s, f, v), b, m)
<1>1. \A g \in Fields : Write(s, f, v)[g] = IF g = f THEN v ELSE s[g]
  BY DEF Write, States
<1>2. 0 - n <= v /\ v <= n /\ (v = n \/ 0 - v = n)
  OBVIOUS
<1>3. Within(Write(s, f, v), c)
  <2>1. 0 - c <= v /\ v <= c
    BY <1>2
  <2> QED BY <1>1, <2>1 DEF Within
<1>4. ASSUME Clean(s, u), n \notin u PROVE Clean(Write(s, f, v), u)
  <2>1. v \notin u /\ 0 - v \notin u
    <3>1. \A x \in u : x > 0
      OBVIOUS
    <3> QED BY <1>2, <1>4, <3>1
  <2> QED BY <1>1, <1>4, <2>1 DEF Clean
<1>5. ASSUME NEW b \in States, NEW m \in Nat, m < n, ChangedSince(s, b, m)
      PROVE  ChangedSince(Write(s, f, v), b, m)
  <2>1. v > m \/ 0 - v > m
    BY <1>2, <1>5
  <2> QED BY <1>1, <1>5, <2>1 DEF ChangedSince
<1> QED BY <1>3, <1>4, <1>5

-----------------------------------------------------------------------------
(* Stacks of frames.                                                       *)

LEMMA FramesSoundAppend ==
  ASSUME NEW F \in Seq(Frame), NEW fr \in Frame, NEW c, NEW u,
         FramesSound(F, c, u), FrameSound(fr, c, u),
         \A k \in DOMAIN F : Nested(F[k], fr)
  PROVE  FramesSound(Append(F, fr), c, u)
<1>1. /\ DOMAIN Append(F, fr) = 1 .. Len(F) + 1 /\ Len(F) \in Nat
      /\ \A k \in 1 .. Len(F) : Append(F, fr)[k] = F[k]
      /\ Append(F, fr)[Len(F) + 1] = fr
  OBVIOUS
<1>2. \A k \in 1 .. Len(F) + 1 : k = Len(F) + 1 \/ k \in DOMAIN F
  BY <1>1
<1>3. \A k \in DOMAIN F : Append(F, fr)[k] = F[k]
  BY <1>1
<1>4. \A j, k \in 1 .. Len(F) + 1 : j < k => j \in DOMAIN F
  BY <1>1
<1> QED BY <1>1, <1>2, <1>3, <1>4 DEF FramesSound

(* The innermost frame, and those below it, after more calls.              *)
LEMMA InnermostSound ==
  ASSUME StackInv, StateInv, frames # <<>>
  PROVE  /\ Top \in Frame /\ Top.since \in Nat /\ Top.base \in States
         /\ Top.results \in Seq(States)
         /\ Below \in Seq(Frame) /\ FrameSound(Top, count, undone)
         /\ FramesSound(Below, count, undone)
         /\ \A k \in DOMAIN Below : /\ k \in DOMAIN frames /\ Below[k] = frames[k]
                                  /\ Below[k] \in Frame /\ Nested(Below[k], Top)
<1>1. frames \in Seq(Frame) /\ Len(frames) \in Nat /\ Len(frames) > 0
  BY DEF StackInv, TypeOK
<1>2. Top \in Frame /\ Below \in Seq(Frame) /\ Len(Below) = Len(frames) - 1
  BY <1>1, InnermostFrame
<1>3. \A k \in 1 .. Len(frames) - 1 : Below[k] = frames[k]
  BY <1>1, <1>2 DEF Below
<1>4. ASSUME NEW k \in DOMAIN Below
      PROVE  /\ k \in DOMAIN frames /\ Below[k] = frames[k] /\ k < Len(frames)
             /\ Below[k] \in Frame
  BY <1>1, <1>2, <1>3
<1>5. Len(frames) \in DOMAIN frames /\ Top = frames[Len(frames)]
  BY <1>1 DEF Top
<1>6. FrameSound(Top, count, undone) /\ FramesSound(Below, count, undone)
  BY <1>4, <1>5 DEF StateInv, FramesSound
<1>7. \A k \in DOMAIN Below : Nested(Below[k], Top)
  BY <1>4, <1>5 DEF StateInv, FramesSound
<1> QED BY <1>2, <1>4, <1>6, <1>7 DEF Frame

LEMMA FramesSoundLater ==
  ASSUME NEW F \in Seq(Frame), NEW c \in Nat, NEW d \in Nat, c <= d, NEW u,
         FramesSound(F, c, u)
  PROVE  FramesSound(F, d, u)
<1>1. \A k \in DOMAIN F : F[k].since \in Nat
  <2>1. \A fr \in Frame : fr.since \in Nat
    BY DEF Frame
  <2> QED BY <2>1
<1>2. ASSUME NEW k \in DOMAIN F PROVE F[k].since <= d
  BY <1>1 DEF FramesSound, FrameSound
<1> QED BY <1>2 DEF FramesSound, FrameSound

LEMMA FramesSoundUndo ==
  ASSUME NEW F \in Seq(Frame), NEW c \in Nat, NEW u, u \subseteq 1 .. c,
         FramesSound(F, c, u), NEW n \in Nat, \A k \in DOMAIN F : F[k].since <= n
  PROVE  FramesSound(F, c, u \cup ((n + 1) .. c))
<1> DEFINE w == u \cup ((n + 1) .. c)
<1>1. ASSUME NEW fr \in Frame, FrameSound(fr, c, u), fr.since <= n
      PROVE  FrameSound(fr, c, w)
  <2>1. /\ fr.since \in Nat /\ fr.base \in States
        /\ \A j \in DOMAIN fr.results : fr.results[j] \in States
    BY DEF Frame
  <2>2. ASSUME NEW s \in States, Within(s, fr.since), Clean(s, u)
        PROVE  Clean(s, w)
    <3>1. Within(s, n)
      BY <1>1, <2>1, <2>2, WithinGrows
    <3> QED BY <2>2, <3>1, CleanGrows
  <2>3. Clean(fr.base, w) /\ \A j \in DOMAIN fr.results : Clean(fr.results[j], w)
    BY <1>1, <2>1, <2>2 DEF FrameSound
  <2>4. fr.since \notin (n + 1) .. c
    BY <1>1, <2>1
  <2> QED BY <1>1, <2>3, <2>4 DEF FrameSound
<1>2. \A k \in DOMAIN F : F[k] \in Frame
  OBVIOUS
<1> HIDE DEF w
<1>3. FramesSound(F, c, w)
  BY <1>1, <1>2 DEF FramesSound
<1> QED BY <1>3 DEF w

-----------------------------------------------------------------------------
(* The ways the stack changes.                                             *)

(* A primitive that starts to wait: its frame falls back to the state as   *)
(* it is, and no later call has written anything yet.                      *)
LEMMA StartKeepsState ==
  ASSUME StackInv, StateInv, mode = "lookup",
         NEW kind \in {"sequence", "dispatch", "try", "parallel"},
         NEW n \in Nat \ {0}, NEW failFast \in BOOLEAN,
         frames' = Append(frames, NewFrame(kind, n, failFast)), mode' = "call",
         UNCHANGED <<count, res, st, undone>>
  PROVE  StateInv'
<1> DEFINE fr == NewFrame(kind, n, failFast)
<1>1. /\ fr \in Frame /\ fr.base = st /\ fr.since = count /\ fr.results = <<>>
      /\ frames \in Seq(Frame) /\ st \in States /\ count \in Nat
  BY NewFrameTyped, LimitsAssumption DEF StackInv, TypeOK, NewFrame
<1>2. /\ Clean(st, undone) /\ count \notin undone /\ Within(st, count)
      /\ \A k \in DOMAIN frames : /\ frames[k].since < count
                                  /\ ChangedSince(st, frames[k].base, frames[k].since)
  BY DEF StateInv, Isolation
<1> HIDE DEF fr
<1>3. FrameSound(fr, count, undone)
  BY <1>1, <1>2 DEF FrameSound
<1>4. \A k \in DOMAIN frames : Nested(frames[k], fr)
  BY <1>1, <1>2 DEF Nested
<1>5. FramesSound(frames', count, undone)
  BY <1>1, <1>3, <1>4, FramesSoundAppend DEF StateInv, fr
<1>6. ASSUME NEW k \in DOMAIN frames'
      PROVE  ChangedSince(st, frames'[k].base, frames'[k].since)
  <2>1. /\ DOMAIN frames' = 1 .. Len(frames) + 1 /\ Len(frames) \in Nat
        /\ \A j \in 1 .. Len(frames) : frames'[j] = frames[j]
        /\ frames'[Len(frames) + 1] = fr
    BY <1>1 DEF fr
  <2>2. CASE k = Len(frames) + 1
    BY <1>1, <2>1, <2>2 DEF ChangedSince
  <2>3. CASE k # Len(frames) + 1
    <3>1. k \in DOMAIN frames /\ frames'[k] = frames[k]
      BY <1>1, <2>1, <2>3
    <3> QED BY <1>2, <3>1
  <2> QED BY <2>2, <2>3
<1> QED BY <1>2, <1>5, <1>6 DEF StateInv, Isolation

(* After the innermost calls are undone or not, what waits below is sound. *)
LEMMA BelowSound ==
  ASSUME StackInv, StateInv, frames # <<>>,
         NEW w \in {undone, undone \cup ((Top.since + 1) .. count)}
  PROVE  FramesSound(Below, count, w)
<1>1. /\ Top.since \in Nat /\ Below \in Seq(Frame) /\ FramesSound(Below, count, undone)
      /\ \A k \in DOMAIN Below : Below[k] \in Frame /\ Nested(Below[k], Top)
      /\ count \in Nat /\ undone \subseteq 1 .. count
  BY InnermostSound, LimitsAssumption DEF StackInv, TypeOK
<1>2. ASSUME NEW k \in DOMAIN Below PROVE Below[k].since <= Top.since
  <2>1. Below[k].since \in Nat /\ Below[k].since < Top.since
    BY <1>1 DEF Frame, Nested
  <2> QED BY <1>1, <2>1
<1>3. FramesSound(Below, count, undone \cup ((Top.since + 1) .. count))
  BY <1>1, <1>2, FramesSoundUndo
<1> QED BY <1>1, <1>3

(* The innermost primitive returns.                                        *)
LEMMA LeaveKeepsState ==
  ASSUME StackInv, StateInv, frames # <<>>, NEW r \in {"ok", "err"}, Leave(r),
         undone' \in {undone, undone \cup ((Top.since + 1) .. count)},
         Within(st', count),
         r = "ok" => /\ Clean(st', undone')
                     /\ \A k \in DOMAIN Below :
                          ChangedSince(st', Below[k].base, Below[k].since)
  PROVE  StateInv'
<1>1. frames' = Below /\ count' = count /\ mode' = "back" /\ res' = r
  BY DEF Leave
<1>2. FramesSound(Below, count, undone')
  BY BelowSound
<1> QED BY <1>1, <1>2 DEF StateInv, Isolation

(* The innermost primitive goes on, with another frame.                    *)
LEMMA ReplaceKeepsState ==
  ASSUME StackInv, StateInv, frames # <<>>, NEW fr \in Frame, frames' = Replace(fr),
         UNCHANGED <<count, res>>, mode' \in {"call", "merge"},
         undone' \in {undone, undone \cup ((Top.since + 1) .. count)},
         FrameSound(fr, count, undone'),
         \A k \in DOMAIN Below : Nested(Below[k], fr),
         Within(st', count),
         res = "ok" \/ mode' = "call" => Clean(st', undone'),
         mode' = "call" => /\ ChangedSince(st', fr.base, fr.since)
                           /\ \A k \in DOMAIN Below :
                                ChangedSince(st', Below[k].base, Below[k].since)
  PROVE  StateInv'
<1>1. Below \in Seq(Frame)
  BY InnermostSound
<1>2. FramesSound(Below, count, undone')
  BY BelowSound
<1>3. FramesSound(frames', count, undone')
  BY <1>1, <1>2, FramesSoundAppend DEF Replace
<1>4. ASSUME mode' = "call", NEW k \in DOMAIN frames'
      PROVE  ChangedSince(st', frames'[k].base, frames'[k].since)
  <2>1. /\ DOMAIN frames' = 1 .. Len(Below) + 1 /\ Len(Below) \in Nat
        /\ \A j \in 1 .. Len(Below) : frames'[j] = Below[j]
        /\ frames'[Len(Below) + 1] = fr
    BY <1>1 DEF Replace
  <2>2. CASE k = Len(Below) + 1
    BY <1>4, <2>1, <2>2
  <2>3. CASE k # Len(Below) + 1
    <3>1. k \in DOMAIN Below /\ frames'[k] = Below[k]
      BY <1>1, <2>1, <2>3
    <3> QED BY <1>4, <3>1
  <2> QED BY <2>2, <2>3
<1> QED BY <1>3, <1>4 DEF StateInv, Isolation

-----------------------------------------------------------------------------
(* StateInv is inductive.                                                  *)

LEMMA StateInvInit == Init => StateInv
<1> SUFFICES ASSUME Init PROVE StateInv
  OBVIOUS
<1>1. /\ frames = <<>> /\ st = [f \in Fields |-> 0] /\ count = 0 /\ undone = {}
      /\ mode = "call"
  BY DEF Init
<1>2. FramesSound(frames, count, undone) /\ Isolation
  BY <1>1 DEF FramesSound, Isolation
<1> QED BY <1>1, <1>2 DEF StateInv, Within, Clean

(* ctx.enter gives the call a number no earlier call has.                  *)
LEMMA EnterKeepsState == StackInv /\ StateInv /\ Enter => StateInv'
<1> SUFFICES ASSUME StackInv, StateInv, Enter PROVE StateInv'
  OBVIOUS
<1>1. /\ mode = "call" /\ mode' = "lookup" /\ count' = count + 1
      /\ UNCHANGED <<st, res, frames, undone>>
      /\ count \in Nat /\ undone \subseteq 1 .. count /\ frames \in Seq(Frame) /\ st \in States
  BY LimitsAssumption DEF Enter, StackInv, TypeOK
<1>2. count + 1 \in Nat /\ count <= count + 1 /\ count + 1 \notin undone
  BY <1>1
<1>3. FramesSound(frames, count + 1, undone)
  BY <1>1, <1>2, FramesSoundLater DEF StateInv
<1>4. Within(st, count + 1)
  BY <1>1, <1>2, WithinGrows DEF StateInv
<1>5. ASSUME NEW k \in DOMAIN frames PROVE frames[k].since < count + 1
  <2>1. frames[k] \in Frame
    BY <1>1
  <2>2. frames[k].since \in Nat /\ frames[k].since <= count
    BY <2>1 DEF Frame, StateInv, FramesSound, FrameSound
  <2> QED BY <1>1, <2>2
<1> QED BY <1>1, <1>2, <1>3, <1>4, <1>5 DEF StateInv, Isolation

(* A call that has just been entered writes its own number.                *)
LEMMA OwnWriteSound ==
  ASSUME StackInv, StateInv, mode = "lookup", NEW f \in Fields
  PROVE  /\ Within(Write(st, f, count), count) /\ Clean(Write(st, f, count), undone)
         /\ \A k \in DOMAIN frames :
              ChangedSince(Write(st, f, count), frames[k].base, frames[k].since)
<1>1. /\ count \in Nat /\ undone \subseteq 1 .. count /\ st \in States
      /\ frames \in Seq(Frame)
  BY LimitsAssumption DEF StackInv, TypeOK
<1>2. /\ Within(st, count) /\ Clean(st, undone) /\ count \notin undone
      /\ \A k \in DOMAIN frames : /\ frames[k].since < count
                                  /\ ChangedSince(st, frames[k].base, frames[k].since)
  BY DEF StateInv, Isolation
<1>3. \A k \in DOMAIN frames : frames[k].base \in States /\ frames[k].since \in Nat
  <2>1. \A fr \in Frame : fr.base \in States /\ fr.since \in Nat
    BY DEF Frame
  <2> QED BY <1>1, <2>1
<1>4. /\ Within(Write(st, f, count), count)
      /\ Clean(st, undone) /\ count \notin undone => Clean(Write(st, f, count), undone)
      /\ \A b \in States, m \in Nat :
           m < count /\ ChangedSince(st, b, m) => ChangedSince(Write(st, f, count), b, m)
  <2>1. count <= count /\ count \in {count, 0 - count}
    BY <1>1
  <2> QED BY <1>1, <1>2, <2>1, WriteSound
<1> QED BY <1>2, <1>3, <1>4

LEMMA LookupKeepsState == StackInv /\ StateInv /\ Lookup => StateInv'
<1> SUFFICES ASSUME StackInv, StateInv, Lookup PROVE StateInv'
  OBVIOUS
<1>1. mode = "lookup"
  BY DEF Lookup, LeafWrites, LeafFails, Expand, ExpandRefused, StartSequence,
         StartDispatch, StartTry, StartParallel
<1>2. ASSUME NEW r \in {"ok", "err"}, Exit(r), UNCHANGED <<st, undone>>
      PROVE  StateInv'
  BY <1>1, <1>2 DEF Exit, StateInv, Isolation
<1>3. CASE LeafWrites
  <2>1. PICK f \in Fields : st' = Write(st, f, count)
    BY <1>3 DEF LeafWrites
  <2>2. mode' = "back" /\ UNCHANGED <<count, frames, undone>>
    BY <1>3 DEF LeafWrites, Exit
  <2> QED BY <1>1, <2>1, <2>2, OwnWriteSound DEF StateInv, Isolation
<1>4. CASE LeafFails
  BY <1>2, <1>4 DEF LeafFails
<1>5. CASE Expand
  <2>1. /\ st' = Write(st, Exec, count) /\ Exec \in Fields
        /\ UNCHANGED <<mode, count, frames, undone>>
    BY <1>5, FieldsAssumption DEF Expand, ctx
  <2> QED BY <1>1, <2>1, OwnWriteSound DEF StateInv, Isolation
<1>6. CASE ExpandRefused
  BY <1>2, <1>6 DEF ExpandRefused
<1>7. CASE StartSequence
  <2>1. CASE Exit("ok")
    BY <1>2, <1>7, <2>1 DEF StartSequence
  <2>2. CASE ~Exit("ok")
    <3>1. PICK n \in 1 .. MaxChildren :
            frames' = Append(frames, NewFrame("sequence", n, FALSE))
      BY <1>7, <2>2 DEF StartSequence
    <3>2. n \in Nat \ {0}
      BY LimitsAssumption
    <3> QED BY <1>1, <1>7, <2>2, <3>1, <3>2, StartKeepsState DEF StartSequence, ctx
  <2> QED BY <2>1, <2>2
<1>8. CASE StartDispatch
  <2>1. CASE Exit("ok")
    BY <1>2, <1>8, <2>1 DEF StartDispatch
  <2>2. CASE ~Exit("ok")
    <3>1. /\ frames' = Append(frames, NewFrame("dispatch", 1, FALSE)) /\ mode' = "call"
          /\ UNCHANGED <<count, res, st, undone>>
      BY <1>8, <2>2 DEF StartDispatch, ctx
    <3>2. 1 \in Nat \ {0} /\ FALSE \in BOOLEAN
      OBVIOUS
    <3> QED BY <1>1, <3>1, <3>2, StartKeepsState
  <2> QED BY <2>1, <2>2
<1>9. CASE StartTry
  <2>1. /\ frames' = Append(frames, NewFrame("try", 1, FALSE)) /\ mode' = "call"
        /\ UNCHANGED <<count, res, st, undone>>
    BY <1>9 DEF StartTry, ctx
  <2>2. 1 \in Nat \ {0} /\ FALSE \in BOOLEAN
    OBVIOUS
  <2> QED BY <1>1, <2>1, <2>2, StartKeepsState
<1>10. CASE StartParallel
  <2>1. PICK n \in 1 .. MaxChildren, failFast \in BOOLEAN :
          frames' = Append(frames, NewFrame("parallel", n, failFast))
    BY <1>10 DEF StartParallel
  <2>2. n \in Nat \ {0}
    BY LimitsAssumption
  <2> QED BY <1>1, <1>10, <2>1, <2>2, StartKeepsState DEF StartParallel, ctx
<1> QED BY <1>3, <1>4, <1>5, <1>6, <1>7, <1>8, <1>9, <1>10 DEF Lookup

(* What the innermost frame may fall back to, and what its branches left,  *)
(* survives the calls that are undone with it.                             *)
LEMMA FallBackSound ==
  ASSUME StackInv, StateInv, frames # <<>>,
         NEW w \in {undone, undone \cup ((Top.since + 1) .. count)},
         NEW s \in States, Within(s, Top.since), Clean(s, undone)
  PROVE  Within(s, count) /\ Clean(s, w)
<1>1. Top.since \in Nat /\ Top.since <= count /\ count \in Nat /\ undone \subseteq 1 .. count
  BY InnermostSound, LimitsAssumption DEF StackInv, TypeOK, FrameSound
<1>2. Within(s, count)
  BY <1>1, WithinGrows
<1>3. Clean(s, undone \cup ((Top.since + 1) .. count))
  BY <1>1, CleanGrows
<1> QED BY <1>2, <1>3

(* A branch or a catch is counted from now on.                             *)
LEMMA RebasedSound ==
  ASSUME StackInv, StateInv, frames # <<>>,
         NEW w \in {undone, undone \cup ((Top.since + 1) .. count)},
         NEW fr \in Frame, fr.since = count, fr.kind \notin {"try", "dispatch"},
         Within(fr.base, count), Clean(fr.base, w),
         \A j \in DOMAIN fr.results :
           \/ \E i \in DOMAIN Top.results : fr.results[j] = Top.results[i]
           \/ /\ Within(fr.results[j], count) /\ Clean(fr.results[j], w)
              /\ \A k \in DOMAIN Below :
                   ChangedSince(fr.results[j], Below[k].base, Below[k].since),
         \A k \in DOMAIN Below : ChangedSince(fr.base, Below[k].base, Below[k].since)
  PROVE  FrameSound(fr, count, w) /\ \A k \in DOMAIN Below : Nested(Below[k], fr)
<1>1. /\ Top.results \in Seq(States) /\ FrameSound(Top, count, undone)
      /\ \A k \in DOMAIN Below : Below[k] \in Frame /\ Nested(Below[k], Top)
      /\ Top.since \in Nat /\ count \in Nat
  BY InnermostSound, LimitsAssumption DEF StackInv, TypeOK
<1>2. ASSUME NEW i \in DOMAIN Top.results
      PROVE  Within(Top.results[i], count) /\ Clean(Top.results[i], w)
  <2>1. /\ Top.results[i] \in States /\ Within(Top.results[i], Top.since)
        /\ Clean(Top.results[i], undone)
    BY <1>1 DEF FrameSound
  <2> QED BY <2>1, FallBackSound
<1>3. FrameSound(fr, count, w)
  <2>1. ASSUME NEW j \in DOMAIN fr.results
        PROVE  Within(fr.results[j], count) /\ Clean(fr.results[j], w)
    BY <1>2
  <2> QED BY <1>1, <2>1 DEF FrameSound
<1>4. ASSUME NEW k \in DOMAIN Below PROVE Nested(Below[k], fr)
  <2>1. Below[k].since < count
    <3>1. Below[k].since \in Nat
      BY <1>1 DEF Frame
    <3>2. Below[k].since < Top.since /\ Top.since <= count
      BY <1>1 DEF Nested, FrameSound
    <3> QED BY <1>1, <3>1, <3>2
  <2>2. ASSUME NEW j \in DOMAIN fr.results
        PROVE  ChangedSince(fr.results[j], Below[k].base, Below[k].since)
    BY <1>1 DEF Nested
  <2> QED BY <2>1, <2>2 DEF Nested
<1> QED BY <1>3, <1>4

(* The error of a try is written into the state it started from.           *)
LEMMA CaughtSound ==
  ASSUME StackInv, StateInv, frames # <<>>, Top.kind = "try", NEW f \in Fields,
         NEW caught, caught = Write(Top.base, f, 0 - Top.since),
         NEW w, w = undone \cup ((Top.since + 1) .. count)
  PROVE  /\ caught \in States /\ Within(caught, count) /\ Clean(caught, w)
         /\ \A k \in DOMAIN Below :
              ChangedSince(caught, Below[k].base, Below[k].since)
<1>1. /\ Top.since \in Nat /\ Top.base \in States /\ FrameSound(Top, count, undone)
      /\ \A k \in DOMAIN Below : Below[k] \in Frame /\ Nested(Below[k], Top)
      /\ count \in Nat /\ undone \subseteq 1 .. count
  BY InnermostSound, LimitsAssumption DEF StackInv, TypeOK
<1>2. /\ Top.since <= count /\ Top.since \notin undone
      /\ Within(Top.base, Top.since) /\ Clean(Top.base, undone)
  BY <1>1 DEF FrameSound
<1>3. Within(Top.base, count) /\ Clean(Top.base, w)
  BY <1>1, <1>2, FallBackSound
<1>4. w \subseteq 1 .. count /\ Top.since \notin w
  <2>1. \A n, m \in Nat : (n + 1) .. m \subseteq 1 .. m /\ n \notin (n + 1) .. m
    OBVIOUS
  <2> QED BY <1>1, <1>2, <2>1
<1>5. 0 - Top.since \in {Top.since, 0 - Top.since} /\ 0 - Top.since \in Int
  BY <1>1
<1>6. /\ Within(caught, count)
      /\ Clean(Top.base, w) /\ Top.since \notin w => Clean(caught, w)
      /\ \A b \in States, m \in Nat :
           m < Top.since /\ ChangedSince(Top.base, b, m) => ChangedSince(caught, b, m)
  BY <1>1, <1>2, <1>3, <1>4, <1>5, WriteSound
<1>7. ASSUME NEW k \in DOMAIN Below
      PROVE  ChangedSince(caught, Below[k].base, Below[k].since)
  <2>1. Below[k].base \in States /\ Below[k].since \in Nat
    BY <1>1 DEF Frame
  <2> QED BY <1>1, <1>6, <2>1 DEF Nested
<1> QED BY <1>1, <1>3, <1>4, <1>5, <1>6, <1>7, WriteTyped

LEMMA WaitingKeepsState ==
  StackInv /\ StackInv' /\ StateInv /\ (ChildUnfit \/ TryUnfit \/ Answer) => StateInv'
<1> SUFFICES ASSUME StackInv, StackInv', StateInv, ChildUnfit \/ TryUnfit \/ Answer
             PROVE  StateInv'
  OBVIOUS
<1> USE DEF Waiting
<1>1. /\ frames # <<>> /\ mode \in {"call", "back"}
      /\ st \in States /\ st' \in States /\ res \in {"ok", "err"} /\ count \in Nat
      /\ undone \subseteq 1 .. count
  <2>1. frames # <<>> /\ mode \in {"call", "back"}
    BY DEF ChildUnfit, TryUnfit, Answer, SequenceGoesOn, SequenceEnds,
           DispatchEnds, TrySucceeds, TryFails, TryUnwritable, CatchFails,
           BranchReturns
  <2> QED BY <2>1, LimitsAssumption DEF StackInv, TypeOK
<1>2. /\ Top \in Frame /\ Top.since \in Nat /\ Top.base \in States
      /\ Top.results \in Seq(States)
      /\ FrameSound(Top, count, undone)
      /\ \A k \in DOMAIN Below : /\ k \in DOMAIN frames /\ Below[k] = frames[k]
                                 /\ Below[k] \in Frame /\ Nested(Below[k], Top)
  BY <1>1, InnermostSound
<1>3. /\ Within(st, count)
      /\ res = "ok" \/ mode = "call" => Clean(st, undone)
      /\ res = "ok" \/ mode = "call" =>
           /\ ChangedSince(st, Top.base, Top.since)
           /\ \A k \in DOMAIN Below : ChangedSince(st, Below[k].base, Below[k].since)
  <2>1. Len(frames) \in DOMAIN frames /\ Top = frames[Len(frames)]
    <3>1. frames \in Seq(Frame) /\ Len(frames) \in Nat /\ Len(frames) > 0
      BY <1>1 DEF StackInv, TypeOK
    <3> QED BY <3>1 DEF Top
  <2> QED BY <1>1, <1>2, <2>1 DEF StateInv, Isolation
<1>4. CASE ChildUnfit
  BY <1>4 DEF ChildUnfit, StateInv, Isolation, ctx
<1>5. CASE TryUnfit
  BY <1>1, <1>3, <1>5, LeaveKeepsState DEF TryUnfit
<1>6. CASE SequenceGoesOn
  <2> DEFINE fr == [Top EXCEPT !.left = @ - 1]
  <2>1. /\ fr \in Frame /\ fr.base = Top.base /\ fr.since = Top.since
        /\ fr.results = Top.results /\ fr.kind = Top.kind
    BY <1>2, <1>6 DEF SequenceGoesOn, Frame
  <2>2. /\ frames' = Replace(fr) /\ mode' = "call" /\ res = "ok"
        /\ UNCHANGED <<count, res, st, undone>>
    BY <1>6 DEF SequenceGoesOn, ctx
  <2> HIDE DEF fr
  <2>3. FrameSound(fr, count, undone) /\ \A k \in DOMAIN Below : Nested(Below[k], fr)
    BY <1>2, <2>1 DEF FrameSound, Nested
  <2> QED BY <1>1, <1>3, <2>1, <2>2, <2>3, ReplaceKeepsState
<1>7. CASE SequenceEnds
  BY <1>1, <1>3, <1>7, LeaveKeepsState DEF SequenceEnds
<1>8. CASE DispatchEnds
  <2>1. Leave(res) /\ undone' = undone /\ Top.kind = "dispatch" /\ count' = count
    BY <1>8 DEF DispatchEnds, Leave
  <2>2. CASE res = "ok"
    <3>1. st' = Write(st, Exec, Top.since) /\ Exec \in Fields
      BY <1>8, <2>2, FieldsAssumption DEF DispatchEnds
    <3>2. Top.since <= count /\ Top.since \notin undone /\ Top.since \in {Top.since, 0 - Top.since}
      BY <1>2, <2>1 DEF FrameSound
    <3>3. /\ Within(st', count) /\ Clean(st', undone)
          /\ \A b \in States, m \in Nat :
               m < Top.since /\ ChangedSince(st, b, m) => ChangedSince(st', b, m)
      BY <1>1, <1>2, <1>3, <2>2, <3>1, <3>2, WriteSound
    <3>4. ASSUME NEW k \in DOMAIN Below
          PROVE  ChangedSince(st', Below[k].base, Below[k].since)
      <4>1. /\ Below[k].base \in States /\ Below[k].since \in Nat
            /\ Below[k].since < Top.since
        BY <1>2 DEF Frame, Nested
      <4> QED BY <1>3, <2>2, <3>3, <4>1
    <3> QED BY <1>1, <2>1, <3>3, <3>4, LeaveKeepsState
  <2>3. CASE res # "ok"
    <3>1. st' = st
      BY <1>8, <2>3 DEF DispatchEnds
    <3> QED BY <1>1, <1>3, <2>1, <2>3, <3>1, LeaveKeepsState
  <2> QED BY <2>2, <2>3
<1>9. CASE TrySucceeds
  BY <1>1, <1>3, <1>9, LeaveKeepsState DEF TrySucceeds
<1>10. CASE TryFails
  <2> DEFINE w == undone \cup ((Top.since + 1) .. count)
  <2>1. PICK f \in Fields :
          LET caught == Write(Top.base, f, 0 - Top.since)
          IN  /\ st' = caught
              /\ \/ Leave("ok")
                 \/ /\ frames' = Replace([Top EXCEPT !.kind = "catch",
                                                 !.base = caught, !.since = count])
                    /\ mode' = "call"
                    /\ UNCHANGED <<target, ctx, res>>
    BY <1>10 DEF TryFails
  <2>2. Top.kind = "try" /\ undone' = w
    BY <1>10 DEF TryFails
  <2>3. st' = Write(Top.base, f, 0 - Top.since)
    BY <2>1
  <2> HIDE DEF w
  <2>4. /\ Within(st', count) /\ Clean(st', w)
        /\ \A k \in DOMAIN Below : ChangedSince(st', Below[k].base, Below[k].since)
    BY <1>1, <2>2, <2>3, CaughtSound DEF w
  <2>5. CASE Leave("ok")
    BY <1>1, <2>2, <2>4, <2>5, LeaveKeepsState DEF w
  <2>6. CASE ~Leave("ok")
    <3> DEFINE fr == [Top EXCEPT !.kind = "catch", !.base = st', !.since = count]
    <3>1. frames' = Replace(fr) /\ mode' = "call" /\ UNCHANGED <<count, res>>
      BY <2>1, <2>6 DEF ctx
    <3>2. /\ fr \in Frame /\ fr.base = st' /\ fr.since = count /\ fr.kind = "catch"
          /\ fr.results = Top.results
      BY <1>1, <1>2 DEF Frame
    <3> HIDE DEF fr
    <3>3. FrameSound(fr, count, w) /\ \A k \in DOMAIN Below : Nested(Below[k], fr)
      BY <1>1, <2>4, <3>2, RebasedSound DEF w
    <3>4. ChangedSince(st', fr.base, fr.since)
      BY <3>2 DEF ChangedSince
    <3> QED BY <1>1, <2>2, <2>4, <3>1, <3>2, <3>3, <3>4, ReplaceKeepsState DEF w
  <2> QED BY <2>5, <2>6
<1>11. CASE TryUnwritable
  BY <1>1, <1>3, <1>11, LeaveKeepsState DEF TryUnwritable
<1>12. CASE CatchFails
  <2>1. /\ st' = Top.base /\ Leave("ok")
        /\ undone' = undone \cup ((Top.since + 1) .. count)
    BY <1>12 DEF CatchFails
  <2>2. Within(st', count) /\ Clean(st', undone')
    BY <1>1, <1>2, <2>1, FallBackSound DEF FrameSound
  <2>3. \A k \in DOMAIN Below : ChangedSince(st', Below[k].base, Below[k].since)
    BY <1>2, <2>1 DEF Nested
  <2> QED BY <1>1, <2>1, <2>2, <2>3, LeaveKeepsState
<1>13. CASE BranchReturns
  <2> DEFINE kept == IF res = "ok" THEN Append(Top.results, st) ELSE Top.results
             after == [Top EXCEPT !.results = kept,
                                  !.failed = Top.failed \/ res = "err",
                                  !.since = count]
  <2>1. /\ undone' = IF res = "err" THEN undone \cup ((Top.since + 1) .. count) ELSE undone
        /\ Top.kind = "parallel" /\ UNCHANGED <<count, res>> /\ mode = "back"
        /\ \/ frames' = Replace(after) /\ mode' = "merge" /\ st' = st
           \/ /\ Top.left # 0
              /\ frames' = Replace([after EXCEPT !.left = @ - 1])
              /\ mode' = "call" /\ st' = Top.base
    BY <1>13 DEF BranchReturns, ctx
  <2>2. /\ kept \in Seq(States)
        /\ \A j \in DOMAIN kept : \/ \E i \in DOMAIN Top.results : kept[j] = Top.results[i]
                                  \/ res = "ok" /\ kept[j] = st
    <3>1. CASE res = "ok"
      <4>1. /\ kept = Append(Top.results, st) /\ Len(Top.results) \in Nat
            /\ DOMAIN kept = 1 .. Len(Top.results) + 1
            /\ \A j \in 1 .. Len(Top.results) : kept[j] = Top.results[j]
            /\ kept[Len(Top.results) + 1] = st /\ kept \in Seq(States)
        BY <1>1, <1>2, <3>1
      <4>2. \A j \in 1 .. Len(Top.results) + 1 :
              j \in DOMAIN Top.results \/ j = Len(Top.results) + 1
        BY <1>2, <4>1
      <4> HIDE DEF kept
      <4> QED BY <1>2, <3>1, <4>1, <4>2
    <3>2. CASE res # "ok"
      BY <1>2, <3>2
    <3> QED BY <3>1, <3>2
  <2>3. /\ after \in Frame /\ after.base = Top.base /\ after.since = count
        /\ after.results = kept /\ after.kind = Top.kind /\ after.left = Top.left
    BY <1>1, <1>2, <2>2 DEF Frame
  <2> HIDE DEF kept, after
  <2>4. undone' \in {undone, undone \cup ((Top.since + 1) .. count)}
    BY <2>1
  <2>5. /\ Within(Top.base, count) /\ Clean(Top.base, undone')
        /\ \A k \in DOMAIN Below : ChangedSince(Top.base, Below[k].base, Below[k].since)
    <3>1. Within(Top.base, Top.since) /\ Clean(Top.base, undone)
      BY <1>2 DEF FrameSound
    <3> QED BY <1>1, <1>2, <2>4, <3>1, FallBackSound DEF Nested
  <2>6. ASSUME NEW j \in DOMAIN kept
        PROVE  \/ \E i \in DOMAIN Top.results : kept[j] = Top.results[i]
               \/ /\ Within(kept[j], count) /\ Clean(kept[j], undone')
                  /\ \A k \in DOMAIN Below :
                       ChangedSince(kept[j], Below[k].base, Below[k].since)
    <3>1. CASE res = "ok" /\ kept[j] = st
      <4>1. undone' = undone
        BY <2>1, <3>1
      <4> QED BY <1>3, <3>1, <4>1
    <3> QED BY <2>2, <3>1
  <2>7. ASSUME NEW fr \in Frame, fr.base = Top.base, fr.since = count,
               fr.results = kept, fr.kind = Top.kind
        PROVE  FrameSound(fr, count, undone') /\ \A k \in DOMAIN Below : Nested(Below[k], fr)
    <3>1. /\ fr.kind \notin {"try", "dispatch"}
          /\ Within(fr.base, count) /\ Clean(fr.base, undone')
          /\ \A k \in DOMAIN Below : ChangedSince(fr.base, Below[k].base, Below[k].since)
      BY <2>1, <2>5, <2>7
    <3> QED BY <1>1, <2>4, <2>6, <2>7, <3>1, RebasedSound
  <2>8. CASE frames' = Replace(after) /\ mode' = "merge" /\ st' = st
    <3>1. res = "ok" => Clean(st', undone')
      BY <1>3, <2>1, <2>8
    <3> QED BY <1>1, <1>3, <2>1, <2>3, <2>4, <2>7, <2>8, <3>1, ReplaceKeepsState
  <2>9. CASE /\ Top.left # 0
             /\ frames' = Replace([after EXCEPT !.left = @ - 1])
             /\ mode' = "call" /\ st' = Top.base
    <3> DEFINE fr == [after EXCEPT !.left = @ - 1]
    <3>1. Top.left - 1 \in Nat
      <4>1. Top.left \in Nat
        BY <1>2 DEF Frame
      <4> QED BY <2>9, <4>1
    <3>2. /\ fr \in Frame /\ fr.base = Top.base /\ fr.since = count
          /\ fr.results = kept /\ fr.kind = Top.kind
      BY <2>3, <3>1 DEF Frame
    <3>3. frames' = Replace(fr)
      BY <2>9
    <3> HIDE DEF fr
    <3>4. ChangedSince(st', fr.base, fr.since)
      BY <2>9, <3>2 DEF ChangedSince
    <3> QED BY <1>1, <2>1, <2>4, <2>5, <2>7, <2>9, <3>2, <3>3, <3>4, ReplaceKeepsState
  <2> QED BY <2>1, <2>8, <2>9
<1> QED BY <1>4, <1>5, <1>6, <1>7, <1>8, <1>9, <1>10, <1>11, <1>12, <1>13
        DEF Answer

(* The merge of the branches: every field comes from the state the         *)
(* branches started from or from one of the results.                       *)
LEMMA MergeKeepsState == StackInv /\ StackInv' /\ StateInv /\ Merge => StateInv'
<1> SUFFICES ASSUME StackInv, StackInv', StateInv, Merge PROVE StateInv'
  OBVIOUS
<1>1. /\ mode = "merge" /\ frames # <<>> /\ undone' = undone
      /\ Within(st, count)
  BY DEF Merge, NoResult, LastWins, ForceMerge, StackInv, MergeHasFrame, StateInv
<1>2. /\ Top \in Frame /\ Top.since \in Nat /\ Top.base \in States
      /\ Top.results \in Seq(States) /\ FrameSound(Top, count, undone)
      /\ \A k \in DOMAIN Below : Nested(Below[k], Top)
  BY <1>1, InnermostSound
<1>3. ASSUME NEW s \in States,
             \/ s = Top.base
             \/ \E i \in DOMAIN Top.results : s = Top.results[i]
      PROVE  /\ Within(s, count) /\ Clean(s, undone)
             /\ \A k \in DOMAIN Below : ChangedSince(s, Below[k].base, Below[k].since)
  <2>1. Within(s, Top.since) /\ Clean(s, undone)
    BY <1>2, <1>3 DEF FrameSound
  <2>2. Within(s, count)
    BY <1>1, <2>1, FallBackSound
  <2>3. \A k \in DOMAIN Below : ChangedSince(s, Below[k].base, Below[k].since)
    BY <1>2, <1>3 DEF Nested
  <2> QED BY <2>1, <2>2, <2>3
<1>4. CASE NoResult
  BY <1>1, <1>4, LeaveKeepsState DEF NoResult
<1>5. CASE LastWins
  <2>1. Len(Top.results) \in DOMAIN Top.results
    BY <1>2, <1>5 DEF LastWins
  <2>2. /\ st' \in States /\ st' = Top.results[Len(Top.results)] /\ Leave("ok")
    BY <1>2, <1>5, <2>1 DEF LastWins
  <2> QED BY <1>1, <1>3, <2>1, <2>2, LeaveKeepsState
<1>6. CASE ForceMerge
  <2>1. PICK last \in [Fields -> 0 .. Len(Top.results)] :
          st' = [f \in Fields |-> IF last[f] = 0 THEN Top.base[f]
                                                ELSE Top.results[last[f]][f]]
    BY <1>6 DEF ForceMerge
  <2>2. ASSUME NEW f \in Fields
        PROVE  \E s \in States :
                 /\ \/ s = Top.base
                    \/ \E i \in DOMAIN Top.results : s = Top.results[i]
                 /\ st'[f] = s[f]
    <3>1. CASE last[f] = 0
      BY <1>2, <2>1, <3>1
    <3>2. CASE last[f] # 0
      <4>1. last[f] \in DOMAIN Top.results
        BY <1>2, <2>1, <3>2
      <4> QED BY <1>2, <2>1, <3>2, <4>1
    <3> QED BY <3>1, <3>2
  <2>3. Within(st', count) /\ Clean(st', undone)
    BY <1>3, <2>2 DEF Within, Clean
  <2>4. ASSUME NEW k \in DOMAIN Below
        PROVE  ChangedSince(st', Below[k].base, Below[k].since)
    BY <1>3, <2>2 DEF ChangedSince
  <2>5. Leave("ok")
    BY <1>6 DEF ForceMerge
  <2> QED BY <1>1, <2>3, <2>4, <2>5, LeaveKeepsState
<1> QED BY <1>4, <1>5, <1>6 DEF Merge

LEMMA StateInvNext == StackInv /\ StateInv /\ [Next]_vars => StateInv'
<1> SUFFICES ASSUME StackInv, StateInv, [Next]_vars PROVE StateInv'
  OBVIOUS
<1>1. StackInv'
  BY StackInvNext
<1>2. CASE Refuse
  BY <1>2 DEF Refuse, StateInv, Isolation, ctx
<1>3. CASE Enter
  BY <1>3, EnterKeepsState
<1>4. CASE Lookup
  BY <1>4, LookupKeepsState
<1>5. CASE ChildUnfit \/ TryUnfit \/ Answer
  BY <1>1, <1>5, WaitingKeepsState
<1>6. CASE Merge
  BY <1>1, <1>6, MergeKeepsState
<1>7. CASE Finish
  BY <1>7 DEF Finish, StateInv, Isolation, ctx
<1>8. CASE UNCHANGED vars
  BY <1>8 DEF vars, StateInv, Isolation, ctx
<1> QED BY <1>2, <1>3, <1>4, <1>5, <1>6, <1>7, <1>8 DEF Next, Step, Finished

(* Type correctness, whatever the limits, the fields and dispatch_cases.   *)
THEOREM CallTypeCorrect == Spec => []TypeOK
<1>1. StackInv => TypeOK
  BY DEF StackInv
<1> QED BY StackInvInit, StackInvNext, <1>1, PTL DEF Spec

(* The context is balanced: at every moment ctx.depth counts the execute   *)
(* calls that are open, on every success and error path, for every rule    *)
(* program, every table of aliases and all limits.                         *)
THEOREM ContextBalanced == Spec => []DepthMatchesStack
<1>1. StackInv => DepthMatchesStack
  BY DEF StackInv
<1> QED BY StackInvInit, StackInvNext, <1>1, PTL DEF Spec

(* Rollback: for every rule program and every nesting of try_catch and     *)
(* execute_parallel, no state that is still in use holds anything a failed *)
(* try, catch or branch wrote.                                             *)
THEOREM FailuresLeaveNothing == Spec => []Rollback
<1>1. StateInv => Rollback
  BY DEF StateInv, FramesSound, FrameSound, Rollback
<1>2. StackInv /\ StateInv /\ [Next]_vars => StateInv'
  BY StateInvNext
<1> QED
  BY StackInvInit, StackInvNext, StateInvInit, <1>1, <1>2, PTL DEF Spec

(* Isolation: a try, a catch or a branch sees the state its primitive was  *)
(* given and its own changes, and nothing of the branches before it.       *)
THEOREM BranchesIsolated == Spec => []Isolation
<1>1. StateInv => Isolation
  BY DEF StateInv
<1>2. StackInv /\ StateInv /\ [Next]_vars => StateInv'
  BY StateInvNext
<1> QED
  BY StackInvInit, StackInvNext, StateInvInit, <1>1, <1>2, PTL DEF Spec
=============================================================================
