-------------------------- MODULE JobPollingProofs --------------------------
(***************************************************************************)
(* Safety of JobPolling for any jobs, any number of polls in flight and    *)
(* any user: no interval escapes, a job shown without its verdict is       *)
(* polled while answers are prompt, and a verdict on the page is true.     *)
(***************************************************************************)
EXTENDS JobPolling, TLAPS

\* A verdict under way to the page is the verdict of the row it was read from.
AnswersAreTrue ==
    \A s \in Slots :
        polls[s].answer \in TERMINAL =>
            polls[s].job # None /\ status[polls[s].job] = polls[s].answer

Inv ==
    /\ TypeOK
    /\ IntervalsTracked
    /\ VerdictShownIsFinal
    /\ AnswersAreTrue

\* The server never takes back a verdict.
LEMMA VerdictsStay ==
    ASSUME TypeOK, NEW j \in Jobs, Work(j) \/ CreateRow
    PROVE  /\ status' \in [Jobs -> Server!Statuses]
           /\ \A i \in Jobs : status[i] \in TERMINAL => status'[i] = status[i]
<1>1. CASE Work(j)
  BY <1>1 DEF Work, TypeOK, TERMINAL, Server!Advance, Server!Complete, Server!Fail,
              Server!Statuses
<1>2. CASE CreateRow
  BY <1>2 DEF CreateRow, TypeOK, TERMINAL, Server!Create, Server!Statuses
<1>. QED
  BY <1>1, <1>2

LEMMA InitInv == Init => Inv
BY NoneAssumption DEF Init, Inv, TypeOK, IntervalsTracked, VerdictShownIsFinal, AnswersAreTrue,
   Nothing, Free, TERMINAL, Server!Init, Server!Statuses

\* Typing: every step of the hook, the page, the polls and the server.
LEMMA NextTypeOK == TypeOK /\ [Next]_vars => TypeOK'
<1>. SUFFICES ASSUME TypeOK, [Next]_vars
              PROVE  TypeOK'
  OBVIOUS
<1>. USE NoneAssumption DEF TypeOK
<1>1. ASSUME NEW j \in Jobs, Run(j)
      PROVE  TypeOK'
  BY <1>1 DEF Run, Reset, Stop, Show, Nothing, Server!Statuses
<1>2. ASSUME NEW j \in Jobs, Tick(j)
      PROVE  TypeOK'
  BY <1>2 DEF Tick, hook
<1>3. ASSUME NEW j \in Jobs, Work(j)
      PROVE  TypeOK'
  BY <1>3, VerdictsStay DEF Work, hook
<1>4. ASSUME NEW s \in Slots, Answer(s)
      PROVE  TypeOK'
  BY <1>4 DEF Answer, hook
<1>5. ASSUME NEW s \in Slots, PollFails(s)
      PROVE  TypeOK'
  BY <1>5 DEF PollFails, hook, Free
<1>6. ASSUME NEW s \in Slots, PollArrives(s)
      PROVE  TypeOK'
  <2>. polls[s].answer \in Server!Statuses
    BY <1>6 DEF PollArrives
  <2>. QED
    BY <1>6 DEF PollArrives, Show, Stop, Free
<1>7. CASE CreateRow
  <2>. Jobs # {}
    BY <1>7 DEF CreateRow
  <2>. QED
    BY <1>7, VerdictsStay DEF CreateRow, hook
<1>8. CASE PostAnswered
  BY <1>8 DEF PostAnswered, Start, Stop, Show, Server!Statuses
<1>9. CASE PostFails
  BY <1>9 DEF PostFails, hook
<1>10. CASE Unmount
  BY <1>10 DEF Unmount, Stop
<1>11. CASE UNCHANGED vars
  BY <1>11 DEF vars, hook
<1>. QED
  BY <1>1, <1>2, <1>3, <1>4, <1>5, <1>6, <1>7, <1>8, <1>9, <1>10, <1>11 DEF Next

\* stop() clears exactly the interval the ref knows, start() replaces it.
LEMMA NextIntervals == Inv /\ [Next]_vars => IntervalsTracked'
<1>. SUFFICES ASSUME Inv, [Next]_vars
              PROVE  IntervalsTracked'
  OBVIOUS
<1>. USE NoneAssumption DEF Inv, TypeOK, IntervalsTracked, Stop
<1>1. ASSUME NEW j \in Jobs, Run(j)
      PROVE  IntervalsTracked'
  BY <1>1 DEF Run, Reset
<1>2. ASSUME NEW s \in Slots, PollArrives(s)
      PROVE  IntervalsTracked'
  BY <1>2 DEF PollArrives
<1>3. CASE PostAnswered
  BY <1>3 DEF PostAnswered, Start
<1>4. CASE Unmount
  BY <1>4 DEF Unmount
<1>5. CASE UNCHANGED hook
  BY <1>5 DEF hook
<1>. QED
  BY <1>1, <1>2, <1>3, <1>4, <1>5
     DEF Next, vars, Tick, Work, Answer, PollFails, CreateRow, PostFails

\* Answers under way stay true, and so does what was shown from one of them.
LEMMA NextVerdicts == Inv /\ [Next]_vars => VerdictShownIsFinal' /\ AnswersAreTrue'
<1>. SUFFICES ASSUME Inv, [Next]_vars
              PROVE  VerdictShownIsFinal' /\ AnswersAreTrue'
  OBVIOUS
<1>. USE NoneAssumption DEF Inv, TypeOK, VerdictShownIsFinal, AnswersAreTrue
<1>1. ASSUME NEW j \in Jobs, Run(j)
      PROVE  VerdictShownIsFinal' /\ AnswersAreTrue'
  BY <1>1 DEF Run, Reset, Show, Nothing, TERMINAL
<1>2. ASSUME NEW j \in Jobs, Tick(j)
      PROVE  VerdictShownIsFinal' /\ AnswersAreTrue'
  BY <1>2 DEF Tick, hook, TERMINAL
<1>3. ASSUME NEW j \in Jobs, Work(j) \/ CreateRow
      PROVE  VerdictShownIsFinal' /\ AnswersAreTrue'
  <2>1. \A i \in Jobs : status[i] \in TERMINAL => status'[i] = status[i]
    BY <1>3, VerdictsStay
  <2>. QED
    BY <1>3, <2>1 DEF Work, CreateRow, hook
<1>4. ASSUME NEW s \in Slots, Answer(s)
      PROVE  VerdictShownIsFinal' /\ AnswersAreTrue'
  BY <1>4 DEF Answer, hook
<1>5. ASSUME NEW s \in Slots, PollFails(s)
      PROVE  VerdictShownIsFinal' /\ AnswersAreTrue'
  BY <1>5 DEF PollFails, hook, Free, TERMINAL
<1>6. ASSUME NEW s \in Slots, PollArrives(s)
      PROVE  VerdictShownIsFinal' /\ AnswersAreTrue'
  BY <1>6 DEF PollArrives, Show, Free, TERMINAL
<1>7. CASE PostAnswered
  BY <1>7 DEF PostAnswered, Start, Show, TERMINAL
<1>8. CASE UNCHANGED <<status, shown, polls>>
  BY <1>8
<1>. QED
  BY <1>1, <1>2, <1>3, <1>4, <1>5, <1>6, <1>7, <1>8
     DEF Next, vars, hook, PostFails, Unmount, CreateRow

THEOREM InvHolds == Spec => []Inv
<1>1. Inv /\ [Next]_vars => Inv'
  BY NextTypeOK, NextIntervals, NextVerdicts DEF Inv
<1>. QED
  BY InitInv, <1>1, PTL DEF Spec

\* The hook's state is well typed in every reachable state.
THEOREM PollingTypeCorrect == Spec => []TypeOK
BY InvHolds, PTL DEF Inv

----------------------------------------------------------------------------
(* Prompt answers *)

\* While answers are prompt, one poll at most is in flight, it asks for the job
\* shown, which has no verdict yet, and nothing is polled during a POST.
OnePoll ==
    \A r, s \in Slots : polls[r] # Free /\ polls[s] # Free => r = s

PollOfShownJob(s) ==
    polls[s] # Free => polls[s].job = shown.job /\ timer = shown.job

PostIsQuiet == posting # None => NoPolls /\ timer = None /\ shown = Nothing

PromptInv ==
    prompt =>
        /\ OnePoll
        /\ mounted => PostIsQuiet
        /\ mounted => \A s \in Slots : PollOfShownJob(s)
        /\ PollingContinues
        /\ mounted /\ timer # None => timer = shown.job /\ shown.status \notin TERMINAL

LEMMA InitPromptInv == Init => PromptInv
BY NoneAssumption DEF Init, PromptInv, OnePoll, PostIsQuiet, PollOfShownJob, NoPolls,
   PollingContinues, Nothing

\* A tick sends the one poll there is; its answer shows the same job again.
LEMMA NextPromptInv == Inv /\ PromptInv /\ [Next]_vars => PromptInv'
<1>. SUFFICES ASSUME Inv, PromptInv, [Next]_vars, prompt'
              PROVE  PromptInv'
  BY DEF PromptInv
<1>1. prompt
  BY DEF Next, vars, Run, Tick, Work, Answer, PollFails, PollArrives, CreateRow, PostAnswered,
         PostFails, Unmount
<1>. USE <1>1, NoneAssumption
     DEF Inv, TypeOK, PromptInv, OnePoll, PostIsQuiet, PollOfShownJob, NoPolls, PollingContinues
<1>2. ASSUME NEW j \in Jobs, Run(j)
      PROVE  PromptInv'
  BY <1>2 DEF Run, Reset, Stop, Show, Nothing, Quiet, TERMINAL
<1>3. ASSUME NEW j \in Jobs, Tick(j)
      PROVE  PromptInv'
  BY <1>3 DEF Tick, hook, IntervalsTracked, Free
<1>4. ASSUME NEW s \in Slots, Answer(s)
      PROVE  PromptInv'
  <2>1. polls[s] # Free
    BY <1>4 DEF Answer, Free
  <2>2. \A r \in Slots : r # s => polls'[r] = polls[r]
    BY <1>4 DEF Answer
  <2>3. polls'[s].job = polls[s].job
    BY <1>4 DEF Answer
  <2>. QED
    BY <1>4, <2>1, <2>2, <2>3 DEF Answer, hook
<1>5. ASSUME NEW s \in Slots, PollFails(s)
      PROVE  PromptInv'
  BY <1>5 DEF PollFails, hook, Free
<1>6. ASSUME NEW s \in Slots, PollArrives(s)
      PROVE  PromptInv'
  <2>1. polls[s] # Free /\ polls[s].job # None
    BY <1>6 DEF PollArrives, Free
  <2>2. \A r \in Slots : polls'[r] = Free
    BY <1>6, <2>1 DEF PollArrives, Free
  <2>. QED
    BY <1>6, <2>1, <2>2 DEF PollArrives, Show, Stop, TERMINAL
<1>7. CASE PostAnswered
  BY <1>7 DEF PostAnswered, Start, Stop, Show, TERMINAL
<1>8. CASE Unmount
  BY <1>8 DEF Unmount
<1>9. CASE PostFails
  BY <1>9 DEF PostFails, hook
<1>10. CASE UNCHANGED <<posting, hook, polls, mounted, prompt>>
  BY <1>10 DEF hook
<1>. QED
  BY <1>2, <1>3, <1>4, <1>5, <1>6, <1>7, <1>8, <1>9, <1>10
     DEF Next, vars, Work, CreateRow

THEOREM PromptInvHolds == Spec => []PromptInv
<1>1. Inv /\ PromptInv /\ [Next]_vars => PromptInv'
  BY NextPromptInv
<1>. QED
  BY InvHolds, InitPromptInv, <1>1, PTL DEF Spec

----------------------------------------------------------------------------
(* The results *)

\* useJobPolling never leaves an interval running that stop() cannot clear, and
\* while answers are prompt a job shown without its verdict is being polled.
THEOREM PollingStaysTracked == Spec => []PollingTracked
<1>1. Inv /\ PromptInv => PollingTracked
  BY DEF Inv, PromptInv, PollingTracked
<1>. QED
  BY InvHolds, PromptInvHolds, <1>1, PTL

\* Whatever order answers arrive in, a verdict on the page is the row's verdict.
THEOREM VerdictShownIsTrue == Spec => []VerdictShownIsFinal
BY InvHolds, PTL DEF Inv
============================================================================
