----------------------------- MODULE JobPolling -----------------------------
(***************************************************************************)
(* The hook useJobPolling inside the Import and Anonymize pages: a POST    *)
(* creates a job, start() shows it and sets an interval, every tick sends  *)
(* a GET, and each answer is shown whenever it arrives.  Polls overlap and *)
(* answers are not ordered.                                                *)
(*                                                                         *)
(* The server is what JobLifecycle promises (JobPipeline implements it);   *)
(* progress is not looked at here, so it is 100 when done and 0 before.    *)
(***************************************************************************)
EXTENDS Integers

CONSTANTS
    Jobs,        \* job ids; each comes from one POST of the page
    Slots,       \* bound: how many polls can be in flight at once
    Prompts,     \* the values of prompt considered
    None         \* null

ASSUME NoneAssumption == None \notin Jobs
ASSUME PromptsAssumption == Prompts \subseteq BOOLEAN

VARIABLES
    status,      \* the server's row of each job, "absent" before the insert
    posting,     \* the job whose POST is in flight
    shown,       \* the job state of the hook: [job, status]
    timer,       \* timer.current: the job its interval polls
    intervals,   \* the jobs of the intervals the browser really runs
    polls,       \* polls[s]: the GET in flight in slot s: [job, answer]
    mounted,     \* the page is there
    prompt       \* TRUE for good: answers come before the next tick, and the user
                 \* starts a job only when the last one has its verdict

hook == <<shown, timer, intervals>>
vars == <<status, posting, hook, polls, mounted, prompt>>

Server == INSTANCE JobLifecycle
    WITH progress <- [j \in Jobs |-> IF status[j] = "done" THEN 100 ELSE 0]

TERMINAL == {"done", "failed"}

Nothing == [job |-> None, status |-> "absent"]
Free    == [job |-> None, answer |-> "waiting"]

TypeOK ==
    /\ status \in [Jobs -> Server!Statuses]
    /\ posting \in Jobs \cup {None}
    /\ shown \in [job : Jobs \cup {None}, status : Server!Statuses]
    /\ timer \in Jobs \cup {None}
    /\ intervals \subseteq Jobs
    /\ polls \in [Slots -> [job : Jobs \cup {None}, answer : Server!Statuses \cup {"waiting"}]]
    /\ mounted \in BOOLEAN
    /\ prompt \in Prompts

Init ==
    /\ Server!Init
    /\ posting = None
    /\ shown = Nothing
    /\ timer = None
    /\ intervals = {}
    /\ polls = [s \in Slots |-> Free]
    /\ mounted = TRUE
    /\ prompt \in Prompts

----------------------------------------------------------------------------
(* The hook *)

\* Variant (bug): the ref is cleared, the interval is not.
StopForgetsInterval == timer' = None /\ UNCHANGED intervals

Stop ==
    /\ timer' = None
    /\ intervals' = intervals \ {timer}

\* setJob; React ignores it once the component is gone.
Show(snapshot) == shown' = IF mounted THEN snapshot ELSE shown

\* Variant (bug): stop() after the interval is set.
StartThenStop(snapshot) == Show(snapshot) /\ Stop

\* Variant (bug): the interval polls the job shown before, not the new one.
StartWithStaleJob(snapshot) ==
    /\ Show(snapshot)
    /\ timer' = shown.job
    /\ intervals' = (intervals \ {timer}) \cup {shown.job}

Start(snapshot) ==
    /\ Show(snapshot)
    /\ IF snapshot.status \in TERMINAL
       THEN Stop
       ELSE /\ timer' = snapshot.job
            /\ intervals' = (intervals \ {timer}) \cup {snapshot.job}

Reset == Stop /\ Show(Nothing)

----------------------------------------------------------------------------
(* The page: handleUpload and handleRun *)

NoPolls == \A s \in Slots : polls[s] = Free

Quiet == NoPolls /\ (shown.job # None => shown.status \in TERMINAL)

\* The button is disabled only while a POST is in flight.
Run(j) ==
    /\ mounted
    /\ posting = None
    /\ status[j] = "absent"
    /\ prompt => Quiet
    /\ posting' = j
    /\ Reset
    /\ UNCHANGED <<status, polls, mounted, prompt>>

\* create_job answers with the row it committed, whatever the worker did since.
PostAnswered ==
    /\ posting # None
    /\ status[posting] # "absent"
    /\ posting' = None
    /\ Start([job |-> posting, status |-> "pending"])
    /\ UNCHANGED <<status, polls, mounted, prompt>>

PostFails ==
    /\ posting # None
    /\ posting' = None
    /\ UNCHANGED <<status, hook, polls, mounted, prompt>>

Unmount ==
    /\ mounted
    /\ mounted' = FALSE
    /\ Stop
    /\ UNCHANGED <<status, posting, shown, polls, prompt>>

----------------------------------------------------------------------------
(* The polls *)

Tick(j) ==
    /\ j \in intervals
    /\ prompt => NoPolls
    /\ \E s \in Slots :
        /\ polls[s] = Free
        /\ polls' = [polls EXCEPT ![s] = [job |-> j, answer |-> "waiting"]]
    /\ UNCHANGED <<status, posting, hook, mounted, prompt>>

\* The server reads the row; the answer travels back.
Answer(s) ==
    /\ polls[s].job # None
    /\ polls[s].answer = "waiting"
    /\ polls' = [polls EXCEPT ![s].answer = status[polls[s].job]]
    /\ UNCHANGED <<status, posting, hook, mounted, prompt>>

\* Variant (bug): an error ends the polling.
PollFailsForGood(s) ==
    /\ polls[s].job # None
    /\ polls' = [polls EXCEPT ![s] = Free]
    /\ Stop
    /\ UNCHANGED <<status, posting, shown, mounted, prompt>>

\* Any error is taken for a transient one.
PollFails(s) ==
    /\ polls[s].job # None
    /\ polls' = [polls EXCEPT ![s] = Free]
    /\ UNCHANGED <<status, posting, hook, mounted, prompt>>

\* Variant (bug): only "done" ends the polling.
PollArrivesEndsOnDone(s) ==
    /\ polls[s].job # None
    /\ polls[s].answer # "waiting"
    /\ Show([job |-> polls[s].job, status |-> polls[s].answer])
    /\ IF polls[s].answer = "done" THEN Stop ELSE UNCHANGED <<timer, intervals>>
    /\ polls' = [polls EXCEPT ![s] = Free]
    /\ UNCHANGED <<status, posting, mounted, prompt>>

\* The answer is shown, and a verdict stops the current timer, for whichever
\* job either of them is.
PollArrives(s) ==
    /\ polls[s].job # None
    /\ polls[s].answer # "waiting"
    /\ Show([job |-> polls[s].job, status |-> polls[s].answer])
    /\ IF polls[s].answer \in TERMINAL THEN Stop ELSE UNCHANGED <<timer, intervals>>
    /\ polls' = [polls EXCEPT ![s] = Free]
    /\ UNCHANGED <<status, posting, mounted, prompt>>

----------------------------------------------------------------------------
(* The server *)

CreateRow ==
    /\ posting # None
    /\ Server!Create(posting)
    /\ UNCHANGED <<posting, hook, polls, mounted, prompt>>

Work(j) ==
    /\ Server!Advance(j) \/ Server!Complete(j) \/ Server!Fail(j)
    /\ UNCHANGED <<posting, hook, polls, mounted, prompt>>

Next ==
    \/ \E j \in Jobs : Run(j) \/ Tick(j) \/ Work(j)
    \/ \E s \in Slots : Answer(s) \/ PollFails(s) \/ PollArrives(s)
    \/ CreateRow \/ PostAnswered \/ PostFails \/ Unmount

Spec == Init /\ [][Next]_vars

\* The server works on (AcceptedJobFinishes) and answers, the browser runs its
\* intervals, and poll errors are transient: in a slot used again and again some
\* poll is answered and some answer arrives.
Fairness ==
    /\ WF_vars(PostAnswered \/ PostFails)
    /\ \A j \in Jobs : WF_vars(Work(j)) /\ WF_vars(Tick(j))
    /\ \A s \in Slots : SF_vars(Answer(s)) /\ SF_vars(PollArrives(s))

FairSpec == Spec /\ Fairness

----------------------------------------------------------------------------
(* Properties *)

\* No interval escapes the ref that stop() clears: the browser runs the current
\* one or none, through any order of start, reset, answers and leaving the page.
IntervalsTracked == intervals = {timer} \ {None}

\* A verdict on the page is the server's verdict on that very job, however old
\* the answer that brought it.
VerdictShownIsFinal ==
    shown.status \in TERMINAL => shown.job # None /\ status[shown.job] = shown.status

\* A job that is shown without a verdict is being polled.
PollingContinues ==
    mounted /\ shown.job # None /\ shown.status \notin TERMINAL => timer = shown.job

\* Which is so while answers are prompt, whatever polls and POSTs fail; and always
\* the browser runs the interval the hook can clear, and no other.
PollingTracked == IntervalsTracked /\ (prompt => PollingContinues)

\* While answers are prompt, whoever stays on the page gets to see the verdict of the job shown.
VerdictGetsShown ==
    \A j \in Jobs :
        prompt /\ shown.job = j ~> (shown.job = j /\ shown.status \in TERMINAL) \/ ~mounted

\* Polling ends some day, even when the page was left during a POST and start()
\* set an interval after the clean-up.
PollingEnds == <>[](intervals = {})
============================================================================
