---------------------------- MODULE SetupSession ----------------------------
(* The setup wizard between the browser and the executor: the answers, the plan  *)
(* built from them that the person reviews, the credentials that become answers  *)
(* only by their own check, and the one run at a time that applies or undoes.    *)
(* Requests are handled concurrently; a check that talks to Telegram holds no    *)
(* lock.  The executor itself is SetupApply's.                                   *)
EXTENDS Naturals

CONSTANTS Choices,         \* what the other answers may be
          Chats,           \* bot tokens, each with its chat
          MaxFaces, MaxActs, MaxRuns,    \* bounds: the host's states, what people do, runs
          MaxAttempts      \* MAX_TOTP_ATTEMPTS

VARIABLES host,       \* what discovery would find
          discovery,  \* what it found last, 0 before it ran
          answers,    \* [choice, telegram, operator]
          reviewed,   \* the plan shown, or none
          phase, applied,
          run,        \* the run's thread: [at, kind, plan]
          chat,       \* the pending chat
          test,       \* request -> the pair its test message goes to
          enrol,      \* the pending enrolment: [secret, failures]
          proof,      \* request -> the enrolment its code proved
          proven,     \* what Telegram took, and what a right code was for (history)
          acts, runs
sessionVars == <<host, discovery, answers, reviewed, phase, applied, run, chat, test,
                 enrol, proof, proven, acts, runs>>

None == 0
NoPlan == [found |-> 0, with |-> [choice |-> None, telegram |-> None, operator |-> None]]
Idle == [at |-> "none", kind |-> "none", plan |-> NoPlan]
Requests == 1..2
Act == acts < MaxActs /\ acts' = acts + 1
Plan(found, with) == [found |-> found, with |-> with]

Init == /\ host = 1 /\ discovery = 0
        /\ answers = [choice |-> None, telegram |-> None, operator |-> None]
        /\ reviewed = NoPlan /\ phase = "idle" /\ applied = NoPlan
        /\ run = Idle /\ chat = None /\ test = [r \in Requests |-> None]
        /\ enrol = [secret |-> 0, failures |-> 0, last |-> 0] /\ proof = [r \in Requests |-> 0]
        /\ proven = {} /\ acts = 0 /\ runs = 0

Found == discovery' = IF discovery = 0 THEN host ELSE discovery
RunDiscover == /\ discovery' = host /\ reviewed' = NoPlan
               /\ UNCHANGED <<host, answers, phase, applied, run, chat, test, enrol, proof,
                              proven, acts, runs>>

(* set_answers, one locked section whoever calls it; the answers as they would be then may *)
(* not validate, and are left as they are                                                   *)
Merge(key, value) == /\ answers' = [answers EXCEPT ![key] = value] /\ Found /\ reviewed' = NoPlan
Reject == Found /\ UNCHANGED <<answers, reviewed>>
(* The browser's generic call sets the plain answers, and clears a credential at most *)
SetAnswers ==
  /\ Act
  /\ \/ \E c \in Choices : Merge("choice", c)
     \/ \E key \in {"telegram", "operator"} : answers[key] # None /\ Merge(key, None)
     \/ Reject
  /\ UNCHANGED <<host, phase, applied, run, chat, test, enrol, proof, proven, runs>>
Complete(with) == with.choice # None
BuildPlan == /\ Complete(answers) /\ Found
             /\ reviewed' = Plan(discovery', answers)
             /\ UNCHANGED <<host, answers, phase, applied, run, chat, test, enrol, proof,
                            proven, acts, runs>>

-----------------------------------------------------------------------------
(* Runs.  Approving is refused while one is under way and once one is done. *)
Running == phase \in {"applying", "undoing"}
Begin(kind, plan) ==
  /\ runs < MaxRuns /\ runs' = runs + 1
  /\ phase' = kind
  /\ run' = [at |-> "begun", kind |-> kind, plan |-> plan]
  /\ UNCHANGED <<host, discovery, answers, reviewed, chat, test, enrol, proof, proven, acts>>
Approve == /\ ~Running /\ phase \notin {"done", "undone"} /\ reviewed # NoPlan
           /\ applied' = reviewed /\ Begin("applying", reviewed)
Retry == /\ phase \in {"stopped", "refused"} /\ Begin("applying", applied) /\ UNCHANGED applied
Undo == /\ ~Running /\ applied # NoPlan /\ Begin("undoing", applied) /\ UNCHANGED applied
(* _replan: the host discovered again, and the answers of this moment; the plan must come *)
(* out the same.                                                                             *)
Replan(plan) == Plan(host, answers)
Starts == /\ run.at = "begun" /\ run.kind = "applying"
          /\ run' = [run EXCEPT !.at = IF Replan(run.plan) = run.plan THEN "changing" ELSE "refused"]
          /\ UNCHANGED <<host, discovery, answers, reviewed, phase, applied, chat, test,
                         enrol, proof, proven, acts, runs>>
(* The executor's own outcome, an undo's too; what it did to the host is for discovery to find *)
Ends == /\ run.at = "changing" \/ (run.at = "begun" /\ run.kind = "undoing")
        /\ \E to \in {"done", "stopped"} : run' = [run EXCEPT !.at = to]
        /\ host' \in {host, host + 1} /\ host' <= MaxFaces
        /\ UNCHANGED <<discovery, answers, reviewed, phase, applied, chat, test,
                       enrol, proof, proven, acts, runs>>
Finish == /\ run.at \in {"done", "stopped", "refused"}
          /\ phase' = IF run.kind = "applying" THEN run.at
                      ELSE IF run.at = "done" THEN "undone" ELSE "undo_stopped"
          /\ run' = Idle
          /\ UNCHANGED <<host, discovery, answers, reviewed, applied, chat, test, enrol, proof,
                         proven, acts, runs>>

-----------------------------------------------------------------------------
(* Telegram: the bot's chat is found, a test message sent to it, and then it is the answer *)
Elsewhere == UNCHANGED <<host, phase, applied, run, runs>>
TelegramFind == /\ chat' \in Chats \cup {None}
                /\ UNCHANGED <<acts, discovery, answers, reviewed, test, enrol, proof, proven>> /\ Elsewhere
TelegramTest(r) == /\ test[r] = None /\ chat # None /\ Act
                   /\ test' = [test EXCEPT ![r] = chat]
                   /\ UNCHANGED <<discovery, answers, reviewed, chat, enrol, proof, proven>> /\ Elsewhere
TestedPair(r) == test[r]
Sent(r) == /\ test[r] # None
           /\ \/ /\ proven' = proven \cup {<<"telegram", test[r]>>}
                 /\ Merge("telegram", TestedPair(r)) \/ Reject
                 /\ chat' = None
              \/ UNCHANGED <<proven, discovery, answers, reviewed, chat>>
           /\ test' = [test EXCEPT ![r] = None]
           /\ UNCHANGED <<acts, enrol, proof>> /\ Elsewhere

(* The operator's account: a new secret each time; a code proves the one pending, and only *)
(* so many wrong ones are looked at.                                                          *)
TotpBegin == /\ Act
             /\ enrol' = [secret |-> enrol.last + 1, failures |-> 0, last |-> enrol.last + 1]
             /\ UNCHANGED <<discovery, answers, reviewed, chat, test, proof, proven>> /\ Elsewhere
TotpVerify(r) ==
  /\ proof[r] = 0 /\ enrol.secret # 0 /\ enrol.failures < MaxAttempts
  /\ \/ enrol' = [enrol EXCEPT !.failures = @ + 1] /\ UNCHANGED <<proof, proven>>
     \/ /\ proof' = [proof EXCEPT ![r] = enrol.secret]
        /\ proven' = proven \cup {<<"operator", enrol.secret>>} /\ UNCHANGED enrol
  /\ UNCHANGED <<acts, discovery, answers, reviewed, chat, test>> /\ Elsewhere
TotpKeep(r) == /\ proof[r] # 0 /\ proof' = [proof EXCEPT ![r] = 0]
               /\ \/ Merge("operator", proof[r]) /\ enrol' = [enrol EXCEPT !.secret = 0]
                  \/ Reject /\ UNCHANGED enrol
               /\ UNCHANGED <<acts, chat, test, proven>> /\ Elsewhere

HostChanges == /\ host < MaxFaces /\ host' = host + 1
               /\ UNCHANGED <<discovery, answers, reviewed, phase, applied, run, chat, test,
                              enrol, proof, proven, acts, runs>>
Next == \/ RunDiscover \/ SetAnswers \/ BuildPlan \/ Approve \/ Retry \/ Undo \/ Starts \/ Ends
        \/ Finish \/ TelegramFind \/ TotpBegin \/ HostChanges
        \/ \E r \in Requests : TelegramTest(r) \/ Sent(r) \/ TotpVerify(r) \/ TotpKeep(r)
Spec == Init /\ [][Next]_sessionVars

-----------------------------------------------------------------------------
(* A credential among the answers went through its own check as it stands: the message was *)
(* sent with this very token, the code was this very secret's, whatever was looked up or     *)
(* enrolled meanwhile.                                                                        *)
AnswersAreProven == \A key \in {"telegram", "operator"} :
  answers[key] # None => <<key, answers[key]>> \in proven
(* The plan that may be approved was built from the answers there are and from the host    *)
(* as it was last discovered: a credential proved in another request, one cleared, or the  *)
(* host looked at again, and it must be reviewed again.  What has happened to the host     *)
(* since is found out when the run starts, and refuses it.                                 *)
ReviewIsCurrent == reviewed # NoPlan => reviewed = Plan(discovery, answers)
=============================================================================
