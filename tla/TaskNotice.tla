----------------------------- MODULE TaskNotice -----------------------------
(***************************************************************************)
(* What the background-task machinery promises a session about each task:  *)
(* once the task has ended, exactly one notice of it is owed to the model; *)
(* the notice is given once, or the host's own hook refuses it, or it      *)
(* lapses because the session itself is going away.  Nothing is said here  *)
(* about queues, engines or turns.                                         *)
(***************************************************************************)

CONSTANT Tasks

VARIABLES
  stage,    \* how far each task and its notice have come
  leaving   \* the session has begun to go away

noticeVars == <<stage, leaving>>

Stages == {"unborn", "running", "owed", "told", "refused", "lapsed"}

NoticeInit == stage = [t \in Tasks |-> "unborn"] /\ leaving = FALSE

Start(t) == stage[t] = "unborn" /\ stage' = [stage EXCEPT ![t] = "running"] /\ UNCHANGED leaving

(***************************************************************************)
(* Some tasks end and some notices are given in one step of the session    *)
(* (a sweep ends many); a notice lapses only in a session that is leaving. *)
(***************************************************************************)
Advance ==
  /\ stage' \in [Tasks -> Stages]
  /\ leaving' \in {leaving, TRUE}
  /\ \A t \in Tasks :
       <<stage[t], stage'[t]>> \in
         {<<s, s>> : s \in Stages}
           \cup {<<"running", "owed">>, <<"running", "told">>, <<"owed", "told">>, <<"owed", "refused">>}
           \cup (IF leaving' THEN {<<"running", "lapsed">>, <<"owed", "lapsed">>} ELSE {})

NoticeNext == (\E t \in Tasks : Start(t)) \/ Advance

NoticeSpec == NoticeInit /\ [][NoticeNext]_noticeVars

=============================================================================
