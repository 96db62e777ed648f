------------------------------ MODULE Dashboard ------------------------------
(***************************************************************************)
(* The API process of the dashboard: its event feed and the two files it   *)
(* shares with the bot.  They meet only in the list of connections, which  *)
(* a PATCH of the flags broadcasts to, whatever the flags are              *)
(* (BroadcastControls); so a behaviour exercises one of the two.           *)
(***************************************************************************)
EXTENDS EventFeed, SharedFile

VARIABLE part

vars == <<part, feedVars, fileVars>>

Init ==
  /\ part \in {"events", "files"} /\ FeedInit /\ FileInit
  /\ part = "events" => which = "flags" /\ present

OnEvents == part = "events" /\ UNCHANGED <<part, fileVars>>
OnFiles == part = "files" /\ UNCHANGED <<part, feedVars>>

Next == (OnEvents /\ FeedNext) \/ (OnFiles /\ FileNext)

\* The event loop and its threads go on: handlers wake up, queries end, sends end.
Spec == Init /\ [][Next]_vars /\ \A c \in Conns : WF_vars(OnEvents /\ HandlerStep(c))

\* States of the two parts are well formed.
TypeOK == FeedTypeOK /\ FileTypeOK
=============================================================================
