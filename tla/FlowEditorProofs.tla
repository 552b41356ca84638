--------------------------- MODULE FlowEditorProofs ---------------------------
(***************************************************************************)
(* Theorems about FlowEditor, for any flows, any graph and any number of   *)
(* messages, frames and disturbances: contexts do not pile up, and what    *)
(* the user sees is the position he was told is ready.                     *)
(***************************************************************************)
EXTENDS FlowEditor, WellFoundedInduction, TLAPS

(* A message loop that received a message serves it, or says sorry.        *)
Inbox == inbox \in Seq(Message)

LEMMA MessageTypes ==
  ASSUME NEW m \in Message
  PROVE  m.type \in {"open", "inspect", "scroll", "other", "leave"}
  BY DEF Message

LEMMA ReceiveServes ==
  ASSUME Inbox, Receive
  PROVE  /\ inbox' \in Seq(Message)
         /\ job' \in {"stop", "goodbye", "sorry", "inspect", "scroll"}
<1>1. Head(inbox) \in Message /\ Tail(inbox) \in Seq(Message)
  BY DEF Inbox, Receive
<1>2. Head(inbox).type \in {"open", "inspect", "scroll", "other", "leave"}
  BY <1>1, MessageTypes
<1> QED
  BY <1>1, <1>2 DEF Receive

LEMMA InboxStays ==
  ASSUME Inbox, [Next]_vars
  PROVE  Inbox'
<1> USE DEF Inbox, jobVars, wsVars, Goto, HangUp
<1>0. (inbox' = inbox \/ inbox' = <<>>) => Inbox'
  <2>1. <<>> \in Seq(Message)
    OBVIOUS
  <2>2. CASE inbox' = <<>>
    BY <2>1, <2>2
  <2>3. CASE inbox' = inbox
    BY <2>3
  <2> QED
    BY <2>2, <2>3
<1>1. CASE Fetch \/ Resolve \/ Launch \/ Connect
  BY <1>1, <1>0 DEF Fetch, Resolve, Launch, Connect
<1>2. CASE StopScreencast \/ Drain \/ CloseContext \/ NewContext \/ NewPage
  BY <1>2, <1>0 DEF StopScreencast, Drain, CloseContext, NewContext, NewPage
<1>3. CASE Replay \/ StartScreencast \/ Ready \/ OpenFails
  BY <1>3, <1>0 DEF Replay, ReplayUpTo, StartScreencast, Ready, OpenFails
<1>4. CASE Receive
  BY <1>4, ReceiveServes
<1>5. CASE LoopEnds \/ Inspect \/ Scroll \/ SayError
  BY <1>5, <1>0 DEF LoopEnds, Inspect, Scroll, SayError
<1>6. CASE Goodbye \/ HandleFailure \/ FinallyStop \/ Clean
  BY <1>6, <1>0 DEF Goodbye, HandleFailure, FinallyStop, Clean
<1>7. ASSUME NEW f \in frames, SendFrame(f) PROVE Inbox'
  BY <1>7, <1>0 DEF SendFrame
<1>8. CASE SendFails \/ Raise \/ Cancel \/ UserHangsUp \/ Frame
  BY <1>8, <1>0 DEF SendFails, Raise, Cancel, UserHangsUp, Frame
<1>9. ASSUME NEW m \in Message, Send(m) PROVE Inbox'
  BY <1>9 DEF Send
<1>10. CASE UNCHANGED vars
  BY <1>10, <1>0 DEF vars
<1> QED
  BY <1>1, <1>2, <1>3, <1>4, <1>5, <1>6, <1>7, <1>8, <1>9, <1>10
  DEF Next, Job, Open, Sending, Environment

-----------------------------------------------------------------------------
(* NothingPilesUp is not inductive: NewContext opens a context, and only   *)
(* because the one before was closed, or is known to have leaked, is there *)
(* one at a time.                                                          *)
OneAtATime ==
  /\ contexts \subseteq {context} \union leaked
  /\ job = "context" => contexts \subseteq leaked
  /\ job \in {"fetch", "resolve", "done"} => contexts = {}
  /\ job \in {"fetch", "resolve", "clean", "done"} => cast = 0

LEMMA OneAtATimeStays ==
  ASSUME Inbox, OneAtATime, [Next]_vars
  PROVE  OneAtATime'
<1> USE DEF OneAtATime, jobVars, browserVars, castVars, Goto
<1>1. CASE Fetch \/ Resolve \/ Launch \/ Connect
  BY <1>1 DEF Fetch, Resolve, Launch, Connect
<1>2. CASE StopScreencast \/ Drain
  BY <1>2 DEF StopScreencast, Drain
<1>3. CASE CloseContext
  BY <1>3 DEF CloseContext
<1>4. CASE NewContext
  BY <1>4 DEF NewContext
<1>5. CASE NewPage \/ Replay
  BY <1>5 DEF NewPage, Replay, ReplayUpTo
<1>6. CASE StartScreencast \/ Ready \/ OpenFails
  BY <1>6 DEF StartScreencast, Ready, OpenFails
<1>7. CASE Receive
  BY <1>7, ReceiveServes DEF Receive
<1>8. CASE LoopEnds \/ Inspect \/ Scroll \/ SayError
  BY <1>8 DEF LoopEnds, Inspect, Scroll, SayError
<1>9. CASE Goodbye \/ HandleFailure \/ FinallyStop \/ Clean
  BY <1>9 DEF Goodbye, HandleFailure, FinallyStop, Clean
<1>10. ASSUME NEW f \in frames, SendFrame(f) PROVE OneAtATime'
  BY <1>10 DEF SendFrame
<1>11. CASE SendFails \/ Raise \/ Cancel \/ UserHangsUp \/ Frame
  BY <1>11 DEF SendFails, Raise, Cancel, UserHangsUp, Frame
<1>12. ASSUME NEW m \in Message, Send(m) PROVE OneAtATime'
  BY <1>12 DEF Send
<1>13. CASE UNCHANGED vars
  BY <1>13 DEF vars
<1> QED
  BY <1>1, <1>2, <1>3, <1>4, <1>5, <1>6, <1>7, <1>8, <1>9, <1>10, <1>11, <1>12, <1>13
  DEF Next, Job, Open, Sending, Environment

(* Only one browser context is open at a time, except for those that could *)
(* not be closed, and none when the job is over (open_position, finally).  *)
THEOREM ContextsDoNotPileUp == Spec => []NothingPilesUp
<1>1. Init => Inbox /\ OneAtATime
  BY DEF Init, Inbox, OneAtATime
<1>2. Inbox /\ OneAtATime /\ [Next]_vars => Inbox' /\ OneAtATime'
  BY InboxStays, OneAtATimeStays
<1>3. OneAtATime => NothingPilesUp
  BY DEF OneAtATime, NothingPilesUp
<1> QED
  BY <1>1, <1>2, <1>3, PTL DEF Spec

-----------------------------------------------------------------------------
(* FramesAreCurrent follows from the order in open_position: the cast is   *)
(* stopped, then drained, and started again only when nothing moves on the *)
(* page any more.                                                          *)
Moving == {"close", "context", "page", "replay", "cast"}

Drained ==
  /\ job \in {"drain"} \union Moving => cast = 0
  /\ job \in Moving /\ unstopped = {} => frames = {}
  /\ job = "ready" /\ unstopped = {} => frames \subseteq {at}
  /\ FramesAreCurrent

LEMMA DrainedStays ==
  ASSUME Inbox, Drained, [Next]_vars
  PROVE  Drained'
<1> USE DEF Drained, Moving, FramesAreCurrent, Idling, jobVars, browserVars, castVars, userVars, Goto
<1>1. CASE Fetch \/ Resolve \/ Launch \/ Connect
  BY <1>1 DEF Fetch, Resolve, Launch, Connect
<1>2. CASE StopScreencast \/ Drain
  BY <1>2 DEF StopScreencast, Drain
<1>3. CASE CloseContext \/ NewContext \/ NewPage
  BY <1>3 DEF CloseContext, NewContext, NewPage
<1>4. CASE Replay
  BY <1>4 DEF Replay, ReplayUpTo
<1>5. CASE StartScreencast \/ Ready
  BY <1>5 DEF StartScreencast, Ready
<1>6. CASE OpenFails
  BY <1>6 DEF OpenFails
<1>7. CASE Receive
  <2>1. job' \in {"stop", "goodbye", "sorry", "inspect", "scroll"} /\ job = "loop"
    BY <1>7, ReceiveServes DEF Receive
  <2>2. UNCHANGED <<at, cast, frames, unstopped, seen, confused>>
    BY <1>7 DEF Receive
  <2> QED
    BY <2>1, <2>2
<1>8. CASE LoopEnds \/ Inspect \/ Scroll \/ SayError
  BY <1>8 DEF LoopEnds, Inspect, Scroll, SayError
<1>9. CASE Goodbye \/ HandleFailure \/ FinallyStop \/ Clean
  BY <1>9 DEF Goodbye, HandleFailure, FinallyStop, Clean
<1>10. ASSUME NEW f \in frames, SendFrame(f) PROVE Drained'
  BY <1>10 DEF SendFrame
<1>11. CASE SendFails \/ Raise \/ Cancel \/ UserHangsUp
  BY <1>11 DEF SendFails, Raise, Cancel, UserHangsUp, TryPc, OpenPc
<1>12. CASE Frame
  BY <1>12 DEF Frame
<1>13. ASSUME NEW m \in Message, Send(m) PROVE Drained'
  BY <1>13 DEF Send
<1>14. CASE UNCHANGED vars
  BY <1>14 DEF vars
<1> QED
  BY <1>1, <1>2, <1>3, <1>4, <1>5, <1>6, <1>7, <1>8, <1>9, <1>10, <1>11, <1>12, <1>13, <1>14
  DEF Next, Job, Open, Sending, Environment

(* Whenever the user may pick elements, and was not sent an error since    *)
(* position.ready, what he has seen and what is on its way to him are      *)
(* frames of the position that was opened (_stop_screencast drains them),  *)
(* as long as every screencast could be stopped.                           *)
THEOREM FramesStayCurrent == Spec => []FramesAreCurrent
<1>1. Init => Inbox /\ Drained
  BY DEF Init, Inbox, Drained, Moving, FramesAreCurrent, Idling
<1>2. Inbox /\ Drained /\ [Next]_vars => Inbox' /\ Drained'
  BY InboxStays, DrainedStays
<1>3. Drained => FramesAreCurrent
  BY DEF Drained
<1> QED
  BY <1>1, <1>2, <1>3, PTL DEF Spec

-----------------------------------------------------------------------------
(* Types.                                                                  *)

LEMMA DisturbType ==
  ASSUME TypeOK, NEW d \in Disturbance, Disturb(d)
  PROVE  budget' \in [Disturbance -> Nat]
  BY DEF TypeOK, Disturb

LEMMA InitType == Init => TypeOK
<1> SUFFICES ASSUME Init PROVE TypeOK
  OBVIOUS
<1>1. flow \in Seq(Ids) /\ inbox \in Seq(Message)
  BY DEF Init
<1>2. serving \in BOOLEAN /\ confused \in BOOLEAN
  BY DEF Init
<1>3. contexts \subseteq 1 .. context /\ frames \subseteq Shown /\ leaked \subseteq 1 .. context
  BY DEF Init
<1>4. seen \in Shown /\ at \in Shown
  BY DEF Init, Shown, Nowhere
<1> QED
  BY <1>1, <1>2, <1>3, <1>4, EditorAssumption
  DEF Init, TypeOK, Pc, EditorAssumption

(* The types of what an action does not leave alone.                       *)
TypedJob == job \in Pc /\ flow \in Seq(Ids) /\ opening \in Position \union {Start}
            /\ serving \in BOOLEAN /\ budget \in [Disturbance -> Nat]
TypedSocket == ws \in {"none", "open", "gone", "closed"} /\ inbox \in Seq(Message)
TypedBrowser ==
  /\ contexts \subseteq 1 .. context /\ context \in Nat /\ page \in 0 .. context
  /\ at \in Shown /\ leaked \subseteq 1 .. context
TypedCast ==
  /\ cast \in {0, page} /\ frames \subseteq Shown
  /\ unstopped \subseteq [context : Nat, at : Shown]
TypedUser ==
  /\ told \in Position \union {Start} /\ seen \in Shown
  /\ asked \in Nat /\ answered \in Nat /\ confused \in BOOLEAN
Typed == TypedJob /\ TypedSocket /\ TypedBrowser /\ TypedCast /\ TypedUser

LEMMA TypedIsType == Typed <=> TypeOK
  BY DEF Typed, TypedJob, TypedSocket, TypedBrowser, TypedCast, TypedUser,
     TypeOK

LEMMA TypedJobStays ==
  ASSUME TypeOK, Typed, [Next]_vars
  PROVE  TypedJob'
<1> USE DEF jobVars, wsVars, browserVars, castVars, userVars, Goto, HangUp
<1> USE DEF Pc, TryPc, OpenPc
<1> USE DEF Typed, TypedJob
<1>1. CASE Fetch
  <2>1. \A f \in Flows : f \in Seq(Ids)
    BY EditorAssumption DEF EditorAssumption
  <2>2. flow' \in Seq(Ids)
    BY <1>1, <2>1 DEF Fetch
  <2> QED
    BY <1>1, <2>2, DisturbType DEF Fetch, Disturbance
<1>2. CASE Resolve
  BY <1>2 DEF Resolve
<1>3. CASE Launch
  BY <1>3 DEF Launch
<1>4. CASE Connect
  <2>1. serving' \in BOOLEAN
    BY <1>4 DEF Connect
  <2> QED
    BY <1>4, <2>1 DEF Connect
<1>5. CASE StopScreencast
  BY <1>5, DisturbType DEF StopScreencast, Disturbance
<1>6. CASE Drain
  BY <1>6 DEF Drain
<1>7. CASE CloseContext
  BY <1>7, DisturbType DEF CloseContext, Disturbance
<1>8. CASE NewContext
  BY <1>8 DEF NewContext
<1>9. CASE NewPage
  BY <1>9 DEF NewPage
<1>10. CASE Replay
  BY <1>10 DEF Replay, ReplayUpTo
<1>11. CASE StartScreencast
  BY <1>11 DEF StartScreencast
<1>12. CASE Ready
  BY <1>12 DEF Ready
<1>13. CASE OpenFails
  BY <1>13, DisturbType DEF OpenFails, Disturbance
<1>14. CASE Receive
  <2>1. job' \in {"stop", "goodbye", "sorry", "inspect", "scroll"}
    BY <1>14, ReceiveServes DEF Inbox, TypedSocket
  <2>2. Head(inbox) \in Message
    BY <1>14 DEF Receive, TypedSocket
  <2>3. Head(inbox).to \in Position \union {Start}
    BY <2>2 DEF Message
  <2>4. opening' \in Position \union {Start}
    BY <1>14, <2>3 DEF Receive
  <2>5. serving' \in BOOLEAN
    BY <1>14 DEF Receive
  <2> QED
    BY <1>14, <2>1, <2>4, <2>5 DEF Receive
<1>15. CASE LoopEnds
  BY <1>15 DEF LoopEnds
<1>16. CASE Inspect
  BY <1>16 DEF Inspect
<1>17. CASE Scroll
  BY <1>17 DEF Scroll
<1>18. CASE SayError
  BY <1>18 DEF SayError
<1>19. CASE Goodbye
  BY <1>19 DEF Goodbye
<1>20. CASE HandleFailure
  BY <1>20 DEF HandleFailure
<1>21. CASE FinallyStop
  BY <1>21 DEF FinallyStop
<1>22. CASE Clean
  BY <1>22 DEF Clean
<1>23. CASE SendFails
  BY <1>23 DEF SendFails
<1>24. CASE Raise
  BY <1>24, DisturbType DEF Raise, Disturbance
<1>25. CASE Cancel
  BY <1>25, DisturbType DEF Cancel, Disturbance
<1>26. CASE UserHangsUp
  BY <1>26, DisturbType DEF UserHangsUp, Disturbance
<1>27. CASE Frame
  BY <1>27 DEF Frame
<1>28. ASSUME NEW f \in frames, SendFrame(f) PROVE TypedJob'
  BY <1>28 DEF SendFrame
<1>29. ASSUME NEW m \in Message, Send(m) PROVE TypedJob'
  BY <1>29, DisturbType DEF Send, Disturbance
<1>30. CASE UNCHANGED vars
  BY <1>30 DEF vars
<1> QED
  BY <1>1, <1>2, <1>3, <1>4, <1>5, <1>6, <1>7, <1>8, <1>9, <1>10, <1>11,
     <1>12, <1>13, <1>14, <1>15, <1>16, <1>17, <1>18, <1>19, <1>20, <1>21,
     <1>22, <1>23, <1>24, <1>25, <1>26, <1>27, <1>28, <1>29, <1>30
  DEF Next, Job, Open, Sending, Environment

LEMMA TypedSocketStays ==
  ASSUME TypeOK, Typed, [Next]_vars
  PROVE  TypedSocket'
<1>0. <<>> \in Seq(Message)
  OBVIOUS
<1> USE DEF jobVars, wsVars, browserVars, castVars, userVars, Goto, HangUp
<1> USE DEF Pc, TryPc, OpenPc
<1> USE DEF Typed, TypedSocket
<1>1. CASE Fetch
  BY <1>1, <1>0 DEF Fetch
<1>2. CASE Resolve
  BY <1>2, <1>0 DEF Resolve
<1>3. CASE Launch
  BY <1>3, <1>0 DEF Launch
<1>4. CASE Connect
  BY <1>4, <1>0 DEF Connect
<1>5. CASE StopScreencast
  BY <1>5, <1>0 DEF StopScreencast
<1>6. CASE Drain
  BY <1>6, <1>0 DEF Drain
<1>7. CASE CloseContext
  BY <1>7, <1>0 DEF CloseContext
<1>8. CASE NewContext
  BY <1>8, <1>0 DEF NewContext
<1>9. CASE NewPage
  BY <1>9, <1>0 DEF NewPage
<1>10. CASE Replay
  BY <1>10, <1>0 DEF Replay, ReplayUpTo
<1>11. CASE StartScreencast
  BY <1>11, <1>0 DEF StartScreencast
<1>12. CASE Ready
  BY <1>12, <1>0 DEF Ready
<1>13. CASE OpenFails
  BY <1>13, <1>0 DEF OpenFails
<1>14. CASE Receive
  BY <1>14, <1>0, ReceiveServes DEF Receive, Inbox
<1>15. CASE LoopEnds
  BY <1>15, <1>0 DEF LoopEnds
<1>16. CASE Inspect
  BY <1>16, <1>0 DEF Inspect
<1>17. CASE Scroll
  BY <1>17, <1>0 DEF Scroll
<1>18. CASE SayError
  BY <1>18, <1>0 DEF SayError
<1>19. CASE Goodbye
  BY <1>19, <1>0 DEF Goodbye
<1>20. CASE HandleFailure
  BY <1>20, <1>0 DEF HandleFailure
<1>21. CASE FinallyStop
  BY <1>21, <1>0 DEF FinallyStop
<1>22. CASE Clean
  BY <1>22, <1>0 DEF Clean
<1>23. CASE SendFails
  BY <1>23, <1>0 DEF SendFails
<1>24. CASE Raise
  BY <1>24, <1>0 DEF Raise
<1>25. CASE Cancel
  BY <1>25, <1>0 DEF Cancel
<1>26. CASE UserHangsUp
  BY <1>26, <1>0 DEF UserHangsUp
<1>27. CASE Frame
  BY <1>27, <1>0 DEF Frame
<1>28. ASSUME NEW f \in frames, SendFrame(f) PROVE TypedSocket'
  BY <1>28, <1>0 DEF SendFrame
<1>29. ASSUME NEW m \in Message, Send(m) PROVE TypedSocket'
  BY <1>29, <1>0 DEF Send
<1>30. CASE UNCHANGED vars
  BY <1>30, <1>0 DEF vars
<1> QED
  BY <1>1, <1>2, <1>3, <1>4, <1>5, <1>6, <1>7, <1>8, <1>9, <1>10, <1>11,
     <1>12, <1>13, <1>14, <1>15, <1>16, <1>17, <1>18, <1>19, <1>20, <1>21,
     <1>22, <1>23, <1>24, <1>25, <1>26, <1>27, <1>28, <1>29, <1>30
  DEF Next, Job, Open, Sending, Environment

LEMMA TypedBrowserStays ==
  ASSUME TypeOK, Typed, [Next]_vars
  PROVE  TypedBrowser'
<1> USE DEF jobVars, wsVars, browserVars, castVars, userVars, Goto, HangUp
<1> USE DEF Pc, TryPc, OpenPc
<1> USE DEF Typed, TypedBrowser
<1>1. CASE Fetch
  BY <1>1 DEF Fetch
<1>2. CASE Resolve
  BY <1>2 DEF Resolve
<1>3. CASE Launch
  BY <1>3 DEF Launch
<1>4. CASE Connect
  BY <1>4 DEF Connect
<1>5. CASE StopScreencast
  BY <1>5 DEF StopScreencast
<1>6. CASE Drain
  BY <1>6 DEF Drain
<1>7. CASE CloseContext
  <2>1. UNCHANGED <<context, page, at>> /\ contexts' \subseteq contexts
    BY <1>7 DEF CloseContext
  <2>2. leaked' = leaked \/ (leaked' = leaked \union {context} /\ context \in contexts)
    BY <1>7 DEF CloseContext
  <2> QED
    BY <2>1, <2>2
<1>8. CASE NewContext
  <2>1. context' \in Nat /\ page' = page /\ at' = at /\ leaked' = leaked
    BY <1>8 DEF NewContext
  <2>2. contexts' = contexts \union {context + 1} /\ context' = context + 1
    BY <1>8 DEF NewContext
  <2> QED
    BY <2>1, <2>2
<1>9. CASE NewPage
  BY <1>9 DEF NewPage, Beginning, Shown
<1>10. CASE Replay
  <2>1. at' \in Shown
    BY <1>10 DEF Replay, ReplayUpTo, Shown, TypedBrowser
  <2> QED
    BY <1>10, <2>1 DEF Replay, ReplayUpTo
<1>11. CASE StartScreencast
  BY <1>11 DEF StartScreencast
<1>12. CASE Ready
  BY <1>12 DEF Ready
<1>13. CASE OpenFails
  BY <1>13 DEF OpenFails
<1>14. CASE Receive
  BY <1>14 DEF Receive
<1>15. CASE LoopEnds
  BY <1>15 DEF LoopEnds
<1>16. CASE Inspect
  BY <1>16 DEF Inspect
<1>17. CASE Scroll
  BY <1>17 DEF Scroll
<1>18. CASE SayError
  BY <1>18 DEF SayError
<1>19. CASE Goodbye
  BY <1>19 DEF Goodbye
<1>20. CASE HandleFailure
  BY <1>20 DEF HandleFailure
<1>21. CASE FinallyStop
  BY <1>21 DEF FinallyStop
<1>22. CASE Clean
  BY <1>22 DEF Clean
<1>23. CASE SendFails
  BY <1>23 DEF SendFails
<1>24. CASE Raise
  BY <1>24 DEF Raise
<1>25. CASE Cancel
  BY <1>25 DEF Cancel
<1>26. CASE UserHangsUp
  BY <1>26 DEF UserHangsUp
<1>27. CASE Frame
  BY <1>27 DEF Frame
<1>28. ASSUME NEW f \in frames, SendFrame(f) PROVE TypedBrowser'
  BY <1>28 DEF SendFrame
<1>29. ASSUME NEW m \in Message, Send(m) PROVE TypedBrowser'
  BY <1>29 DEF Send
<1>30. CASE UNCHANGED vars
  BY <1>30 DEF vars
<1> QED
  BY <1>1, <1>2, <1>3, <1>4, <1>5, <1>6, <1>7, <1>8, <1>9, <1>10, <1>11,
     <1>12, <1>13, <1>14, <1>15, <1>16, <1>17, <1>18, <1>19, <1>20, <1>21,
     <1>22, <1>23, <1>24, <1>25, <1>26, <1>27, <1>28, <1>29, <1>30
  DEF Next, Job, Open, Sending, Environment

LEMMA TypedCastStays ==
  ASSUME TypeOK, Typed, Drained, [Next]_vars
  PROVE  TypedCast'
<1> USE DEF jobVars, wsVars, browserVars, castVars, userVars, Goto, HangUp
<1> USE DEF Pc, TryPc, OpenPc
<1> USE DEF Typed, TypedCast
<1>1. CASE Fetch
  BY <1>1 DEF Fetch
<1>2. CASE Resolve
  BY <1>2 DEF Resolve
<1>3. CASE Launch
  BY <1>3 DEF Launch
<1>4. CASE Connect
  BY <1>4 DEF Connect
<1>5. CASE StopScreencast
  BY <1>5 DEF StopScreencast, TypedBrowser
<1>6. CASE Drain
  BY <1>6 DEF Drain
<1>7. CASE CloseContext
  BY <1>7 DEF CloseContext
<1>8. CASE NewContext
  BY <1>8 DEF NewContext
<1>9. CASE NewPage
  BY <1>9 DEF NewPage, Drained, Moving
<1>10. CASE Replay
  BY <1>10 DEF Replay, ReplayUpTo
<1>11. CASE StartScreencast
  BY <1>11 DEF StartScreencast
<1>12. CASE Ready
  BY <1>12 DEF Ready
<1>13. CASE OpenFails
  BY <1>13 DEF OpenFails
<1>14. CASE Receive
  BY <1>14 DEF Receive
<1>15. CASE LoopEnds
  BY <1>15 DEF LoopEnds
<1>16. CASE Inspect
  BY <1>16 DEF Inspect
<1>17. CASE Scroll
  BY <1>17 DEF Scroll
<1>18. CASE SayError
  BY <1>18 DEF SayError
<1>19. CASE Goodbye
  BY <1>19 DEF Goodbye
<1>20. CASE HandleFailure
  BY <1>20 DEF HandleFailure
<1>21. CASE FinallyStop
  BY <1>21 DEF FinallyStop
<1>22. CASE Clean
  BY <1>22 DEF Clean
<1>23. CASE SendFails
  BY <1>23 DEF SendFails
<1>24. CASE Raise
  BY <1>24 DEF Raise
<1>25. CASE Cancel
  BY <1>25 DEF Cancel
<1>26. CASE UserHangsUp
  BY <1>26 DEF UserHangsUp
<1>27. CASE Frame
  BY <1>27 DEF Frame, TypedBrowser
<1>28. ASSUME NEW f \in frames, SendFrame(f) PROVE TypedCast'
  BY <1>28 DEF SendFrame
<1>29. ASSUME NEW m \in Message, Send(m) PROVE TypedCast'
  BY <1>29 DEF Send
<1>30. CASE UNCHANGED vars
  BY <1>30 DEF vars
<1> QED
  BY <1>1, <1>2, <1>3, <1>4, <1>5, <1>6, <1>7, <1>8, <1>9, <1>10, <1>11,
     <1>12, <1>13, <1>14, <1>15, <1>16, <1>17, <1>18, <1>19, <1>20, <1>21,
     <1>22, <1>23, <1>24, <1>25, <1>26, <1>27, <1>28, <1>29, <1>30
  DEF Next, Job, Open, Sending, Environment

LEMMA TypedUserStays ==
  ASSUME TypeOK, Typed, [Next]_vars
  PROVE  TypedUser'
<1> USE DEF jobVars, wsVars, browserVars, castVars, userVars, Goto, HangUp
<1> USE DEF Pc, TryPc, OpenPc
<1> USE DEF Typed, TypedUser
<1>1. CASE Fetch
  BY <1>1 DEF Fetch
<1>2. CASE Resolve
  BY <1>2 DEF Resolve
<1>3. CASE Launch
  BY <1>3 DEF Launch
<1>4. CASE Connect
  BY <1>4 DEF Connect
<1>5. CASE StopScreencast
  BY <1>5 DEF StopScreencast
<1>6. CASE Drain
  BY <1>6 DEF Drain
<1>7. CASE CloseContext
  BY <1>7 DEF CloseContext
<1>8. CASE NewContext
  BY <1>8 DEF NewContext
<1>9. CASE NewPage
  BY <1>9 DEF NewPage
<1>10. CASE Replay
  BY <1>10 DEF Replay, ReplayUpTo
<1>11. CASE StartScreencast
  BY <1>11 DEF StartScreencast
<1>12. CASE Ready
  <2>1. confused' \in BOOLEAN
    BY <1>12 DEF Ready
  <2>2. told' \in Position \union {Start} /\ seen' \in Shown
    BY <1>12 DEF Ready, TypedJob, TypedBrowser
  <2>3. asked' \in Nat /\ answered' \in Nat
    BY <1>12 DEF Ready, Answer
  <2> QED
    BY <2>1, <2>2, <2>3
<1>13. CASE OpenFails
  BY <1>13 DEF OpenFails
<1>14. CASE Receive
  BY <1>14 DEF Receive
<1>15. CASE LoopEnds
  BY <1>15 DEF LoopEnds
<1>16. CASE Inspect
  BY <1>16 DEF Inspect, Answer
<1>17. CASE Scroll
  BY <1>17 DEF Scroll
<1>18. CASE SayError
  <2>1. confused' \in BOOLEAN
    BY <1>18 DEF SayError
  <2>2. UNCHANGED <<told, seen, asked>> /\ answered' \in Nat
    BY <1>18 DEF SayError, Answer
  <2> QED
    BY <2>1, <2>2
<1>19. CASE Goodbye
  BY <1>19 DEF Goodbye
<1>20. CASE HandleFailure
  BY <1>20 DEF HandleFailure
<1>21. CASE FinallyStop
  BY <1>21 DEF FinallyStop
<1>22. CASE Clean
  BY <1>22 DEF Clean
<1>23. CASE SendFails
  BY <1>23 DEF SendFails
<1>24. CASE Raise
  BY <1>24 DEF Raise
<1>25. CASE Cancel
  BY <1>25 DEF Cancel
<1>26. CASE UserHangsUp
  BY <1>26 DEF UserHangsUp
<1>27. CASE Frame
  BY <1>27 DEF Frame
<1>28. ASSUME NEW f \in frames, SendFrame(f) PROVE TypedUser'
  BY <1>28 DEF SendFrame, TypedCast
<1>29. ASSUME NEW m \in Message, Send(m) PROVE TypedUser'
  BY <1>29 DEF Send
<1>30. CASE UNCHANGED vars
  BY <1>30 DEF vars
<1> QED
  BY <1>1, <1>2, <1>3, <1>4, <1>5, <1>6, <1>7, <1>8, <1>9, <1>10, <1>11,
     <1>12, <1>13, <1>14, <1>15, <1>16, <1>17, <1>18, <1>19, <1>20, <1>21,
     <1>22, <1>23, <1>24, <1>25, <1>26, <1>27, <1>28, <1>29, <1>30
  DEF Next, Job, Open, Sending, Environment

(* Every state is typed, frames are drained, and contexts come one at a    *)
(* time.                                                                   *)
LEMMA TypedAndDrained == Spec => [](TypeOK /\ Inbox /\ Drained)
<1>1. Init => TypeOK /\ Inbox /\ Drained
  <2>1. Init => Inbox /\ Drained
    BY DEF Init, Inbox, Drained, Moving, FramesAreCurrent, Idling
  <2> QED
    BY <2>1, InitType
<1>2. TypeOK /\ Inbox /\ Drained /\ [Next]_vars => (TypeOK /\ Inbox /\ Drained)'
  <2> SUFFICES ASSUME TypeOK, Inbox, Drained, [Next]_vars
               PROVE  TypeOK' /\ Inbox' /\ Drained'
    OBVIOUS
  <2>1. Typed
    BY TypedIsType
  <2>2. Typed'
    BY <2>1, TypedJobStays, TypedSocketStays, TypedBrowserStays, TypedCastStays,
       TypedUserStays DEF Typed
  <2>3. TypeOK'
    BY <2>2 DEF Typed, TypedJob, TypedSocket, TypedBrowser, TypedCast,
       TypedUser, TypeOK
  <2> QED
    BY <2>3, InboxStays, DrainedStays
<1> QED
  BY <1>1, <1>2, PTL DEF Spec

-----------------------------------------------------------------------------
(* What is shown.                                                          *)

(* Every set of numbers has a smallest one, so that a transition that the  *)
(* flow passes has a first place.                                          *)
LEMMA LeastNumber ==
  ASSUME NEW S \in SUBSET Nat, S # {}
  PROVE  \E n \in S : \A m \in S : n <= m
<1> DEFINE Below == OpToRel(<, Nat)
<1>1. IsWellFoundedOn(Below, Nat)
  BY NatLessThanWellFounded, Zenon
<1>2. PICK n \in S : \A m \in S : ~(<<m, n>> \in Below)
  <2> HIDE DEF Below
  <2> QED
    BY <1>1, WFMin, Zenon
<1>3. \A m \in S : ~(m < n)
  BY <1>2 DEF OpToRel
<1> QED
  BY <1>3

LEMMA TransitionIndexIsFirst ==
  ASSUME flow \in Seq(Ids), NEW id, \E i \in DOMAIN flow : flow[i] = id
  PROVE  /\ TransitionIndex(id) \in 1 .. Len(flow)
         /\ flow[TransitionIndex(id)] = id
         /\ \A j \in 1 .. TransitionIndex(id) - 1 : flow[j] # id
<1> DEFINE Places == {i \in DOMAIN flow : flow[i] = id}
<1>1. DOMAIN flow = 1 .. Len(flow) /\ Len(flow) \in Nat
  OBVIOUS
<1>2. PICK n \in Places : \A m \in Places : n <= m
  <2>1. Places \in SUBSET Nat /\ Places # {}
    BY <1>1
  <2> QED
    BY <2>1, LeastNumber
<1>3. n \in DOMAIN flow /\ flow[n] = id
  BY <1>2
<1>4. \A j \in 1 .. n - 1 : flow[j] # id
  <2> TAKE j \in 1 .. n - 1
  <2>1. j \in DOMAIN flow /\ ~(n <= j)
    BY <1>1, <1>3
  <2> QED
    BY <1>2, <2>1
<1>5. /\ TransitionIndex(id) \in DOMAIN flow
      /\ flow[TransitionIndex(id)] = id
      /\ \A j \in 1 .. TransitionIndex(id) - 1 : flow[j] # id
  BY <1>3, <1>4 DEF TransitionIndex
<1> QED
  BY <1>1, <1>5

(* A replay ends where the position is.                                    *)
Reached(p) == InFlow(p) /\ at.n = ReplayCount(p) /\ at.i = 0

(* On its way to the position a replay passes no transition that it means, *)
(* and starts none that comes after it.                                    *)
OnItsWay ==
  /\ job = "page" => context \in contexts
  /\ job \in {"replay", "cast", "ready"} => page = context /\ page \in contexts
  /\ job = "replay" /\ InFlow(opening) =>
       at.n <= ReplayCount(opening) /\ (at.n = ReplayCount(opening) => at.i = 0)
  /\ job \in {"cast", "ready"} => Reached(opening)
  /\ job = "ready" => cast = page
  /\ Idling => page \in contexts /\ cast = page /\ Reached(told)

LEMMA ReplayCountType ==
  ASSUME TypeOK, NEW p \in Position \union {Start}, InFlow(p)
  PROVE  ReplayCount(p) \in 0 .. Len(flow)
<1>1. flow \in Seq(Ids) /\ Len(flow) \in Nat
  BY DEF TypeOK
<1>2. CASE p = Start
  BY <1>1, <1>2 DEF ReplayCount
<1>3. CASE p # Start
  <2>1. TransitionIndex(p.id) \in 1 .. Len(flow)
    BY <1>1, <1>3, TransitionIndexIsFirst DEF InFlow
  <2> QED
    BY <1>1, <1>3, <2>1 DEF ReplayCount
<1> QED
  BY <1>2, <1>3

(* The index as a function of the flow, which tells what it depends on.    *)
FirstPlace(f, id) == CHOOSE i \in DOMAIN f : f[i] = id /\ \A j \in 1 .. i - 1 : f[j] # id

LEMMA PositionsStay ==
  ASSUME flow' = flow
  PROVE  /\ opening' = opening => /\ ReplayCount(opening)' = ReplayCount(opening)
                                  /\ InFlow(opening)' = InFlow(opening)
         /\ told' = told => /\ ReplayCount(told)' = ReplayCount(told)
                            /\ InFlow(told)' = InFlow(told)
         /\ told' = opening => /\ ReplayCount(told)' = ReplayCount(opening)
                               /\ InFlow(told)' = InFlow(opening)
<1>1. /\ TransitionIndex(opening.id) = FirstPlace(flow, opening.id)
      /\ TransitionIndex(told.id) = FirstPlace(flow, told.id)
      /\ TransitionIndex(opening.id)' = FirstPlace(flow', opening'.id)
      /\ TransitionIndex(told.id)' = FirstPlace(flow', told'.id)
  BY DEF TransitionIndex, FirstPlace
<1>2. ASSUME opening' = opening
      PROVE  /\ ReplayCount(opening)' = ReplayCount(opening)
             /\ InFlow(opening)' = InFlow(opening)
  BY <1>1, <1>2 DEF ReplayCount, InFlow, Start
<1>3. ASSUME told' = told
      PROVE  /\ ReplayCount(told)' = ReplayCount(told)
             /\ InFlow(told)' = InFlow(told)
  BY <1>1, <1>3 DEF ReplayCount, InFlow, Start
<1>4. ASSUME told' = opening
      PROVE  /\ ReplayCount(told)' = ReplayCount(opening)
             /\ InFlow(told)' = InFlow(opening)
  BY <1>1, <1>4 DEF ReplayCount, InFlow, Start
<1> QED
  BY <1>2, <1>3, <1>4

LEMMA OnItsWayStays ==
  ASSUME TypeOK, Inbox, Drained, OnItsWay, [Next]_vars
  PROVE  OnItsWay'
<1>0. TypeOK /\ Inbox
  OBVIOUS
<1> USE DEF jobVars, wsVars, browserVars, castVars, userVars, Goto, HangUp
<1> USE DEF Pc, TryPc, OpenPc
<1> USE DEF OnItsWay, Idling, Reached
<1>1. CASE Fetch
  BY <1>1, <1>0, PositionsStay DEF Fetch
<1>2. CASE Resolve
  BY <1>2, <1>0, PositionsStay DEF Resolve
<1>3. CASE Launch
  BY <1>3, <1>0, PositionsStay DEF Launch
<1>4. CASE Connect
  BY <1>4, <1>0, PositionsStay DEF Connect
<1>5. CASE StopScreencast
  BY <1>5, <1>0, PositionsStay DEF StopScreencast
<1>6. CASE Drain
  BY <1>6, <1>0, PositionsStay DEF Drain
<1>7. CASE CloseContext
  BY <1>7, <1>0, PositionsStay DEF CloseContext
<1>8. CASE NewContext
  BY <1>8, <1>0, PositionsStay DEF NewContext
<1>9. CASE NewPage
  <2>1. UNCHANGED <<flow, opening, contexts, context>> /\ job' = "replay"
    BY <1>9 DEF NewPage
  <2>2. InFlow(opening) => ReplayCount(opening) \in Nat
    BY <1>0, ReplayCountType DEF TypeOK
  <2>3. page' = context /\ context \in contexts /\ at' = Beginning
    BY <1>9 DEF NewPage
  <2> QED
    BY <2>1, <2>2, <2>3, PositionsStay DEF Beginning
<1>10. CASE Replay
  <2>1. UNCHANGED <<flow, opening, serving, contexts, context, page, cast, told, confused>>
    BY <1>10 DEF Replay, ReplayUpTo
  <2>2. InFlow(opening) /\ opening \in Position \union {Start} /\ at \in Shown
    BY <1>10, <1>0 DEF Replay, TypeOK
  <2>3. ReplayCount(opening) \in Nat
    BY <2>2, <1>0, ReplayCountType DEF TypeOK
  <2>4. at.n <= ReplayCount(opening) /\ (at.n = ReplayCount(opening) => at.i = 0)
    BY <1>10, <2>2 DEF Replay
  <2>5. CASE at.n = ReplayCount(opening)
    BY <1>10, <2>1, <2>2, <2>4, <2>5, PositionsStay DEF Replay, ReplayUpTo
  <2>6. CASE at.n # ReplayCount(opening)
    <3>1. job' = "replay" /\ (at' = [n |-> at.n + 1, i |-> 0] \/ at' = [at EXCEPT !.i = @ + 1])
      BY <1>10, <2>6 DEF Replay, ReplayUpTo
    <3>2. at'.n <= ReplayCount(opening) /\ (at'.n = ReplayCount(opening) => at'.i = 0)
      BY <2>2, <2>3, <2>4, <2>6, <3>1 DEF Shown
    <3> QED
      BY <1>10, <2>1, <3>1, <3>2, PositionsStay DEF Replay
  <2> QED
    BY <2>5, <2>6
<1>11. CASE StartScreencast
  BY <1>11, <1>0, PositionsStay DEF StartScreencast
<1>12. CASE Ready
  BY <1>12, <1>0, PositionsStay DEF Ready
<1>13. CASE OpenFails
  BY <1>13, <1>0, PositionsStay DEF OpenFails
<1>14. CASE Receive
  <2>1. job' \in {"stop", "goodbye", "sorry", "inspect", "scroll"} /\ job = "loop"
    BY <1>14, <1>0, ReceiveServes DEF Receive
  <2>2. UNCHANGED <<flow, contexts, page, at, cast, told, confused>>
    BY <1>14 DEF Receive
  <2> QED
    BY <2>1, <2>2, PositionsStay
<1>15. CASE LoopEnds
  BY <1>15, <1>0, PositionsStay DEF LoopEnds
<1>16. CASE Inspect
  BY <1>16, <1>0, PositionsStay DEF Inspect
<1>17. CASE Scroll
  BY <1>17, <1>0, PositionsStay DEF Scroll
<1>18. CASE SayError
  BY <1>18, <1>0, PositionsStay DEF SayError
<1>19. CASE Goodbye
  BY <1>19, <1>0, PositionsStay DEF Goodbye
<1>20. CASE HandleFailure
  BY <1>20, <1>0, PositionsStay DEF HandleFailure
<1>21. CASE FinallyStop
  BY <1>21, <1>0, PositionsStay DEF FinallyStop
<1>22. CASE Clean
  BY <1>22, <1>0, PositionsStay DEF Clean
<1>23. CASE SendFails
  BY <1>23, <1>0, PositionsStay DEF SendFails
<1>24. CASE Raise
  BY <1>24, <1>0, PositionsStay DEF Raise
<1>25. CASE Cancel
  BY <1>25, <1>0, PositionsStay DEF Cancel
<1>26. CASE UserHangsUp
  BY <1>26, <1>0, PositionsStay DEF UserHangsUp
<1>27. CASE Frame
  BY <1>27, <1>0, PositionsStay DEF Frame
<1>28. ASSUME NEW f \in frames, SendFrame(f) PROVE OnItsWay'
  BY <1>28, <1>0, PositionsStay DEF SendFrame
<1>29. ASSUME NEW m \in Message, Send(m) PROVE OnItsWay'
  BY <1>29, <1>0, PositionsStay DEF Send
<1>30. CASE UNCHANGED vars
  BY <1>30, <1>0, PositionsStay DEF vars
<1> QED
  BY <1>1, <1>2, <1>3, <1>4, <1>5, <1>6, <1>7, <1>8, <1>9, <1>10, <1>11,
     <1>12, <1>13, <1>14, <1>15, <1>16, <1>17, <1>18, <1>19, <1>20, <1>21,
     <1>22, <1>23, <1>24, <1>25, <1>26, <1>27, <1>28, <1>29, <1>30
  DEF Next, Job, Open, Sending, Environment

(* Requests that wait for their answer: at most the one that is served.    *)
Owed ==
  /\ job \in {"fetch", "resolve", "launch", "connect", "loop", "scroll"} => answered = asked
  /\ job \in OpenPc => asked = (IF serving THEN answered + 1 ELSE answered)
  /\ job \in {"inspect", "sorry"} => serving /\ asked = answered + 1

LEMMA OwedStays ==
  ASSUME TypeOK, Inbox, Owed, [Next]_vars
  PROVE  Owed'
<1>0. Inbox /\ asked \in Nat /\ answered \in Nat /\ serving \in BOOLEAN
  BY DEF TypeOK
<1> USE DEF jobVars, wsVars, browserVars, castVars, userVars, Goto, HangUp
<1> USE DEF Pc, TryPc, OpenPc
<1> USE DEF Owed
<1>1. CASE Fetch
  BY <1>1, <1>0 DEF Fetch
<1>2. CASE Resolve
  BY <1>2, <1>0 DEF Resolve
<1>3. CASE Launch
  BY <1>3, <1>0 DEF Launch
<1>4. CASE Connect
  BY <1>4, <1>0 DEF Connect
<1>5. CASE StopScreencast
  BY <1>5, <1>0 DEF StopScreencast
<1>6. CASE Drain
  BY <1>6, <1>0 DEF Drain
<1>7. CASE CloseContext
  BY <1>7, <1>0 DEF CloseContext
<1>8. CASE NewContext
  BY <1>8, <1>0 DEF NewContext
<1>9. CASE NewPage
  BY <1>9, <1>0 DEF NewPage
<1>10. CASE Replay
  BY <1>10, <1>0 DEF Replay, ReplayUpTo
<1>11. CASE StartScreencast
  BY <1>11, <1>0 DEF StartScreencast
<1>12. CASE Ready
  BY <1>12, <1>0 DEF Ready, Answer
<1>13. CASE OpenFails
  BY <1>13, <1>0 DEF OpenFails
<1>14. CASE Receive
  <2>1. Head(inbox) \in Message
    BY <1>14, <1>0 DEF Receive, Inbox
  <2>2. Head(inbox).type \in {"open", "inspect", "scroll", "other", "leave"}
    BY <2>1, MessageTypes
  <2>3. serving' = TRUE /\ answered' = answered
    BY <1>14 DEF Receive
  <2>4. \/ job' \in {"stop", "inspect", "sorry"} /\ asked' = asked + 1
        \/ job' = "scroll" /\ asked' = asked
        \/ job' = "goodbye"
    BY <1>14, <2>2 DEF Receive
  <2>5. asked = answered
    BY <1>14 DEF Receive
  <2> QED
    BY <2>3, <2>4, <2>5
<1>15. CASE LoopEnds
  BY <1>15, <1>0 DEF LoopEnds
<1>16. CASE Inspect
  BY <1>16, <1>0 DEF Inspect, Answer
<1>17. CASE Scroll
  BY <1>17, <1>0 DEF Scroll
<1>18. CASE SayError
  BY <1>18, <1>0 DEF SayError, Answer
<1>19. CASE Goodbye
  BY <1>19, <1>0 DEF Goodbye
<1>20. CASE HandleFailure
  BY <1>20, <1>0 DEF HandleFailure
<1>21. CASE FinallyStop
  BY <1>21, <1>0 DEF FinallyStop
<1>22. CASE Clean
  BY <1>22, <1>0 DEF Clean
<1>23. CASE SendFails
  BY <1>23, <1>0 DEF SendFails
<1>24. CASE Raise
  BY <1>24, <1>0 DEF Raise
<1>25. CASE Cancel
  BY <1>25, <1>0 DEF Cancel
<1>26. CASE UserHangsUp
  BY <1>26, <1>0 DEF UserHangsUp
<1>27. CASE Frame
  BY <1>27, <1>0 DEF Frame
<1>28. ASSUME NEW f \in frames, SendFrame(f) PROVE Owed'
  BY <1>28, <1>0 DEF SendFrame
<1>29. ASSUME NEW m \in Message, Send(m) PROVE Owed'
  BY <1>29, <1>0 DEF Send
<1>30. CASE UNCHANGED vars
  BY <1>30, <1>0 DEF vars
<1> QED
  BY <1>1, <1>2, <1>3, <1>4, <1>5, <1>6, <1>7, <1>8, <1>9, <1>10, <1>11,
     <1>12, <1>13, <1>14, <1>15, <1>16, <1>17, <1>18, <1>19, <1>20, <1>21,
     <1>22, <1>23, <1>24, <1>25, <1>26, <1>27, <1>28, <1>29, <1>30
  DEF Next, Job, Open, Sending, Environment

(* A replay that reached the position shows what the user was told.        *)
LEMMA ReachedIsShown ==
  ASSUME TypeOK, OnItsWay
  PROVE  ToldIsShown
<1> SUFFICES ASSUME Idling
             PROVE  /\ page \in contexts /\ cast = page /\ at.i = 0
                    /\ told = Start => at.n = 0
                    /\ told # Start /\ told.edge = "before" => flow[at.n + 1] = told.id
                    /\ told # Start /\ told.edge = "after" => flow[at.n] = told.id
                    /\ \A k \in 1 .. at.n : flow[k] = told.id => told.edge = "after" /\ k = at.n
  BY DEF ToldIsShown
<1>1. page \in contexts /\ cast = page /\ Reached(told)
  BY DEF OnItsWay
<1>2. flow \in Seq(Ids) /\ told \in Position \union {Start}
  BY DEF TypeOK
<1>3. CASE told = Start
  BY <1>1, <1>3 DEF Reached, ReplayCount
<1>4. CASE told # Start
  <2>1. told.edge \in {"before", "after"} /\ \E i \in DOMAIN flow : flow[i] = told.id
    BY <1>1, <1>2, <1>4 DEF Reached, InFlow, Position
  <2>2. PICK k \in 1 .. Len(flow) : /\ k = TransitionIndex(told.id) /\ flow[k] = told.id
                                    /\ \A j \in 1 .. k - 1 : flow[j] # told.id
    BY <1>2, <2>1, TransitionIndexIsFirst
  <2>3. at.i = 0 /\ at.n = IF told.edge = "before" THEN k - 1 ELSE k
    BY <1>1, <1>4, <2>2 DEF Reached, ReplayCount
  <2> QED
    BY <1>1, <1>4, <2>1, <2>2, <2>3
<1> QED
  BY <1>3, <1>4

(* The user knows where he is, whatever fails on the way: what he was told *)
(* is what is shown, all transitions up to the first one with its id and   *)
(* none after, and every request is answered once.                         *)
THEOREM UsersAreAnswered == Spec => []UserIsAnswered
<1>1. Init => OnItsWay /\ Owed
  BY DEF Init, OnItsWay, Owed, Idling, OpenPc
<1>2. Spec => [](OnItsWay /\ Owed)
  BY <1>1, OnItsWayStays, OwedStays, TypedAndDrained, PTL DEF Spec
<1>3. TypeOK /\ OnItsWay /\ Owed => UserIsAnswered
  BY ReachedIsShown DEF UserIsAnswered, RequestsAreAnswered, Owed
<1> QED
  BY <1>2, <1>3, TypedAndDrained, PTL
=============================================================================
