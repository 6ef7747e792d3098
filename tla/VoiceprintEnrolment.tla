-------------------------- MODULE VoiceprintEnrolment --------------------------
(***************************************************************************)
(* Enrolling a voiceprint, the page's side                                 *)
(* (webapp/src/composables/useAutoVoiceprintEnrollment.ts with             *)
(* audio/browserVoiceprintCapture.ts), composed with EnrolmentServer.  A   *)
(* handler runs to its next await in one step.  A handler compares the     *)
(* attempt it belongs to with the attempt of the page: "fresh" holds the   *)
(* handlers for which they are equal.                                      *)
(***************************************************************************)
EXTENDS EnrolmentServer

CONSTANTS
    MaxSwitches     \* bound: the page is shown another case

VARIABLES
    page,       \* the variables of the composable and the store's voiceprintBusy
    fresh,      \* the handlers of the present attempt
    handler,    \* for each attempt, where its start, its stop and its abort are
    microphone, \* for each attempt, the lifecycle of its BrowserVoiceprintCapture
    leave,      \* where the change of case is
    failed,     \* history: captures that the page has given up because of a transport
    switches

pageVars == <<page, fresh, handler, microphone, leave, failed, switches>>
vars == <<serverVars, pageVars>>

Init ==
    /\ ServerInit
    /\ page = [active |-> Nobody, capture |-> Nobody, settling |-> FALSE,
               finalizing |-> FALSE, cancels |-> Nobody, busy |-> FALSE, polling |-> FALSE]
    /\ fresh = {}
    /\ handler = [k \in Starts |-> [start |-> "none", stop |-> "none", abort |-> "none",
                                    capture |-> Nobody]]
    /\ microphone = [k \in Starts |-> "none"]
    /\ leave = "none" /\ failed = {} /\ switches = 0

At(k, which, where) == handler' = [handler EXCEPT ![k][which] = where]

\* clearActive, as the page that it leaves
Cleared(p) == [p EXCEPT !.active = Nobody, !.settling = TRUE, !.finalizing = FALSE,
                        !.polling = FALSE]

\* BrowserVoiceprintCapture.beginFinalize
Finalize(c) == microphone' = [k \in Starts |-> IF k = c /\ microphone[k] = "streaming"
                                                THEN "finalizing" ELSE microphone[k]]

\* BrowserVoiceprintCapture.stop of the capture c: one that was acquired but never
\* started is STOPPED already, and its tracks are not stopped.
Close(c) ==
    LET closes(k) == k = c /\ microphone[k] \notin {"none", "ready", "stopped"} IN
    /\ microphone' = [k \in Starts |-> IF closes(k) THEN "stopped" ELSE microphone[k]]
    /\ channel' = [k \in Starts |-> IF closes(k) /\ channel[k] \in {"opening", "open"}
                                     THEN "closed" ELSE channel[k]]
    /\ leaving' = leaving \cup {k \in Starts : closes(k) /\ channel[k] \in {"opening", "open"}}

\* The capture that closeBrowserCapture(expected) closes: Nobody means that there is
\* no expectation.
Closes(p, expected) == IF expected \in {Nobody, p.capture} THEN p.capture ELSE Nobody
Without(p, c) == IF c = Nobody THEN p ELSE [p EXCEPT !.capture = Nobody]

AskCancel(by, c) == cancelling' = cancelling \cup {[by |-> by, of |-> c, at |-> "asked"]}
\* The answer to a cancellation; a page that waits no more leaves it to the server.
Cancelled(by) ==
    \E c \in {c \in cancelling : c.by = by} :
        \/ c.at = "done" /\ cancelling' = cancelling \ {c} /\ NoTrouble
        \/ /\ c.at # "done" /\ Trouble
           /\ cancelling' = (cancelling \ {c}) \cup {[c EXCEPT !.by = <<"none", c.of>>]}

server == <<mode, subject, current, complete, context, enrolled>>
--------------------------------------------------------------------------------
\* startSuspect, startOfficer
ClickStart(k) ==
    /\ ~page.busy /\ page.active = Nobody /\ page.cancels = Nobody
    /\ \A j \in Starts : handler[j].start = "none" <=> j >= k
    /\ fresh' = {<<"start", k>>}
    /\ page' = [page EXCEPT !.settling = FALSE, !.busy = TRUE]
    /\ At(k, "start", "choosing")
    /\ UNCHANGED <<serverVars, microphone, leave, failed, switches>>

\* The end of the catch and the finally of a start
GiveUp(k, p) ==
    /\ At(k, "start", "over")
    /\ Close(p.capture)
    /\ LET own == <<"start", k>> \in fresh
           q == [p EXCEPT !.capture = Nobody, !.busy = FALSE] IN
       /\ page' = IF own THEN Cleared(q) ELSE q
       /\ fresh' = IF own THEN {} ELSE fresh
\* The catch of a start: it first cancels whatever capture is active.
Fail(k) ==
    IF page.active = Nobody
    THEN GiveUp(k, page) /\ UNCHANGED cancelling
    ELSE /\ AskCancel(<<"start", k>>, page.active) /\ At(k, "start", "failing")
         /\ UNCHANGED <<page, fresh, microphone, channel, leaving>>

\* selectVoiceprintSource
Choose(k) ==
    /\ handler[k].start = "choosing"
    /\ \/ /\ At(k, "start", "asked") /\ NoTrouble
          /\ starting' = [starting EXCEPT ![k] = "asked"]
          /\ microphone' = IF mode = "BROWSER" THEN [microphone EXCEPT ![k] = "ready"]
                           ELSE microphone
          /\ UNCHANGED <<page, fresh, channel, leaving, cancelling>>
       \/ mode = "BROWSER" /\ Trouble /\ Fail(k) /\ UNCHANGED starting
    /\ UNCHANGED <<server, stopping, leave, failed, switches>>

\* The answer of start: nothing asks whether the attempt is still the page's.
StartAnswered(k) ==
    /\ handler[k].start = "asked"
    /\ \/ /\ starting[k] = "done" /\ NoTrouble
          /\ \/ /\ mode = "BROWSER" /\ At(k, "start", "attaching")
                /\ page' = [page EXCEPT !.active = k, !.capture = k]
                /\ microphone' = [microphone EXCEPT ![k] = "connecting"]
                /\ channel' = [channel EXCEPT ![k] = "opening"]
             \/ /\ mode = "ALSA" /\ At(k, "start", "over")
                /\ page' = [page EXCEPT !.active = k, !.polling = TRUE, !.busy = FALSE]
                /\ UNCHANGED <<microphone, channel>>
          /\ UNCHANGED <<fresh, leaving, cancelling>>
       \/ starting[k] = "refused" /\ NoTrouble /\ Fail(k)
       \/ Trouble /\ Fail(k)
    /\ UNCHANGED <<server, starting, stopping, leave, failed, switches>>

\* attachBrowserStream: the channel is open, or not.
Attach(k) ==
    /\ handler[k].start = "attaching" /\ microphone[k] = "connecting"
    /\ \/ /\ channel[k] = "open" /\ NoTrouble
          /\ microphone' = [microphone EXCEPT ![k] = "streaming"]
          /\ page' = [page EXCEPT !.polling = TRUE, !.busy = FALSE]
          /\ At(k, "start", "over") /\ UNCHANGED cancelling
       \/ /\ IF channel[k] \in {"refused", "closed"} THEN NoTrouble ELSE Trouble
          /\ microphone' = [microphone EXCEPT ![k] = "failed"]
          /\ AskCancel(<<"start", k>>, k)
          /\ At(k, "start", "detaching") /\ UNCHANGED page
    /\ UNCHANGED <<server, starting, stopping, channel, leaving, fresh, leave, failed,
                       switches>>

\* Its cancellation is answered, the capture closed, and the start goes to its catch.
Detach(k) ==
    /\ handler[k].start = "detaching" /\ Cancelled(<<"start", k>>)
    /\ LET c == Closes(page, k) IN Close(c) /\ page' = Without(page, c)
    /\ At(k, "start", "caught")
    /\ UNCHANGED <<server, starting, stopping, fresh, leave, failed, switches>>

Caught(k) ==
    /\ \/ handler[k].start = "caught" /\ Fail(k) /\ NoTrouble
       \/ handler[k].start = "failing" /\ Cancelled(<<"start", k>>) /\ GiveUp(k, page)
    /\ UNCHANGED <<server, starting, stopping, leave, failed, switches>>
--------------------------------------------------------------------------------
\* stopSuspect, stopOfficer: by the user, or by refreshProgress
Stop(k) ==
    /\ ~page.finalizing /\ page.active = k /\ handler[k].stop = "none"
    /\ page' = [page EXCEPT !.settling = TRUE, !.finalizing = TRUE, !.busy = TRUE,
                            !.polling = FALSE]
    /\ fresh' = fresh \cup {<<"stop", k>>}
    /\ handler' = [handler EXCEPT ![k].stop = "asked", ![k].capture = page.capture]
    /\ Finalize(page.capture)
    /\ stopping' = [stopping EXCEPT ![k] = Asked("asked")]
    /\ UNCHANGED <<server, starting, cancelling, channel, leaving, leave, failed, troubles,
                       switches>>

\* The answer of stop, or none; the transport is released on every path.
StopAnswered(k) ==
    /\ handler[k].stop = "asked"
    /\ IF stopping[k].at \in {"done", "refused"} THEN NoTrouble ELSE Trouble
    /\ handler' = [handler EXCEPT ![k].stop = "over", ![k].capture = Nobody]
    /\ LET own == <<"stop", k>> \in fresh
           p == IF own THEN Cleared(page) ELSE page
           c == Closes(p, handler[k].capture) IN
       /\ fresh' = IF own THEN {} ELSE fresh
       /\ Close(c)
       /\ page' = [Without(p, c) EXCEPT !.busy = FALSE]
    /\ UNCHANGED <<server, starting, stopping, cancelling, leave, failed, switches>>

--------------------------------------------------------------------------------
\* abortCurrent
Abort(c) ==
    /\ c # Nobody /\ page.active = c /\ ~page.settling /\ page.cancels = Nobody
    /\ fresh' = {<<"abort", c>>}
    /\ page' = [page EXCEPT !.active = Nobody, !.polling = FALSE, !.busy = TRUE,
                            !.cancels = c]
    /\ handler' = [handler EXCEPT ![c].abort = "asked", ![c].capture = page.capture]
    /\ AskCancel(<<"abort", c>>, c)
    /\ failed' = failed \cup {c}

Ignored == UNCHANGED <<fresh, page, handler, cancelling, failed>>

\* The socket closes, or the track ends, while the capture streams.
TransportFails(k) ==
    /\ microphone[k] = "streaming"
    /\ \/ channel[k] = "closed" /\ UNCHANGED <<channel, leaving>> /\ NoTrouble
       \/ /\ channel[k] = "open" /\ Trouble
          /\ channel' = [channel EXCEPT ![k] = "closed"] /\ leaving' = leaving \cup {k}
    /\ microphone' = [microphone EXCEPT ![k] = "failed"]
    /\ \/ page.capture = k /\ Abort(page.active)
       \/ /\ page.capture # k \/ page.active = Nobody \/ page.settling
             \/ page.cancels # Nobody
          /\ Ignored
    /\ UNCHANGED <<server, starting, stopping, leave, switches>>

\* refreshProgress cannot read the status.
PollFails ==
    /\ page.polling /\ page.active # Nobody /\ ~page.finalizing /\ Trouble
    /\ Abort(page.active) /\ Finalize(page.capture)
    /\ UNCHANGED <<server, starting, stopping, channel, leaving, leave, switches>>

\* Mutant: the buttons are released only together with a capture of the browser.
AbortAnsweredMutant(c) ==
    /\ handler[c].abort = "asked" /\ Cancelled(<<"abort", c>>)
    /\ handler' = [handler EXCEPT ![c].abort = "over", ![c].capture = Nobody]
    /\ LET shut == Closes(page, handler[c].capture) IN
       IF <<"abort", c>> \in fresh
       THEN /\ Close(shut)
            /\ page' = [Without(page, shut) EXCEPT !.cancels = Nobody, !.finalizing = FALSE,
                                                   !.busy = (shut = Nobody)]
       ELSE UNCHANGED <<page, microphone, channel, leaving>>
    /\ UNCHANGED <<server, starting, stopping, fresh, leave, failed, switches>>

\* The answer to the cancellation of an abort: one that is not the page's does nothing.
AbortAnswered(c) ==
    /\ handler[c].abort = "asked" /\ Cancelled(<<"abort", c>>)
    /\ handler' = [handler EXCEPT ![c].abort = "over", ![c].capture = Nobody]
    /\ LET shut == Closes(page, handler[c].capture) IN
       IF <<"abort", c>> \in fresh
       THEN /\ Close(shut)
            /\ page' = [Without(page, shut) EXCEPT !.cancels = Nobody, !.finalizing = FALSE,
                                                   !.busy = FALSE]
       ELSE UNCHANGED <<page, microphone, channel, leaving>>
    /\ UNCHANGED <<server, starting, stopping, fresh, leave, failed, switches>>
--------------------------------------------------------------------------------
\* The page is shown another case: dispose, then resetCaseContext.
Left(p) == /\ Close(p.capture) /\ leave' = "none"
           /\ page' = [p EXCEPT !.capture = Nobody, !.busy = FALSE]
Leave ==
    /\ leave = "none" /\ switches < MaxSwitches /\ switches' = switches + 1
    /\ fresh' = {}
    /\ IF page.active = Nobody
       THEN Left(Cleared(page)) /\ UNCHANGED cancelling
       ELSE /\ AskCancel(<<"leave", switches>>, page.active)
            /\ page' = Cleared(page) /\ leave' = "cancelling"
            /\ Finalize(page.capture) /\ UNCHANGED <<channel, leaving>>
    /\ UNCHANGED <<server, starting, stopping, handler, failed, troubles>>

LeaveAnswered ==
    /\ leave = "cancelling" /\ Cancelled(<<"leave", switches - 1>>) /\ Left(page)
    /\ UNCHANGED <<server, starting, stopping, fresh, handler, failed, switches>>
--------------------------------------------------------------------------------
Server ==
    /\ \/ \E k \in Starts : ServerStep(k)
       \/ \E c \in cancelling : CancelStep(c)
    /\ UNCHANGED pageVars
Sound == /\ \E k \in Starts \ complete : Frame(k) /\ microphone[k] = "streaming"
         /\ UNCHANGED pageVars
Page(k) == Choose(k) \/ StartAnswered(k) \/ Attach(k) \/ Detach(k) \/ Caught(k)
           \/ StopAnswered(k) \/ AbortAnswered(k)
User == (\E k \in Starts : ClickStart(k)) \/ (\E k \in Starts : Stop(k))
        \/ Leave
Transport == (\E k \in Starts : TransportFails(k)) \/ PollFails

Next == Server \/ Sound \/ User \/ Transport \/ LeaveAnswered \/ \E k \in Starts : Page(k)

Spec == Init /\ [][Next]_vars /\ WF_vars(Server) /\ WF_vars(LeaveAnswered)
        /\ \A k \in Starts : WF_vars(Page(k))
--------------------------------------------------------------------------------
\* Whatever the user and the network do between two requests, the audio that is
\* enrolled as somebody's voiceprint was recorded as this person's
\* (api/voiceprints.py, stop_suspect_enrollment and stop_officer_enrollment).
NoMixUp == \A e \in enrolled : subject[e[1]] = subject[e[2]]

\* A recording that the page has reported as failed is not enrolled by its stop
\* (useAutoVoiceprintEnrollment.ts:48-54: a transport that fails while the recording
\* is being stopped is not a failure).
FailedIsNotEnrolled == \A e \in enrolled : e[1] \notin failed

\* What is enrolled is a good recording of the right person: stop names no recording but
\* its own (useAutoVoiceprintEnrollment.stop, stop_suspect_enrollment).
EnrolledIsRight == NoMixUp /\ FailedIsNotEnrolled

\* The buttons do not stay locked, whichever of the requests fails, is late or is
\* overtaken by a change of case (useAutoVoiceprintEnrollment.ts:278-280).
BusyEnds == page.busy ~> ~page.busy

===============================================================================
