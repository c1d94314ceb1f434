---------------------------- MODULE LivePreview -----------------------------
(* The phone beside the dashboard pages (components/dashboard/LivePreview): *)
(* it asks the server for the menu whenever one of its inputs changes and   *)
(* shows the last payload that belongs to the menu it is given.  The module *)
(* has no state of its own: a page that carries the phone keeps its record  *)
(* in a variable and applies these operators to it.                         *)
EXTENDS Naturals

CONSTANT None      \* no menu, no payload

(* waiting: the request of the running effect; answer: what it brought;     *)
(* payload, failure: the last of each, with the menu it belongs to; stale:  *)
(* the database changed after the newest answer was taken and the page had  *)
(* no way to know (history, for the properties).                            *)
NoPayload == [menu |-> None, content |-> None]

Empty == [waiting |-> "no", answer |-> None, payload |-> NoPayload, failure |-> None, stale |-> FALSE]

(* The effect starts over: the cleanup cancels the request before it.  With *)
(* no menu nothing is asked.                                                *)
Refetch(v, menu) ==
  IF menu = None THEN Empty
  ELSE [v EXCEPT !.waiting = "sent", !.answer = None, !.failure = None]

(* The server reads the menu, or the request fails.                        *)
Answered(v, content) == [v EXCEPT !.waiting = "answered", !.answer = content, !.stale = FALSE]
Failed(v) == [v EXCEPT !.waiting = "failed"]

Landed(v, menu) ==
  CASE v.waiting = "answered" ->
         [v EXCEPT !.waiting = "no", !.answer = None, !.payload = [menu |-> menu, content |-> v.answer]]
    [] v.waiting = "failed" -> [v EXCEPT !.waiting = "no", !.failure = menu]

(* What fills the screen of the phone.  A payload or a failure of another   *)
(* menu counts as nothing at all; a payload stays through a failed refetch.  *)
HasPayload(v, menu) == menu # None /\ v.payload.menu = menu

PhoneShows(v, menu) ==
  CASE menu = None -> "placeholder"
    [] HasPayload(v, menu) -> "menu"
    [] menu # None /\ v.payload.menu # menu /\ v.failure = menu -> "error"
    [] OTHER -> "spinner"

(* The one-line note under the phone.                                      *)
ShowsOldNote(v, menu) == HasPayload(v, menu) /\ v.failure = menu
=============================================================================
