----------------------------- MODULE AsyncSlots -----------------------------
(***************************************************************************)
(* An AsyncSlot of the browser (async_slot.svelte.ts): the state of one    *)
(* operation that may be asked for again while it runs.  A call is named   *)
(* by an id; the slot's controller is the id of the call it waits for, and *)
(* the signal of any other call has been aborted.                          *)
(***************************************************************************)
EXTENDS Naturals

NoCall == 0

FreshSlot == [status |-> "initial", succeeded |-> FALSE, call |-> NoCall]

Loading(slot) == slot.status = "pending"

\* run: the call before it, if it is still out, has been superseded.
Run(slot, id) == [slot EXCEPT !.status = "pending", !.call = id]

Aborted(slot, id) == slot.call # id

Succeeded(slot) == [status |-> "success", succeeded |-> TRUE, call |-> NoCall]
Failed(slot) == [slot EXCEPT !.status = "failure", !.call = NoCall]

\* abort goes back to what the slot was before the calls that are out.
Abort(slot) ==
    IF slot.call = NoCall THEN slot
    ELSE [slot EXCEPT !.call = NoCall,
                      !.status = IF slot.succeeded THEN "success" ELSE "initial"]
=============================================================================
