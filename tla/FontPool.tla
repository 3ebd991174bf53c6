------------------------------- MODULE FontPool --------------------------------
(***************************************************************************)
(* What the font manager promises its callers, whatever lists it keeps: a   *)
(* pool of fonts, each made for one request.  Handles on equal requests     *)
(* share one font; a font nobody holds may be spared for the next request,  *)
(* a bounded number of them; only a font nobody holds is ever destroyed;    *)
(* and no font is made while one for the same request exists.               *)
(***************************************************************************)
EXTENDS Naturals, FiniteSets

CONSTANTS Handles, Fonts, Requests, Limit, Empty

VARIABLES
    held,    \* [Handles -> Fonts or Empty]
    made,    \* [Fonts -> Requests or Empty]: the fonts that exist
    spare    \* the fonts that exist and nobody holds

poolVars == <<held, made, spare>>

PoolInit ==
    /\ held = [h \in Handles |-> Empty]
    /\ made = [f \in Fonts |-> Empty]
    /\ spare = {}

Hold(h, f) == held[h] = Empty /\ held' = [held EXCEPT ![h] = f]
Holders(f) == {h \in Handles : held[h] = f}

\* Another handle on a font that is held.
Share(h, f) ==
    /\ Holders(f) # {}
    /\ Hold(h, f)
    /\ UNCHANGED <<made, spare>>

\* A spare font is held again.
Reuse(h, f) ==
    /\ f \in spare
    /\ Hold(h, f)
    /\ spare' = spare \ {f}
    /\ UNCHANGED made

\* A font is made for a request no font exists for.
Make(h, f, request) ==
    /\ made[f] = Empty
    /\ \A g \in Fonts : made[g] # request
    /\ made' = [made EXCEPT ![f] = request]
    /\ Hold(h, f)
    /\ UNCHANGED spare

\* The call that asks: whichever way, the font is the one of the request.
Acquire(h, f, request) ==
    /\ Share(h, f) \/ Reuse(h, f) \/ Make(h, f, request)
    /\ made'[f] = request

\* A handle is given back.  The last one leaves a spare font or none; fonts
\* that nobody holds then may be destroyed, and the spare ones stay few.
Idle(h) == spare \cup {f \in Fonts : Holders(f) = {h}}
Release(h) ==
    /\ held[h] # Empty
    /\ held' = [held EXCEPT ![h] = Empty]
    /\ \E gone \in SUBSET Idle(h) :
         /\ spare' = Idle(h) \ gone
         /\ made' = [f \in Fonts |-> IF f \in gone THEN Empty ELSE made[f]]
    /\ Cardinality(spare') <= Limit

\* The pool is closed when nobody holds a font.
Close ==
    /\ \A h \in Handles : held[h] = Empty
    /\ spare' = {}
    /\ made' = [f \in Fonts |-> Empty]
    /\ UNCHANGED held

PoolNext ==
    \/ \E h \in Handles, f \in Fonts, request \in Requests : Acquire(h, f, request)
    \/ \E h \in Handles : Release(h)
    \/ Close

PoolSpec == PoolInit /\ [][PoolNext]_poolVars
================================================================================
