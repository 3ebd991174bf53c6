------------------------------ MODULE TaskAgenda -------------------------------
(***************************************************************************)
(* What the tasks around a refresh promise, whatever lists, flags and       *)
(* passes there are: two agendas.  A task that is handed in is due until    *)
(* it runs, is cancelled or the agendas are dropped; the first of those     *)
(* due runs next, once; a cancel takes all tasks of its key and no other.   *)
(***************************************************************************)
EXTENDS Naturals, Sequences

CONSTANTS Agendas, Keys

VARIABLES
    due,      \* [Agendas -> set of tasks with number and key]
    done,     \* [Agendas -> sequence of the numbers run]
    count     \* tasks handed in

agendaVars == <<due, done, count>>

AgendaInit ==
    /\ due = [a \in Agendas |-> {}]
    /\ done = [a \in Agendas |-> <<>>]
    /\ count = 0

HandIn(a, key) ==
    /\ count' = count + 1
    /\ due' = [due EXCEPT ![a] = @ \cup {[id |-> count + 1, key |-> key]}]
    /\ UNCHANGED done

Run(a) ==
    \E task \in due[a] :
        /\ \A other \in due[a] : task.id <= other.id
        /\ due' = [due EXCEPT ![a] = @ \ {task}]
        /\ done' = [done EXCEPT ![a] = Append(@, task.id)]
        /\ UNCHANGED count

Withdraw(a, key) ==
    /\ due' = [due EXCEPT ![a] = {task \in @ : task.key # key}]
    /\ UNCHANGED <<done, count>>

DropAll ==
    /\ due' = [a \in Agendas |-> {}]
    /\ UNCHANGED <<done, count>>

AgendaNext ==
    \/ \E a \in Agendas, key \in Keys : HandIn(a, key) \/ Withdraw(a, key)
    \/ \E a \in Agendas : Run(a)
    \/ DropAll

AgendaSpec == AgendaInit /\ [][AgendaNext]_agendaVars
================================================================================
