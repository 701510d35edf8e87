------------------------------ MODULE Reactor ------------------------------
(***************************************************************************)
(* A reactor of the single application build (src/lib/fusion/reactor.c,    *)
(* src/lib/fusion/fusion.c) and the interfaces that attach to it, such as  *)
(* IDirectFBWindow (src/src/windows/idirectfbwindow.c).                    *)
(*                                                                         *)
(* One thread walks through the list of reactions with                     *)
(* direct_list_foreach_safe(), holding the lock of the list; it is the     *)
(* event dispatcher for local reactions and the thread that calls          *)
(* fusion_reactor_dispatch() for global ones.  Owners attach and detach    *)
(* their reactions under the same lock, which is recursive.  A reaction    *)
(* that gets the message about the end of the object returns RS_REMOVE.    *)
(***************************************************************************)
EXTENDS Naturals, Sequences, FiniteSets

CONSTANTS
    NULL,
    Reactions,
    Setups,         \* the kinds of reactor and of reactions considered
    MaxMsgs         \* bound on the messages

AllSetups == [global : BOOLEAN,     \* the global reactions, else the local ones
              nested : BOOLEAN,     \* may a reaction detach another one?
              destroys : BOOLEAN]   \* does a last message end the object?

ASSUME ReactorAssumption ==
    /\ NULL \notin Reactions
    /\ Setups \subseteq AllSetups
    /\ MaxMsgs \in Nat

VARIABLES
    setup,          \* chosen once
    list,           \* reactor->reactions (reactor->globals)
    posted,         \* messages dispatched so far
    done,           \* messages the walking thread is through with
    walking,        \* the walking thread holds the lock
    elem, temp,     \* of direct_list_foreach_safe()
    removing,       \* the reaction of elem has returned RS_REMOVE
    owner,          \* owner[r]: the interface that embeds reaction r
    gone,           \* interfaces with data->detached (attached unset)
    due,            \* reactions in the list from the start of the walk on
    called,         \* reactions called in this walk
    twice           \* reactions that were removed when not in the list

vars == <<setup, list, posted, done, walking, elem, temp, removing, owner, gone, due,
          called, twice>>

walk == <<done, walking, elem, temp, removing, called>>

Global == setup.global

InList == {list[i] : i \in DOMAIN list}

(* direct_list_remove(): the link is taken out of the list. *)
Without(s, r) ==
    IF \E i \in DOMAIN s : s[i] = r
    THEN LET i == CHOOSE i \in DOMAIN s : s[i] = r
         IN  SubSeq(s, 1, i - 1) \o SubSeq(s, i + 1, Len(s))
    ELSE s

Distinct(s) == \A i, j \in DOMAIN s : s[i] = s[j] => i = j

(* link->next; direct_list_remove() clears it. *)
After(s, r) ==
    IF \E i \in 1 .. Len(s) - 1 : s[i] = r
    THEN s[1 + CHOOSE i \in 1 .. Len(s) - 1 : s[i] = r] ELSE NULL

First(s) == IF s = <<>> THEN NULL ELSE Head(s)

TypeOK ==
    /\ setup \in Setups
    /\ list \in Seq(Reactions) /\ Distinct(list)
    /\ posted \in 0..MaxMsgs /\ done \in 0..posted
    /\ walking \in BOOLEAN /\ removing \in BOOLEAN
    /\ elem \in Reactions \cup {NULL} /\ temp \in Reactions \cup {NULL}
    /\ owner \in [Reactions -> {"new", "attached", "detaching", "freeing", "freed"}]
    /\ gone \subseteq Reactions /\ due \subseteq Reactions
    /\ called \subseteq Reactions /\ twice \subseteq Reactions

Init ==
    /\ setup \in Setups
    /\ list = <<>> /\ posted = 0 /\ done = 0
    /\ walking = FALSE /\ elem = NULL /\ temp = NULL /\ removing = FALSE
    /\ owner = [r \in Reactions |-> "new"] /\ gone = {}
    /\ due = {} /\ called = {} /\ twice = {}

(* fusion_reactor_dispatch() *)
Dispatch ==
    /\ posted < MaxMsgs
    /\ posted' = posted + 1
    /\ UNCHANGED <<setup, list, walk, owner, gone, due, twice>>

Last == setup.destroys /\ done + 1 = MaxMsgs

Locked == walking

(* fusion_reactor_attach_channel(), fusion_reactor_attach_global() *)
Attach(r) ==
    /\ owner[r] = "new" /\ ~Locked
    /\ list' = <<r>> \o list
    /\ owner' = [owner EXCEPT ![r] = "attached"]
    /\ UNCHANGED <<setup, posted, walk, gone, due, twice>>

(* IDirectFBWindow_Destruct(): "if (!data->detached)"; global reactions    *)
(* are always detached.                                                    *)
Release(r) ==
    /\ owner[r] = "attached"
    /\ owner' = [owner EXCEPT ![r] =
                    IF r \in gone /\ ~Global THEN "freeing" ELSE "detaching"]
    /\ UNCHANGED <<setup, list, posted, walk, gone, due, twice>>

(* Mutated form of Takes: "attached" is not looked at. *)
TakesAnyway(r) == TRUE

(* fusion_reactor_detach_global(): "if (reaction->attached)" *)
Takes(r) == Global => r \notin gone

(* Mutated form of MayDetach: without the lock. *)
MayDetachAtOnce(r) == owner[r] = "detaching"

MayDetach(r) == owner[r] = "detaching" /\ ~Locked

(* fusion_reactor_detach(), fusion_reactor_detach_global() *)
Detach(r) ==
    /\ MayDetach(r)
    /\ owner' = [owner EXCEPT ![r] = "freeing"]
    /\ IF Takes(r)
       THEN /\ list' = Without(list, r)
            /\ twice' = IF r \in InList THEN twice ELSE twice \cup {r}
       ELSE UNCHANGED <<list, twice>>
    /\ due' = due \ {r}
    /\ UNCHANGED <<setup, posted, walk, gone>>

(* The interface, and the reaction in it, is deallocated. *)
Free(r) ==
    /\ owner[r] = "freeing"
    /\ owner' = [owner EXCEPT ![r] = "freed"]
    /\ UNCHANGED <<setup, list, posted, walk, gone, due, twice>>

-----------------------------------------------------------------------------
(* The next message, the lock and the start of the list *)
Start ==
    /\ ~walking /\ done < posted
    /\ walking' = TRUE
    /\ elem' = First(list) /\ temp' = After(list, First(list))
    /\ due' = InList /\ called' = {}
    /\ UNCHANGED <<setup, list, posted, done, removing, owner, gone, twice>>

(* Mutated form of Proceed: direct_list_foreach() goes on from the link    *)
(* that was removed.                                                       *)
ProceedUnsafely(l) ==
    /\ elem' = After(l, elem)
    /\ temp' = After(l, After(l, elem))

(* elem = temp, temp = temp->next *)
Proceed(l) ==
    /\ elem' = temp
    /\ temp' = After(l, temp)

(* elem's function is called and returns RS_OK; a nested detach of d may   *)
(* happen in it.  It waits for nobody: what reactions lock is their own.   *)
CallOK ==
    /\ walking /\ elem # NULL /\ ~removing /\ ~Last
    /\ called' = called \cup {elem}
    /\ \/ /\ Proceed(list)
          /\ UNCHANGED <<list, owner, due, twice>>
       \/ /\ setup.nested
          /\ \E d \in InList \ {elem} :
               /\ owner[d] = "attached"
               /\ owner' = [owner EXCEPT ![d] = "freeing"]
               /\ list' = Without(list, d)
               /\ due' = due \ {d}
               /\ Proceed(Without(list, d))
          /\ UNCHANGED twice
    /\ UNCHANGED <<setup, posted, done, walking, removing, gone>>

(* elem's function learns that the object is destroyed: it sets detached   *)
(* and returns RS_REMOVE.                                                  *)
CallRemove ==
    /\ walking /\ elem # NULL /\ ~removing /\ Last
    /\ called' = called \cup {elem}
    /\ gone' = IF Global THEN gone ELSE gone \cup {elem}
    /\ removing' = TRUE
    /\ UNCHANGED <<setup, list, posted, done, walking, elem, temp, owner, due, twice>>

(* The walking thread removes it (and unsets attached of a global one). *)
Remove ==
    /\ removing
    /\ removing' = FALSE
    /\ gone' = gone \cup {elem}
    /\ list' = Without(list, elem)
    /\ twice' = IF elem \in InList THEN twice ELSE twice \cup {elem}
    /\ Proceed(Without(list, elem))
    /\ UNCHANGED <<setup, posted, done, walking, owner, due, called>>

(* Mutated form of End: the early exit leaves the lock. *)
EndLocked ==
    /\ walking /\ elem = NULL /\ done' = posted
    /\ UNCHANGED <<setup, list, posted, walking, elem, temp, removing, owner, gone, due,
                   called, twice>>

(* The end of the list: the lock is given up. *)
End ==
    /\ walking /\ elem = NULL
    /\ walking' = FALSE /\ done' = done + 1
    /\ UNCHANGED <<setup, list, posted, elem, temp, removing, owner, gone, due, called, twice>>

Walk == Start \/ CallOK \/ CallRemove \/ Remove \/ End

Owner(r) == Detach(r) \/ Free(r)

Next ==
    \/ Dispatch \/ Walk
    \/ \E r \in Reactions : Attach(r) \/ Release(r) \/ Owner(r)

Spec == Init /\ [][Next]_vars

(* The dispatcher runs; a thread that waits for the lock gets it sooner or *)
(* later, as messages come to an end.                                      *)
FairSpec == Spec /\ WF_vars(Walk) /\ \A r \in Reactions : WF_vars(Owner(r))

-----------------------------------------------------------------------------
(* reactor.h: "Detach an attached local reaction from the reactor."        *)
(* A reaction that its owner has detached is not called any more.  (One    *)
(* that another reaction detaches in the middle of a walk may still be.)   *)
DetachedIsNotCalled ==
    ~setup.nested => (walking /\ elem # NULL /\ ~removing => elem \in InList)

(* idirectfbinputbuffer.c: "free memory later, because reactor writes to   *)
(* it after we return RS_REMOVE".  The walking thread touches no reaction  *)
(* whose interface is gone, unless the interface learns from its local     *)
(* reaction that the object ends and is released at once, or is released   *)
(* by the reaction before it in the middle of a walk.                      *)
NoUseAfterFree ==
    ~setup.nested /\ (setup.destroys => Global) =>
        \A r \in Reactions : owner[r] = "freed" => r \notin InList /\ elem # r

(* list.h, direct_list_remove():                                           *)
(* "D_ASSERT( direct_list_contains_element_EXPENSIVE( *list, link ) )".    *)
(* Holds for global reactions, whose "attached" is tested under the lock,  *)
(* and for all while RS_REMOVE does not race with a detach.                *)
RemovesMembers == (setup.destroys => Global) => twice = {}

(* Every reaction that is attached when a message is dispatched, and is    *)
(* not detached meanwhile, is called for it, whatever others return (but a *)
(* reaction that detaches its successor ends the walk).                    *)
NobodyIsSkipped == ~setup.nested => (walking /\ elem = NULL => due \subseteq called)

(* Detaching returns: it waits for messages, never for ever, if reactions  *)
(* return; one that waits for what the detaching thread holds does not.    *)
DetachReturns == \A r \in Reactions : owner[r] = "detaching" ~> owner[r] = "freed"

(* List and owners agree, and the walk touches no memory that is gone.     *)
Consistent == TypeOK /\ RemovesMembers /\ NoUseAfterFree
=============================================================================
