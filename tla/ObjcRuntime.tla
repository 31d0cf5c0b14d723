---------------------------- MODULE ObjcRuntime -----------------------------
(***************************************************************************)
(* The Objective-C runtime of src/shim/sword3_objc_shim.c: selectors,      *)
(* message sends, method lookup and the classes seen so far, used by       *)
(* several threads of the guest.                                           *)
(*                                                                         *)
(* A class is read in place and never changes: its superclass, its name    *)
(* and its methods, in order.  A method entry is absolute ("big"),         *)
(* relative ("small"), or cannot be decoded ("bad"); a class without       *)
(* metadata (an imported UIKit class, a block of zeros) has no name and no *)
(* methods.  A pointer to a node of a list is the node's number.           *)
(***************************************************************************)
EXTENDS Naturals, Sequences, SequencesExt, FiniteSets

CONSTANTS
    Senders,          \* threads
    Selectors,        \* selector names
    Class,            \* class -> [super, name, methods]
    NSObject, NSObjectMeta,
    ObservedMax       \* entries of observed_classes

NoClass == "NULL"
NoCode == "NULL"
NoAnswer == [cls |-> NoClass, sel |-> "", imp |-> NoCode]
Classes == DOMAIN Class

ASSUME ObjcAssumption ==
    /\ {NSObject, NSObjectMeta} \subseteq Classes /\ NoClass \notin Classes /\ ObservedMax \in Nat
    /\ IsFiniteSet(Classes) /\ \A c \in Classes : Class[c].super \in Classes \cup {NoClass}

VARIABLES
    use,        \* what the guest does with the runtime: "methods" or "classes"
    names,      \* selectors: the registered names, oldest first
    cached,     \* cached_methods: the entries decoded, oldest first
    observed,   \* observed_classes
    doing,      \* what each thread is in the middle of
    selGot,     \* history: names and the pointers they were given
    methodGot,  \* history: relative entries and the pointers they were given
    looked, sent, \* history: the last method looked up, the last message sent
    classGot,   \* history: class names and the answers given
    aborted     \* a required class was not found
objcVars == <<use, names, cached, observed, doing, selGot, methodGot, looked, sent, classGot, aborted>>

Outside == [pc |-> "guest", key |-> <<>>]

ObjcInit ==
    /\ use \in {"methods", "classes"}
    /\ names = <<>> /\ cached = <<>> /\ observed = <<>>
    /\ doing = [t \in Senders |-> Outside]
    /\ selGot = {} /\ methodGot = {} /\ classGot = {}
    /\ looked = NoAnswer /\ sent = NoAnswer
    /\ aborted = FALSE

Ready(t, what) == doing[t].pc = "guest" /\ ~aborted /\ use = what
InSection(pc) == \E u \in Senders : doing[u].pc = pc
Nodes(list, key) == {i \in DOMAIN list : list[i] = key}

-----------------------------------------------------------------------------
(* sel_registerName: the list is searched and extended under one hold of   *)
(* selector_lock.                                                          *)
RegisterUnder(t, name, locked) ==
    /\ Ready(t, "methods") /\ (locked => ~InSection("selector"))
    /\ IF Nodes(names, name) # {}
       THEN selGot' = selGot \cup {<<name, i>> : i \in Nodes(names, name)} /\ UNCHANGED doing
       ELSE doing' = [doing EXCEPT ![t] = [pc |-> "selector", key |-> <<name>>]] /\ UNCHANGED selGot
    /\ UNCHANGED <<use, names, cached, observed, methodGot, looked, sent, classGot, aborted>>

\* Mutant: the list is searched without the lock.
RegisterUnlocked(t, name) == RegisterUnder(t, name, FALSE)

Register(t, name) == RegisterUnder(t, name, TRUE)

RegisterInsert(t) ==
    /\ doing[t].pc = "selector"
    /\ names' = Append(names, doing[t].key[1])
    /\ selGot' = selGot \cup {<<doing[t].key[1], Len(names) + 1>>}
    /\ doing' = [doing EXCEPT ![t] = Outside]
    /\ UNCHANGED <<use, cached, observed, methodGot, looked, sent, classGot, aborted>>

-----------------------------------------------------------------------------
(* Looking methods up.                                                     *)

\* decode_method and find_method_in_class: an entry that cannot be decoded
\* ends the search of its class.
EntriesFor(c, sel) ==
    LET m == Class[c].methods IN
    {i \in DOMAIN m : m[i].sel = sel /\ \A j \in 1..i : m[j].kind # "bad"}
FoundAt == [c \in Classes, sel \in Selectors |->
              IF EntriesFor(c, sel) = {} THEN 0
              ELSE CHOOSE i \in EntriesFor(c, sel) : \A j \in EntriesFor(c, sel) : i <= j]
ImpOf(c, sel) == Class[c].methods[FoundAt[c, sel]].imp
HaveMethod == [sel \in Selectors |-> {c \in Classes : FoundAt[c, sel] # 0}]
HaveCode == [sel \in Selectors |-> {c \in HaveMethod[sel] : ImpOf(c, sel) # NoCode}]

\* A class and its superclasses, from it up.
LineageTo[n \in Nat] ==
    IF n = 0 THEN [c \in Classes |-> <<c>>]
    ELSE LET r == LineageTo[n - 1] IN
         [c \in Classes |-> LET up == Class[Last(r[c])].super IN
                            IF up = NoClass THEN r[c] ELSE Append(r[c], up)]
Lineage == LineageTo[Cardinality(Classes)]
Nearest(way, S) == way[CHOOSE i \in DOMAIN way : way[i] \in S /\ \A j \in 1..(i - 1) : way[j] \notin S]

\* sword3_objc_lookup_imp: the nearest method that has code, then
\* NSObject's, then its class methods, then a stub that returns the receiver.
LookupOn(way, sel) ==
    IF ToSet(way) \cap HaveCode[sel] = {} THEN "stub" ELSE ImpOf(Nearest(way, HaveCode[sel]), sel)
LookupImp(cls, start, sel) ==
    LookupOn(Lineage[IF start = NoClass THEN cls ELSE start] \o <<NSObject, NSObjectMeta>>, sel)

\* objc_msgSend to an instance of cls
MsgSend(t, cls, sel) ==
    /\ Ready(t, "methods")
    /\ sent' = [cls |-> cls, sel |-> sel, imp |-> LookupImp(cls, NoClass, sel)]
    /\ UNCHANGED <<use, names, cached, observed, doing, selGot, methodGot, looked, classGot, aborted>>

\* objc_msgSendSuper2 from a method of class from: the search starts above it.
MsgSendSuper2(t, cls, from, sel) ==
    /\ Ready(t, "methods") /\ from \in ToSet(Lineage[cls]) /\ Class[from].super # NoClass
    /\ sent' = [cls |-> Class[from].super, sel |-> sel, imp |-> LookupImp(cls, Class[from].super, sel)]
    /\ UNCHANGED <<use, names, cached, observed, doing, selGot, methodGot, looked, classGot, aborted>>

\* class_getInstanceMethod (also of respondsToSelector:): an absolute entry
\* is returned as it lies in the class; a relative one is decoded into a
\* node, under method_cache_lock.  A method without code is found too.
GetInstanceMethod(t, c, sel) ==
    LET owner == Nearest(Lineage[c], HaveMethod[sel])
        e == <<owner, FoundAt[owner, sel]>>
    IN
    /\ Ready(t, "methods") /\ ToSet(Lineage[c]) \cap HaveMethod[sel] # {}
    /\ looked' = [cls |-> c, sel |-> sel, imp |-> ImpOf(owner, sel)]
    /\ IF Class[owner].methods[e[2]].kind = "big" THEN UNCHANGED <<doing, methodGot>>
       ELSE /\ ~InSection("cache")
            /\ IF Nodes(cached, e) # {}
               THEN methodGot' = methodGot \cup {<<e, i>> : i \in Nodes(cached, e)} /\ UNCHANGED doing
               ELSE doing' = [doing EXCEPT ![t] = [pc |-> "cache", key |-> e]] /\ UNCHANGED methodGot
    /\ UNCHANGED <<use, names, cached, observed, selGot, sent, classGot, aborted>>

\* cache_decoded_method, when the entry has no node yet
CacheDecodedMethod(t) ==
    /\ doing[t].pc = "cache"
    /\ cached' = Append(cached, doing[t].key)
    /\ methodGot' = methodGot \cup {<<doing[t].key, Len(cached) + 1>>}
    /\ doing' = [doing EXCEPT ![t] = Outside]
    /\ UNCHANGED <<use, names, observed, selGot, looked, sent, classGot, aborted>>

-----------------------------------------------------------------------------
(* Classes by name.                                                        *)

\* remember_class, of object_getClass and class_getName
RememberClass(t, c) ==
    /\ Ready(t, "classes") /\ c \notin ToSet(observed) /\ Len(observed) < ObservedMax
    /\ observed' = Append(observed, c)
    /\ UNCHANGED <<use, names, cached, doing, selGot, methodGot, looked, sent, classGot, aborted>>

\* objc_lookUpClass: the first class observed under the name.
LookUpClass(name) ==
    LET named == {i \in DOMAIN observed : Class[observed[i]].name = name} IN
    IF name = Class[NSObject].name THEN NSObject
    ELSE IF named = {} THEN NoClass
    ELSE observed[CHOOSE i \in named : \A j \in named : i <= j]

\* objc_getClass; objc_getRequiredClass ends the program when there is none.
GetClass(t, name, required) ==
    LET c == LookUpClass(name) IN
    /\ Ready(t, "classes") /\ name # ""
    /\ classGot' = IF c = NoClass THEN classGot ELSE classGot \cup {<<name, c>>}
    /\ aborted' = (required /\ c = NoClass)
    /\ UNCHANGED <<use, names, cached, observed, doing, selGot, methodGot, looked, sent>>

ObjcNext == \E t \in Senders :
    \/ \E s \in Selectors :
         \/ Register(t, s)
         \/ \E c \in Classes : \/ GetInstanceMethod(t, c, s) \/ MsgSend(t, c, s)
                               \/ \E d \in Classes : MsgSendSuper2(t, c, d, s)
    \/ RegisterInsert(t) \/ CacheDecodedMethod(t)
    \/ \E c \in Classes : \/ RememberClass(t, c)
                          \/ \E required \in BOOLEAN : GetClass(t, Class[c].name, required)

ObjcSpec == ObjcInit /\ [][ObjcNext]_objcVars

-----------------------------------------------------------------------------
(* Properties.                                                             *)

IsFunctional(S) == \A a, b \in S : a[1] = b[1] => a[2] = b[2]

\* What the guest compares or keeps by address stays the same: whichever
\* threads ask, and however their calls interleave, a selector name has one
\* pointer, a relative method one Method, and a class name one class once it
\* has been found; and a message runs the code of the Method that
\* class_getInstanceMethod gives for its class and selector, where that has
\* code, also when it is sent to super.
OneIdentity ==
    /\ IsFunctional(selGot) /\ IsFunctional(methodGot) /\ IsFunctional(classGot)
    /\ sent.cls = looked.cls /\ sent.sel = looked.sel /\ looked.imp # NoCode => sent.imp = looked.imp
=============================================================================
