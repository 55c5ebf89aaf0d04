------------------------------ MODULE EventFeed ------------------------------
(***************************************************************************)
(* What the run service promises to the readers of its event feeds: every  *)
(* run has a numbered feed, a reader joins it once and is handed the whole *)
(* past at that instant, and each later event is owed to it until it is    *)
(* handed over or - only if the reader is a full backlog behind - lost.    *)
(***************************************************************************)
EXTENDS Integers, FiniteSets

CONSTANTS Feeds, Readers, Backlog

VARIABLES
    length,   \* length[f]: events published so far, numbered from 1
    follows,  \* follows[c]: the feed reader c asks for
    state,    \* state[c]: "out", "in" or "gone"
    got,      \* got[c]: events handed to c
    read,     \* read[c]: how many of them c has consumed
    owed,     \* owed[c]: events c has still to be given
    lost      \* lost[c]: events c will never be given

feed == <<length, follows, state, got, read, owed, lost>>

FeedInit ==
    /\ length = [f \in Feeds |-> 0]
    /\ follows \in [Readers -> Feeds]
    /\ state = [c \in Readers |-> "out"]
    /\ got = [c \in Readers |-> {}]
    /\ read = [c \in Readers |-> 0]
    /\ owed = [c \in Readers |-> {}]
    /\ lost = [c \in Readers |-> {}]

Emit(f) ==
    /\ length' = [length EXCEPT ![f] = @ + 1]
    /\ owed' = [c \in Readers |->
                  IF state[c] = "in" /\ follows[c] = f
                  THEN owed[c] \cup {length[f] + 1} ELSE owed[c]]
    /\ UNCHANGED <<follows, state, got, read, lost>>

Join(c) ==
    /\ state[c] = "out"
    /\ state' = [state EXCEPT ![c] = "in"]
    /\ got' = [got EXCEPT ![c] = 1..length[follows[c]]]
    /\ UNCHANGED <<length, follows, read, owed, lost>>

Hand(c, n) ==
    /\ n \in owed[c]
    /\ owed' = [owed EXCEPT ![c] = @ \ {n}]
    /\ got' = [got EXCEPT ![c] = @ \cup {n}]
    /\ UNCHANGED <<length, follows, state, read, lost>>

Lose(c, n) ==
    /\ n \in owed[c]
    /\ Cardinality(got[c]) - read[c] >= Backlog
    /\ owed' = [owed EXCEPT ![c] = @ \ {n}]
    /\ lost' = [lost EXCEPT ![c] = @ \cup {n}]
    /\ UNCHANGED <<length, follows, state, got, read>>

Consume(c) ==
    /\ state[c] = "in" /\ read[c] < Cardinality(got[c])
    /\ read' = [read EXCEPT ![c] = @ + 1]
    /\ UNCHANGED <<length, follows, state, got, owed, lost>>

Leave(c) ==
    /\ state[c] = "in"
    /\ state' = [state EXCEPT ![c] = "gone"]
    /\ UNCHANGED <<length, follows, got, read, owed, lost>>

FeedNext ==
    \/ \E f \in Feeds : Emit(f)
    \/ \E c \in Readers :
         \/ Join(c) \/ Consume(c) \/ Leave(c)
         \/ \E n \in owed[c] : Hand(c, n) \/ Lose(c, n)

FeedSpec == FeedInit /\ [][FeedNext]_feed
=============================================================================
