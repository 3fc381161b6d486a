------------------------------ MODULE Booking ------------------------------
(***************************************************************************)
(* What the modes of ordering promise about who works for whom, without    *)
(* saying how a master is found, by offers, waves or bids: every order is  *)
(* open until one master is booked on it, a master is booked on one order  *)
(* at a time, a client has one running order at a time, a booked master    *)
(* may step back only until he is under way, and an order that is over     *)
(* stays over.                                                             *)
(***************************************************************************)
CONSTANTS
    Orders,     \* order slots
    Masters,    \* users with a master profile
    ClientOf,   \* the client of each order
    NoMaster    \* "masterId is NULL"

VARIABLES
    phase,      \* "idle", "open", "booked", "underway" or "over"
    server      \* the master booked on the order, or NoMaster

vars == <<phase, server>>

Running(o) == phase[o] \in {"open", "booked", "underway"}

Init ==
    /\ phase = [o \in Orders |-> "idle"]
    /\ server = [o \in Orders |-> NoMaster]

\* A client without a running order opens one.
Open(o) ==
    /\ phase[o] = "idle"
    /\ \A p \in Orders \ {o} : ClientOf[p] = ClientOf[o] => ~Running(p)
    /\ phase' = [phase EXCEPT ![o] = "open"]
    /\ UNCHANGED server

\* A master who serves no other order is booked.
Book(o, m) ==
    /\ phase[o] = "open"
    /\ \A p \in Orders : server[p] # m
    /\ phase' = [phase EXCEPT ![o] = "booked"]
    /\ server' = [server EXCEPT ![o] = m]

\* A booked master who has not set out steps back.
StepBack(o) ==
    /\ phase[o] = "booked"
    /\ phase' = [phase EXCEPT ![o] = "open"]
    /\ server' = [server EXCEPT ![o] = NoMaster]

SetOut(o) ==
    /\ phase[o] = "booked"
    /\ phase' = [phase EXCEPT ![o] = "underway"]
    /\ UNCHANGED server

\* The order is accepted or cancelled: its master is free again.
Finish(o) ==
    /\ Running(o)
    /\ phase' = [phase EXCEPT ![o] = "over"]
    /\ server' = [server EXCEPT ![o] = NoMaster]

Next ==
    \E o \in Orders :
        \/ Open(o) \/ StepBack(o) \/ SetOut(o) \/ Finish(o)
        \/ \E m \in Masters : Book(o, m)

Spec == Init /\ [][Next]_vars
=============================================================================
