--------------------------- MODULE ChannelService ---------------------------
(***************************************************************************)
(* What an AT channel promises to the rest of the RIL: it serves one        *)
(* command at a time, writes it to the modem a bounded number of times, and *)
(* completes each command it takes once, with the modem's answer or with a  *)
(* failure.  AtChannel implements it.                                       *)
(***************************************************************************)
EXTENDS Naturals

CONSTANTS
    Cmds,     \* the commands offered to the channel
    NoCmd,    \* no command
    Noops,    \* commands that need no answer: they write nothing
    Retryable \* commands that may be written a second time

VARIABLES
    offered,  \* commands not taken yet
    serving,  \* the command being served, or NoCmd
    attempts, \* how often each command was written
    outcome   \* "none" until the command is completed

serviceVars == <<offered, serving, attempts, outcome>>

MaxAttempts(c) == IF c \in Noops THEN 0 ELSE IF c \in Retryable THEN 2 ELSE 1

ServiceInit ==
    /\ offered = Cmds
    /\ serving = NoCmd
    /\ attempts = [c \in Cmds |-> 0]
    /\ outcome = [c \in Cmds |-> "none"]

Take(c) ==
    /\ serving = NoCmd
    /\ c \in offered
    /\ offered' = offered \ {c}
    /\ serving' = c
    /\ UNCHANGED <<attempts, outcome>>

Attempt ==
    /\ serving # NoCmd
    /\ attempts[serving] < MaxAttempts(serving)
    /\ attempts' = [attempts EXCEPT ![serving] = @ + 1]
    /\ UNCHANGED <<offered, serving, outcome>>

(* An answer needs an attempt; a failure may come at any time.              *)
Complete ==
    /\ serving # NoCmd
    /\ outcome[serving] = "none"
    /\ \E o \in {"answered", "failed"} :
           /\ o = "answered" => attempts[serving] > 0
           /\ outcome' = [outcome EXCEPT ![serving] = o]
    /\ serving' = NoCmd
    /\ UNCHANGED <<offered, attempts>>

ServiceNext == (\E c \in Cmds : Take(c)) \/ Attempt \/ Complete

ServiceSpec == ServiceInit /\ [][ServiceNext]_serviceVars
=============================================================================
