------------------------------ MODULE FanBoard ------------------------------
(***************************************************************************)
(* What fanctl promises whoever asks for fan speeds, of everything that    *)
(* runs at the same time: a header changes hands or speed only because     *)
(* somebody asked for just that and has not been served yet, header by     *)
(* header in the order of their indexes, or because of the firmware.       *)
(***************************************************************************)
EXTENDS Integers

CONSTANTS
    Clients,    \* who may ask
    Fans,       \* the headers, numbered
    Modal,      \* those that the firmware can drive
    Settings    \* what may be asked for a header

VARIABLES
    asked,      \* what each client has asked for and not got
    taking,     \* the header each client has taken over, but given no speed yet
    firmware,   \* the headers that the firmware drives
    speed       \* the speed last asked for of each header, unless it drifted

boardVars == <<asked, taking, firmware, speed>>

NoRequest == [f \in {} |-> 0]
NoFan     == 0
Drifted   == -1     \* the firmware has changed the speed since

BoardInit ==
    /\ asked = [c \in Clients |-> NoRequest]
    /\ taking = [c \in Clients |-> NoFan]
    /\ firmware \subseteq Modal
    /\ \A f \in Fans : speed[f] = Drifted <=> f \in firmware

Ask(c) ==
    /\ asked[c] = NoRequest
    /\ DOMAIN asked'[c] \subseteq Fans
    /\ \A f \in DOMAIN asked'[c] : asked'[c][f] \in Settings
    /\ asked' = [asked EXCEPT ![c] = asked'[c]]
    /\ UNCHANGED <<taking, firmware, speed>>

\* Header f is the next of c's request, which wants the given mode.
Upcoming(c, f, mode) ==
    /\ f \in DOMAIN asked[c] /\ asked[c][f].mode = mode
    /\ \A g \in DOMAIN asked[c] : f <= g

Served(c, f) ==
    /\ asked' = [asked EXCEPT ![c] = [g \in DOMAIN asked[c] \ {f} |-> asked[c][g]]]
    /\ taking' = [taking EXCEPT ![c] = NoFan]

\* A header is driven in two steps, unless there is nobody to take it from.
Take(c, f) ==
    /\ Upcoming(c, f, "manual") /\ f \in Modal /\ taking[c] = NoFan
    /\ taking' = [taking EXCEPT ![c] = f]
    /\ firmware' = firmware \ {f}
    /\ UNCHANGED <<asked, speed>>

Drive(c, f) ==
    /\ Upcoming(c, f, "manual") /\ taking[c] = IF f \in Modal THEN f ELSE NoFan
    /\ speed' = [speed EXCEPT ![f] = asked[c][f].pwm]
    /\ Served(c, f)
    /\ UNCHANGED firmware

Release(c, f) ==
    /\ Upcoming(c, f, "auto") /\ f \in Modal
    /\ firmware' = firmware \cup {f}
    /\ Served(c, f)
    /\ UNCHANGED speed

\* Clients give up some of what they asked for: what is as wanted already or
\* refused or failed, or everything, on an error or when they die.
GiveUp ==
    /\ asked' = [c \in Clients |->
                    [f \in DOMAIN asked[c] \cap DOMAIN asked'[c] |-> asked[c][f]]]
    /\ taking' = [c \in Clients |-> IF asked'[c] = asked[c] THEN taking[c] ELSE NoFan]
    /\ UNCHANGED <<firmware, speed>>

Firmware(f) ==
    /\ f \in Modal
    /\ firmware' = firmware \cup {f}
    /\ speed' = [speed EXCEPT ![f] = Drifted]
    /\ UNCHANGED <<asked, taking>>

BoardNext ==
    \/ \E c \in Clients : Ask(c) \/ \E f \in Fans : Take(c, f) \/ Drive(c, f) \/ Release(c, f)
    \/ \E f \in Fans : Firmware(f)
    \/ GiveUp

BoardSpec == BoardInit /\ [][BoardNext]_boardVars
=============================================================================
