------------------------ MODULE MCEndpointReception ------------------------
\* Raw captures: a frame of the own remote with the state asked for, a damaged
\* one, and a frame of another remote; filtered: a good packet and a damaged one.
EXTENDS EndpointReception

CONSTANTS Other, Else

MCRemotes == {Own, Other}
MCStates  == {Asked, Else}

Capture(kind, remote, state) ==
  [kind |-> kind, remote |-> remote, state |-> state,
   ecc |-> state \in MCStates, sound |-> TRUE]

MCCaptures ==
  {Capture("pulse_capture", Own, Asked), Capture("pulse_capture", Own, NoState),
   Capture("fifo_capture", Other, Else),
   Capture("rx_packet", Own, Asked), Capture("rx_packet", Own, NoState)}
=============================================================================
