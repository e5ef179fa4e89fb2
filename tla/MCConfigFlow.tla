---------------------------- MODULE MCConfigFlow ----------------------------
\* A small instance of ConfigFlow for TLC: a legacy remote of which one frame
\* was also heard damaged, an extended frame under its id, and another remote.
EXTENDS ConfigFlow, TLC

r1 == <<59, 63, 2>>
r2 == <<17, 34, 51>>

Frame(remote, cmd1, cmd2, profile) ==
  [remote |-> remote, cmd1 |-> cmd1, err1 |-> build_err_byte(cmd1, profile[1], profile[2]),
   cmd2 |-> cmd2, err2 |-> build_err_byte(cmd2, profile[3], profile[4]), extension |-> <<>>]

p1 == <<13, 7, 5, 8>>
p2 == <<1, 2, 3, 4>>

Damaged == [Frame(r1, 1, 3, p1) EXCEPT !.err1 = 3]
Extended == [remote |-> r1, cmd1 |-> 1, err1 |-> 24, cmd2 |-> 5, err2 |-> 9, extension |-> <<36, 7, 8>>]

MCPackets == {Frame(r1, 1, 6, p1), Frame(r1, 0, 5, p1), Frame(r1, 1, 5, p1),
              Damaged, Extended, Frame(r2, 1, 6, p2)}
MCBatches == {<<Frame(r1, 1, 6, p1)>>, <<Frame(r1, 0, 5, p1), Frame(r1, 1, 6, p1)>>, <<Frame(r2, 1, 6, p2)>>,
              <<Damaged>>}
MCSetups == {[controller |-> "yardstick", link |-> ""], [controller |-> "lilygo", link |-> "tembed"],
              [controller |-> "lilygo", link |-> ""]}
MCEsphome == {"tembed"}
MCManual == {[remote |-> r1, profile |-> p1]}
MCExisting == {[controller |-> "lilygo", link |-> "tembed", remote |-> r1, profile |-> p2, proof |-> {}]}
MCSessions == 1..2
=============================================================================
