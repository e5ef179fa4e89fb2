----------------------------- MODULE MCWaveform -----------------------------
\* A small instance of Waveform for TLC: two legacy frames and a ten-word one.
EXTENDS Waveform

Legacy1 == <<59, 63, 2, 1, 6, 118, 222>>
Legacy2 == <<59, 63, 2, 0, 6, 87, 222>>
\* The words of a capture in tests/test_proflame_pulse.py.
Extended == <<8, 233, 5, 129, 5, 21, 230, 0, 132, 119>>

MCFrames == {Legacy1, Legacy2, Extended}
MCNoise  == {<<1>>, <<0, 1, 1>>}
MCLosses == {1, 99, 182}
MCJitters == {-208, 0, 208}
=============================================================================
