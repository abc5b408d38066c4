---------------------------- MODULE MCGpsdoLoop ----------------------------
EXTENDS GpsdoLoop

MCDev == -5000 .. 5000
MCTuneWords == {1500, 2048}
MCBases == {-600, 600}
MCJitter == {-4, 4}

MCOutages == {1, 2, 4}

MCKd == -6144

=============================================================================
