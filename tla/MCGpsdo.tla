------------------------------ MODULE MCGpsdo ------------------------------
EXTENDS Gpsdo

\* A good measurement, one too far off for fine tuning, and an implausible one.
MCDev == {0, 7, 2000}

MCTuneWords == {0, 2048}

=============================================================================
