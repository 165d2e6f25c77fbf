---------------------------- MODULE MCFluxCapture ----------------------------
EXTENDS FluxCapture

CONSTANTS t0, t1

TwoSurfaces == {t0, t1}

==============================================================================
