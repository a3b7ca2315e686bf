------------------------------- MODULE VmmMC -------------------------------
EXTENDS Vmm, PmemMC
=============================================================================
