------------------------ MODULE MCOverlayImplements ------------------------
EXTENDS OverlayImplements, MCOverlay
=============================================================================
