--------------------------- MODULE MCSegmentation ---------------------------
EXTENDS Segmentation
=============================================================================
