------------------------------ MODULE MCILeaf -------------------------------
EXTENDS ILeaf

MCInums == 0..4
MCAttrSizes == {1, 2}
=============================================================================
