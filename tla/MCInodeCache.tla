---------------------------- MODULE MCInodeCache ----------------------------
EXTENDS InodeCache

MCObjs == {"o1", "o2", "o3"}
MCInums == {1, 2, 3, 4}

====
