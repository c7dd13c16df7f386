\* Four inums and three inode objects: malloc runs out while an inum is
\* still uncached, and a create can collide with a cached inum.  Two
\* references per inode.
CONSTANTS
    Objs <- MCObjs
    Inums <- MCInums
    NoObj = NoObj
    NoInum = NoInum
    MaxRefs = 2
SPECIFICATION Spec
INVARIANT TypeOK RefcountExact CacheSettled OneLiveInode NoAssertFires
PROPERTY DirtyStaysPinned
