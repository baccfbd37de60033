\* One run of squoosh_images.py over a tree that follows the documentation's conventions.
CONSTANTS
    R = R
    D = D
    P1 = P1
    P2 = P2
    P3 = P3
    P4 = P4
    None = None
    Outside = Outside
    Dirs <- MCDirs
    Names <- MCNames
    Exts <- MCExts
    Mds <- MCMds
    MdDir <- MCMdDir
    InitialImages <- MCImages
    MdRefs <- MCRefs
SPECIFICATION Spec
\* The script ends after step 5.
CHECK_DEADLOCK FALSE
INVARIANT TypeOK
INVARIANT RefsStayValid
INVARIANT RefsRecoverable
