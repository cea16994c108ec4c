SPECIFICATION DirectorySpec
INVARIANTS
    
    
    AnswersSound
    

    
    
CHECK_DEADLOCK FALSE
CONSTANTS
    NULL = NULL
    Authorities = {a1, a2, a3}
    Subjects <- ToWrite
    MIN_VOTE_INTERVAL = 5
    MIN_VOTE_SECONDS = 1
    MIN_DIST_SECONDS = 1
    CLIENT_MULTIPLE = 2
    DESC_LEN = 2000
    DESC_LEN_PER_INTRO = 1000
    FIXED_LEN = 800
    INTRO_LEN = 830
    BLOCK_LEN = 430
SYMMETRY Sym
