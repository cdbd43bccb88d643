SPECIFICATION LinkSpec
CONSTANTS
    f1 = f1
    f2 = f2
    Paths = {f1, f2}
    NoFile = NoFile
    Total = 3
    Uploads = {0, 1, 2}
    Created = {TRUE, FALSE}
    SkipAnytime = FALSE
    MaxRuns = 3
    MaxChunk = 4
SYMMETRY PathSymmetry
INVARIANT LinkTypeOK
 
 
