CONSTANTS
    Names = {n1, n2, n3}
    Blank = Blank
    NewDoc = NewDoc
    Nil = Nil
SPECIFICATION TitleSpec
INVARIANTS RenameKeptOutside TitleStored
