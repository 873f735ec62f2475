SPECIFICATION Spec
CONSTANTS
    MaxLength = 3
    LongLength = 6
    Passwords <- MCPasswords
    CharacterTypes <- MCCharacterTypes
    Requirements = {1, 3}
    Users <- MCUsers
    Options <- MCOptions
    PalindromeNums = {1, 2}
    MonotoneNums = {3}
    ConsecutiveNums = {2, 3}
    Keyboard <- keyboard_character
    DictPath = "argument"
    DefaultCracklibDict = "default"
    Dictionaries <- MCDictionaries
    Standards <- MCStandards
    Secrets <- MCSecrets
    Salts <- MCSalts
INVARIANTS
    AnyIsFound
CHECK_DEADLOCK FALSE
