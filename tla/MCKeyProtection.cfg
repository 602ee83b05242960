SPECIFICATION KeySpec
CONSTANTS
    Passwords = {"p", "q", "long"}
    LongPasswords = {"long"}
    Clear = "clear"
INVARIANTS SecretKept KeyAsTold
PROPERTY NeedsPassword
