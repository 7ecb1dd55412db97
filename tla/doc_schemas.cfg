\* Three schemas that may refer to two definitions.
SPECIFICATION Spec
CONSTANTS
    Defs = {"URLEncodedBase64", "CredentialDescriptor"}
    Nodes = 3
INVARIANT DocSchemasComplete
CHECK_DEADLOCK FALSE
