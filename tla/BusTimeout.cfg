SPECIFICATION Spec
PROPERTIES UndecodedFaults
